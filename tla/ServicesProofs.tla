--------------------------- MODULE ServicesProofs ---------------------------
(* What the browser's services and the operator's consent promise, for any   *)
(* numbers of agents, viewers, plugins, consoles and calls: no failed batch  *)
(* of input leaves a key down, no viewer misses an event between replay and  *)
(* stream, no login is lost with its context, and nothing runs that nobody   *)
(* authorised.                                                               *)
EXTENDS PluginConsent, InputBatch, BrowserView, BrowserSessions,
        FiniteSetTheorems, WellFoundedInduction, TLAPS

-----------------------------------------------------------------------------
(* Sets of numbers and sequences                                             *)

\* Every set of naturals has a least element.
LEMMA Smallest ==
  ASSUME NEW T, T \subseteq Nat, T # {}
  PROVE  \E x \in T : \A y \in T : x <= y
<1> DEFINE R == OpToRel(<, Nat)
<1>1. PICK x \in T : \A y \in T : ~(<<y, x>> \in R)
  <2>1. IsWellFoundedOn(R, Nat)
    BY NatLessThanWellFounded
  <2> HIDE DEF R
  <2> QED
    BY <2>1, WFMin
<1>2. \A a, b \in Nat : a < b => <<a, b>> \in R
  BY DEF OpToRel
<1> HIDE DEF R
<1>3. ASSUME NEW y \in T PROVE x <= y
  <2>1. x \in Nat /\ y \in Nat
    BY <1>1, <1>3
  <2>2. ~(y < x)
    BY <1>1, <1>2, <1>3, <2>1
  <2> QED
    BY <2>1, <2>2
<1> QED
  BY <1>1, <1>3

\* A set of naturals with a bound has a greatest element.
LEMMA Largest ==
  ASSUME NEW n \in Nat, NEW T, T \subseteq 0 .. n, T # {}
  PROVE  \E x \in T : \A y \in T : y <= x
<1> DEFINE D == {n - x : x \in T}
<1>0. ASSUME NEW x \in T PROVE n - x \in Nat
  <2>1. x \in 0 .. n
    OBVIOUS
  <2> QED
    BY <2>1
<1>1. D \subseteq Nat /\ D # {}
  BY <1>0
<1>2. PICK d \in D : \A e \in D : d <= e
  BY <1>1, Smallest
<1>3. PICK x \in T : d = n - x
  BY <1>2
<1>4. ASSUME NEW y \in T PROVE y <= x
  <2>1. d <= n - y
    BY <1>2
  <2>2. x \in 0 .. n /\ y \in 0 .. n
    OBVIOUS
  <2> QED
    BY <1>3, <2>1, <2>2
<1> QED
  BY <1>3, <1>4

Members(s) == {s[i] : i \in DOMAIN s}

LEMMA NonEmpty ==
  ASSUME NEW S, NEW s \in Seq(S), s # <<>>
  PROVE  Len(s) \in Nat \ {0}
  OBVIOUS

\* Appending adds one element, at the end.
LEMMA AppendedTo ==
  ASSUME NEW S, NEW s \in Seq(S), NEW e \in S
  PROVE  /\ Append(s, e) \in Seq(S)
         /\ Len(Append(s, e)) = Len(s) + 1
         /\ Append(s, e)[Len(s) + 1] = e
         /\ \A i \in 1 .. Len(s) : Append(s, e)[i] = s[i]
  OBVIOUS

\* ... so that it has the elements there were, and that one.
LEMMA AppendedMembers ==
  ASSUME NEW S, NEW s \in Seq(S), NEW e \in S
  PROVE  Members(Append(s, e)) = Members(s) \cup {e}
<1> DEFINE longer == Append(s, e)
<1>1. /\ longer \in Seq(S) /\ Len(longer) = Len(s) + 1
      /\ longer[Len(s) + 1] = e /\ \A i \in 1 .. Len(s) : longer[i] = s[i]
  BY AppendedTo
<1> HIDE DEF longer
<1>2. DOMAIN longer = 1 .. Len(s) + 1 /\ DOMAIN s = 1 .. Len(s) /\ Len(s) \in Nat
  BY <1>1
<1>3. ASSUME NEW i \in DOMAIN longer PROVE longer[i] \in Members(s) \cup {e}
  BY <1>1, <1>2 DEF Members
<1>4. ASSUME NEW i \in DOMAIN s PROVE s[i] \in Members(longer)
  <2>1. i \in DOMAIN longer /\ longer[i] = s[i]
    BY <1>1, <1>2
  <2> QED
    BY <2>1 DEF Members
<1>5. e \in Members(longer)
  BY <1>1, <1>2 DEF Members
<1>6. Members(longer) = Members(s) \cup {e}
  BY <1>3, <1>4, <1>5 DEF Members
<1> QED
  BY <1>6 DEF longer

\* Taking the first or the last element away leaves the others.
LEMMA TailMembers ==
  ASSUME NEW S, NEW s \in Seq(S), s # <<>>
  PROVE  /\ Tail(s) \in Seq(S) /\ Len(Tail(s)) = Len(s) - 1
         /\ Head(s) = s[1] /\ Head(s) \in S
         /\ \A i \in 1 .. Len(s) - 1 : Tail(s)[i] = s[i + 1]
         /\ Members(s) = Members(Tail(s)) \cup {Head(s)}
<1> DEFINE rest == Tail(s)
<1>1. /\ rest \in Seq(S) /\ Len(rest) = Len(s) - 1 /\ Head(s) = s[1] /\ Head(s) \in S
      /\ \A i \in 1 .. Len(s) - 1 : rest[i] = s[i + 1]
  OBVIOUS
<1>2. Len(s) \in Nat \ {0} /\ DOMAIN s = 1 .. Len(s)
  OBVIOUS
<1> HIDE DEF rest
<1>3. DOMAIN rest = 1 .. Len(s) - 1
  BY <1>1
<1>4. ASSUME NEW i \in DOMAIN s PROVE s[i] \in Members(rest) \cup {Head(s)}
  <2>1. CASE i = 1
    BY <1>1, <2>1
  <2>2. CASE i # 1
    <3>1. i - 1 \in 1 .. Len(s) - 1
      BY <1>2, <2>2
    <3>2. rest[i - 1] = s[i]
      BY <1>1, <1>2, <3>1
    <3> QED
      BY <1>3, <3>1, <3>2 DEF Members
  <2> QED
    BY <2>1, <2>2
<1>5. ASSUME NEW i \in DOMAIN rest PROVE rest[i] \in Members(s)
  <2>1. rest[i] = s[i + 1] /\ i + 1 \in DOMAIN s
    BY <1>1, <1>2, <1>3
  <2> QED
    BY <2>1 DEF Members
<1>6. Head(s) \in Members(s)
  BY <1>1, <1>2 DEF Members
<1>7. Members(s) = Members(rest) \cup {Head(s)}
  BY <1>4, <1>5, <1>6 DEF Members
<1> QED
  BY <1>1, <1>7 DEF rest

LEMMA FrontMembers ==
  ASSUME NEW S, NEW s \in Seq(S), s # <<>>
  PROVE  /\ SubSeq(s, 1, Len(s) - 1) \in Seq(S)
         /\ s[Len(s)] \in S
         /\ Members(s) \subseteq Members(SubSeq(s, 1, Len(s) - 1)) \cup {s[Len(s)]}
<1> DEFINE front == SubSeq(s, 1, Len(s) - 1)
<1>1. Len(s) \in Nat \ {0} /\ DOMAIN s = 1 .. Len(s)
  OBVIOUS
<1>2. /\ front \in Seq(S) /\ Len(front) = Len(s) - 1 /\ s[Len(s)] \in S
      /\ \A i \in 1 .. Len(s) - 1 : front[i] = s[i]
  BY <1>1
<1> HIDE DEF front
<1>3. ASSUME NEW i \in DOMAIN s, i # Len(s) PROVE s[i] \in Members(front)
  <2>1. i \in 1 .. Len(s) - 1 /\ DOMAIN front = 1 .. Len(s) - 1
    BY <1>1, <1>2, <1>3
  <2> QED
    BY <1>2, <2>1 DEF Members
<1>4. Members(s) \subseteq Members(front) \cup {s[Len(s)]}
  BY <1>3 DEF Members
<1> QED
  BY <1>2, <1>4 DEF front

\* Removing the element at one place keeps all but that one.
LEMMA RemovedMembers ==
  ASSUME NEW S, NEW s \in Seq(S), NEW k \in DOMAIN s
  PROVE  /\ RemovedAt(s, k) \in Seq(S)
         /\ Len(RemovedAt(s, k)) = Len(s) - 1
         /\ Members(s) \subseteq Members(RemovedAt(s, k)) \cup {s[k]}
<1> DEFINE rest == RemovedAt(s, k)
<1>1. Len(s) \in Nat \ {0} /\ DOMAIN s = 1 .. Len(s) /\ k \in 1 .. Len(s)
  OBVIOUS
<1>2. rest = [i \in 1 .. Len(s) - 1 |-> IF i < k THEN s[i] ELSE s[i + 1]]
  BY DEF RemovedAt
<1> HIDE DEF rest
<1>3. ASSUME NEW i \in 1 .. Len(s) - 1 PROVE rest[i] \in S
  <2>1. i \in 1 .. Len(s) /\ i + 1 \in 1 .. Len(s)
    BY <1>1
  <2> QED
    BY <1>1, <1>2, <2>1
<1>4. rest \in Seq(S) /\ Len(rest) = Len(s) - 1 /\ DOMAIN rest = 1 .. Len(s) - 1
  BY <1>1, <1>2, <1>3
<1>5. ASSUME NEW i \in DOMAIN s, i # k PROVE s[i] \in Members(rest)
  <2>1. CASE i < k
    <3>1. i \in 1 .. Len(s) - 1 /\ rest[i] = s[i]
      BY <1>1, <1>2, <2>1
    <3> QED
      BY <1>4, <3>1 DEF Members
  <2>2. CASE i > k
    <3>1. i - 1 \in 1 .. Len(s) - 1 /\ rest[i - 1] = s[i]
      BY <1>1, <1>2, <2>2
    <3> QED
      BY <1>4, <3>1 DEF Members
  <2> QED
    BY <1>1, <1>5, <2>1, <2>2
<1>6. Members(s) \subseteq Members(rest) \cup {s[k]}
  BY <1>5 DEF Members
<1> QED
  BY <1>4, <1>6 DEF rest

\* The latest place of a set of places exists.
LEMMA LatestIs ==
  ASSUME NEW S, NEW s \in Seq(S), NEW at, at \subseteq DOMAIN s, at # {}
  PROVE  Latest(at) \in at
<1>1. at \subseteq 0 .. Len(s) /\ Len(s) \in Nat
  OBVIOUS
<1>2. \E i \in at : \A j \in at : j <= i
  BY <1>1, Largest
<1> QED
  BY <1>2 DEF Latest

LEMMA WithoutMembers ==
  ASSUME NEW S, NEW s \in Seq(S), NEW t
  PROVE  /\ Without(s, t) \in Seq(S)
         /\ Len(Without(s, t)) <= Len(s)
         /\ Members(s) \subseteq Members(Without(s, t)) \cup {t}
<1> DEFINE at == {i \in DOMAIN s : s[i] = t}
<1>0. Len(s) \in Nat
  OBVIOUS
<1>1. CASE at = {}
  BY <1>0, <1>1 DEF Without
<1>2. CASE at # {}
  <2>1. Latest(at) \in DOMAIN s /\ s[Latest(at)] = t
    BY <1>2, LatestIs
  <2>2. Without(s, t) = RemovedAt(s, Latest(at))
    BY <1>2 DEF Without
  <2>3. /\ RemovedAt(s, Latest(at)) \in Seq(S)
        /\ Len(RemovedAt(s, Latest(at))) = Len(s) - 1
        /\ Members(s) \subseteq Members(RemovedAt(s, Latest(at))) \cup {s[Latest(at)]}
    BY <2>1, RemovedMembers
  <2> QED
    BY <1>0, <2>1, <2>2, <2>3
<1> QED
  BY <1>1, <1>2

-----------------------------------------------------------------------------
(* Input batches.  What a batch pressed is tracked, held for the event under *)
(* way, or just pressed by it, as long as no release slipped.                *)

InputTypes ==
  /\ phase \in {"idle", "next", "modify", "deliver", "release", "cleanup"}
  /\ event \in [kind : Kinds, thing : Things, mods : SUBSET Modifiers]
  /\ held \in Seq(Modifiers) /\ tracked \in Seq(Things)
  /\ err \in BOOLEAN /\ slipped \in BOOLEAN /\ unreleased \in BOOLEAN
  /\ applied \in Nat /\ effects \in Nat
  /\ result \in {"none", "ok", "partial"}
  /\ mine \subseteq pressed /\ pressed \subseteq Things

InputOrder ==
  /\ phase \in {"modify", "deliver"} => ~err
  /\ phase \in {"idle", "next", "cleanup"} => held = <<>>
  /\ result = "partial" => phase = "idle"
  /\ Len(tracked) <= applied

\* The press of the event under way that is not yet tracked.
JustPressed ==
  IF phase = "release" /\ ~err /\ event.kind = "down" THEN {event.thing} ELSE {}

Accounted ==
  /\ ~slipped /\ ~unreleased => mine \subseteq Members(tracked) \cup Members(held) \cup JustPressed
  /\ phase = "release" /\ ~err /\ event.kind = "up" => event.thing \notin mine
  /\ LetsGo

CountedOnce == ~slipped => effects = applied + IF phase = "release" /\ ~err THEN 1 ELSE 0

InputInv == InputTypes /\ InputOrder /\ Accounted /\ CountedOnce

LEMMA EmptyMembers == Members(<<>>) = {}
  BY DEF Members

LEMMA InputInitInv == InputInit => InputInv
<1> SUFFICES ASSUME InputInit PROVE InputInv
  OBVIOUS
<1> USE DEF InputInit
<1>1. InputTypes
  <2>1. NoEvent \in [kind : Kinds, thing : Things, mods : SUBSET Modifiers]
    BY InputAssumption DEF NoEvent, Kinds, Things
  <2>2. mine \subseteq pressed /\ pressed \subseteq Things
    BY DEF Things
  <2>3. held \in Seq(Modifiers) /\ tracked \in Seq(Things)
    OBVIOUS
  <2> QED
    BY <2>1, <2>2, <2>3 DEF InputTypes
<1>2. InputOrder
  BY DEF InputOrder
<1>3. Accounted /\ CountedOnce
  BY DEF Accounted, CountedOnce, LetsGo
<1> QED
  BY <1>1, <1>2, <1>3 DEF InputInv

EventBegins == \E kind \in Kinds, t \in Things, ms \in SUBSET Modifiers : NextEvent(kind, t, ms)
Modifying == \E m \in Modifiers : PressModifier(m)

LEMMA InputCases ==
  ASSUME [InputNext]_inputVars
  PROVE  \/ BeginBatch \/ EventBegins \/ EndBatch \/ Modifying \/ Deliver \/ ReleaseModifier
         \/ Over \/ releaseHeld \/ Failed \/ UNCHANGED inputVars
  BY DEF InputNext, EventBegins, Modifying

\* What releaseHeld lets go of is the element it takes off the list.
LEMMA HeldReleased ==
  ASSUME InputInv, releaseHeld
  PROVE  \E k \in DOMAIN tracked :
           /\ tracked' = RemovedAt(tracked, k)
           /\ \/ LetGo(tracked[k]) /\ UNCHANGED unreleased
              \/ unreleased' = TRUE /\ UNCHANGED <<pressed, mine>>
<1> DEFINE keys == {i \in DOMAIN tracked : tracked[i] \in Keys}
           at == IF keys # {} THEN keys ELSE DOMAIN tracked
<1>1. tracked \in Seq(Things) /\ tracked # <<>>
  BY DEF InputInv, InputTypes, releaseHeld
<1>2. at \subseteq DOMAIN tracked /\ at # {}
  BY <1>1
<1>3. Latest(at) \in DOMAIN tracked
  BY <1>1, <1>2, LatestIs
<1> QED
  BY <1>3 DEF releaseHeld

LEMMA StepInputTypes ==
  ASSUME InputInv, [InputNext]_inputVars
  PROVE  InputTypes'
<1> USE DEF InputInv, InputTypes
<1>m. Modifiers \subseteq Things
  BY InputAssumption DEF Things
<1>1. CASE BeginBatch
  <2>1. tracked' \in Seq(Things) /\ UNCHANGED <<event, held, err, pressed>>
    BY <1>1 DEF BeginBatch
  <2>2. phase' = "next" /\ mine' = {} /\ applied' = 0 /\ effects' = 0 /\ result' = "none"
        /\ slipped' = FALSE /\ unreleased' = FALSE
    BY <1>1 DEF BeginBatch
  <2> QED
    BY <2>1, <2>2
<1>2. CASE EventBegins
  <2> PICK kind \in Kinds, t \in Things, ms \in SUBSET Modifiers : NextEvent(kind, t, ms)
    BY <1>2 DEF EventBegins
  <2>1. event' \in [kind : Kinds, thing : Things, mods : SUBSET Modifiers]
    BY DEF NextEvent
  <2>2. phase' \in {"deliver", "modify"} /\ err' = FALSE
        /\ UNCHANGED <<held, tracked, applied, result, pressed, mine, effects, slipped, unreleased>>
    BY DEF NextEvent
  <2> QED
    BY <2>1, <2>2
<1>3. CASE EndBatch
  BY <1>3 DEF EndBatch
<1>4. CASE Modifying
  <2> PICK m \in Modifiers : PressModifier(m)
    BY <1>4 DEF Modifying
  <2>1. event' \in [kind : Kinds, thing : Things, mods : SUBSET Modifiers]
    BY DEF PressModifier
  <2>2. phase' \in {"modify", "deliver", "release"} /\ err' \in BOOLEAN
    BY DEF PressModifier
  <2>3. held' \in Seq(Modifiers)
    BY DEF PressModifier
  <2>4. mine' \subseteq pressed' /\ pressed' \subseteq Things
    BY <1>m DEF PressModifier, Press
  <2> QED
    BY <2>1, <2>2, <2>3, <2>4 DEF PressModifier
<1>5. CASE Deliver
  <2>1. mine' \subseteq pressed' /\ pressed' \subseteq Things
    BY <1>5 DEF Deliver, Press, LetGo
  <2>2. phase' = "release" /\ effects' \in Nat
    BY <1>5 DEF Deliver
  <2>3. err' \in BOOLEAN
    BY <1>5 DEF Deliver
  <2>4. UNCHANGED <<event, held, tracked, applied, result, slipped, unreleased>>
    BY <1>5 DEF Deliver
  <2> QED
    BY <2>1, <2>2, <2>3, <2>4
<1>6. CASE ReleaseModifier
  <2>1. held' \in Seq(Modifiers)
    BY <1>6, FrontMembers DEF ReleaseModifier
  <2>2. mine' \subseteq pressed' /\ pressed' \subseteq Things
    BY <1>6 DEF ReleaseModifier, LetGo
  <2> QED
    BY <1>6, <2>1, <2>2 DEF ReleaseModifier
<1>7. CASE Over
  <2>1. tracked' \in Seq(Things)
    <3>1. event.thing \in Things
      OBVIOUS
    <3> QED
      BY <1>7, <3>1, WithoutMembers, AppendedTo DEF Over, Tracked
  <2> QED
    BY <1>7, <2>1 DEF Over, Applied
<1>8. CASE releaseHeld
  <2>1. PICK k \in DOMAIN tracked :
           /\ tracked' = RemovedAt(tracked, k)
           /\ \/ LetGo(tracked[k]) /\ UNCHANGED unreleased
              \/ unreleased' = TRUE /\ UNCHANGED <<pressed, mine>>
    BY <1>8, HeldReleased
  <2>2. tracked' \in Seq(Things)
    BY <2>1, RemovedMembers
  <2>3. mine' \subseteq pressed' /\ pressed' \subseteq Things /\ unreleased' \in BOOLEAN
    BY <2>1 DEF LetGo
  <2> QED
    BY <1>8, <2>2, <2>3 DEF releaseHeld
<1>9. CASE Failed
  BY <1>9 DEF Failed
<1>10. CASE UNCHANGED inputVars
  BY <1>10 DEF inputVars
<1> QED
  BY <1>1, <1>2, <1>3, <1>4, <1>5, <1>6, <1>7, <1>8, <1>9, <1>10, InputCases

LEMMA StepInputOrder ==
  ASSUME InputInv, [InputNext]_inputVars
  PROVE  InputOrder'
<1> USE DEF InputInv, InputOrder
<1>1. CASE BeginBatch
  BY <1>1 DEF BeginBatch, InputTypes
<1>2. CASE EventBegins
  BY <1>2 DEF EventBegins, NextEvent
<1>3. CASE EndBatch
  BY <1>3 DEF EndBatch
<1>4. CASE Modifying
  BY <1>4 DEF Modifying, PressModifier
<1>5. CASE Deliver
  BY <1>5 DEF Deliver
<1>6. CASE ReleaseModifier
  BY <1>6 DEF ReleaseModifier
<1>7. CASE Over
  <2>1. CASE err
    BY <1>7, <2>1 DEF Over, Applied
  <2>2. CASE ~err
    <3>1. /\ tracked \in Seq(Things) /\ event.thing \in Things /\ applied \in Nat
          /\ Len(tracked) \in Nat
      BY DEF InputTypes
    <3>2. Len(Tracked(event)) \in Nat /\ Len(Tracked(event)) <= Len(tracked) + 1
      BY <3>1, WithoutMembers, AppendedTo DEF Tracked
    <3> QED
      BY <1>7, <2>2, <3>1, <3>2 DEF Over, Applied
  <2> QED
    BY <2>1, <2>2
<1>8. CASE releaseHeld
  <2>1. PICK k \in DOMAIN tracked : tracked' = RemovedAt(tracked, k)
    BY <1>8, HeldReleased
  <2>2. Len(tracked') = Len(tracked) - 1 /\ Len(tracked) \in Nat /\ applied \in Nat
    BY <2>1, RemovedMembers DEF InputTypes
  <2> QED
    BY <1>8, <2>2 DEF releaseHeld
<1>9. CASE Failed
  BY <1>9 DEF Failed
<1>10. CASE UNCHANGED inputVars
  BY <1>10 DEF inputVars
<1> QED
  BY <1>1, <1>2, <1>3, <1>4, <1>5, <1>6, <1>7, <1>8, <1>9, <1>10, InputCases

LEMMA StepAccounted ==
  ASSUME InputInv, [InputNext]_inputVars
  PROVE  Accounted'
<1> USE DEF InputInv, Accounted, JustPressed, LetsGo
<1>0. /\ tracked \in Seq(Things) /\ held \in Seq(Modifiers) /\ event.thing \in Things
      /\ event.kind \in Kinds
  BY DEF InputTypes
<1>1. CASE BeginBatch
  BY <1>1 DEF BeginBatch
<1>2. CASE EventBegins
  BY <1>2 DEF EventBegins, NextEvent, InputOrder
<1>3. CASE EndBatch
  BY <1>3 DEF EndBatch
<1>4. CASE Modifying
  <2> PICK m \in Modifiers : PressModifier(m)
    BY <1>4 DEF Modifying
  <2>0. result # "partial" /\ result' = result /\ tracked' = tracked
    BY DEF PressModifier, InputOrder
  <2>1. CASE Press(m) /\ held' = Append(held, m) /\ UNCHANGED err
    <3>1. Members(held') = Members(held) \cup {m} /\ mine' = mine \cup {m}
      BY <1>0, <2>1, AppendedMembers DEF Press
    <3>2. phase # "release" /\ phase' # "release"
      BY <2>1 DEF PressModifier
    <3> QED
      BY <2>0, <3>1, <3>2 DEF PressModifier
  <2>2. CASE UNCHANGED <<pressed, mine, held>> /\ err' = TRUE /\ phase' = "release"
    BY <2>0, <2>2 DEF PressModifier
  <2> QED
    BY <2>1, <2>2 DEF PressModifier
<1>5. CASE Deliver
  <2>0. result # "partial" /\ ~err
    BY <1>5 DEF Deliver, InputOrder
  <2> QED
    BY <1>0, <1>5, <2>0 DEF Deliver, Press, LetGo, Kinds
<1>6. CASE ReleaseModifier
  <2>0. result # "partial" /\ result' = result
    BY <1>6 DEF ReleaseModifier, InputOrder
  <2>1. Members(held) \subseteq Members(held') \cup {held[Len(held)]}
    BY <1>0, <1>6, FrontMembers DEF ReleaseModifier
  <2>2. CASE LetGo(held[Len(held)]) /\ UNCHANGED <<err, slipped>>
    BY <1>6, <2>0, <2>1, <2>2 DEF ReleaseModifier, LetGo
  <2>3. CASE err' = TRUE /\ slipped' = TRUE /\ UNCHANGED <<pressed, mine>>
    BY <2>0, <2>3
  <2> QED
    BY <1>6, <2>2, <2>3 DEF ReleaseModifier
<1>7. CASE Over
  <2>0. /\ result # "partial" /\ result' = result /\ phase = "release" /\ phase' # "release"
        /\ UNCHANGED <<mine, slipped, unreleased, held, event, err>> /\ held = <<>>
    BY <1>7 DEF Over, InputOrder
  <2>1. CASE err
    BY <1>7, <2>0, <2>1 DEF Over
  <2>2. CASE ~err
    <3>1. tracked' = Tracked(event)
      BY <1>7, <2>2 DEF Over
    <3>2. CASE event.kind = "down"
      <4>1. Members(tracked') = Members(tracked) \cup {event.thing}
        BY <1>0, <3>1, <3>2, AppendedMembers DEF Tracked
      <4> QED
        BY <2>0, <3>2, <4>1
    <3>3. CASE event.kind = "up"
      <4>1. Members(tracked) \subseteq Members(tracked') \cup {event.thing}
        BY <1>0, <3>1, <3>3, WithoutMembers DEF Tracked
      <4>2. event.thing \notin mine
        BY <2>0, <2>2, <3>3
      <4> QED
        BY <2>0, <3>3, <4>1, <4>2
    <3>4. CASE event.kind \notin {"down", "up"}
      BY <2>0, <3>1, <3>4 DEF Tracked
    <3> QED
      BY <3>2, <3>3, <3>4
  <2> QED
    BY <2>1, <2>2
<1>8. CASE releaseHeld
  <2>1. PICK k \in DOMAIN tracked :
           /\ tracked' = RemovedAt(tracked, k)
           /\ \/ LetGo(tracked[k]) /\ UNCHANGED unreleased
              \/ unreleased' = TRUE /\ UNCHANGED <<pressed, mine>>
    BY <1>8, HeldReleased
  <2>2. Members(tracked) \subseteq Members(tracked') \cup {tracked[k]}
    BY <1>0, <2>1, RemovedMembers
  <2>3. /\ phase = "cleanup" /\ result # "partial"
        /\ UNCHANGED <<phase, event, held, err, result, slipped>>
    BY <1>8 DEF releaseHeld, InputOrder
  <2> QED
    BY <2>1, <2>2, <2>3 DEF LetGo
<1>9. CASE Failed
  <2>1. phase = "cleanup" /\ held = <<>> /\ tracked = <<>>
    BY <1>9 DEF Failed, InputOrder
  <2>2. ~slipped /\ ~unreleased => mine = {}
    BY <2>1, EmptyMembers
  <2> QED
    BY <1>9, <2>2 DEF Failed
<1>10. CASE UNCHANGED inputVars
  BY <1>10 DEF inputVars
<1> QED
  BY <1>1, <1>2, <1>3, <1>4, <1>5, <1>6, <1>7, <1>8, <1>9, <1>10, InputCases

LEMMA StepCountedOnce ==
  ASSUME InputInv, [InputNext]_inputVars
  PROVE  CountedOnce'
<1> USE DEF InputInv, CountedOnce, InputTypes
<1>1. CASE BeginBatch
  BY <1>1 DEF BeginBatch
<1>2. CASE EventBegins
  BY <1>2 DEF EventBegins, NextEvent
<1>3. CASE EndBatch
  BY <1>3 DEF EndBatch
<1>4. CASE Modifying
  BY <1>4 DEF Modifying, PressModifier
<1>5. CASE Deliver
  BY <1>5 DEF Deliver, InputOrder
<1>6. CASE ReleaseModifier
  BY <1>6 DEF ReleaseModifier
<1>7. CASE Over
  BY <1>7 DEF Over, Applied
<1>8. CASE releaseHeld
  BY <1>8 DEF releaseHeld
<1>9. CASE Failed
  BY <1>9 DEF Failed
<1>10. CASE UNCHANGED inputVars
  BY <1>10 DEF inputVars
<1> QED
  BY <1>1, <1>2, <1>3, <1>4, <1>5, <1>6, <1>7, <1>8, <1>9, <1>10, InputCases

LEMMA InputStepInv == InputInv /\ [InputNext]_inputVars => InputInv'
  BY StepInputTypes, StepInputOrder, StepAccounted, StepCountedOnce DEF InputInv

LEMMA InputInvImplies == InputInv => InputTypeOK /\ LetsGo /\ AppliedIsExact
<1> SUFFICES ASSUME InputInv PROVE InputTypeOK /\ LetsGo /\ AppliedIsExact
  OBVIOUS
<1>1. InputTypeOK
  BY DEF InputInv, InputTypes, InputOrder, InputTypeOK
<1>2. AppliedIsExact
  BY DEF InputInv, InputTypes, InputOrder, CountedOnce, AppliedIsExact
<1> QED
  BY <1>1, <1>2 DEF InputInv, Accounted

\* Batches of input, of any length and over any keys: a batch that fails lets go
\* of all it pressed and reports exactly the events that happened, unless a
\* modifier's release failed first.
THEOREM InputIsSafe == InputSpec => InputSafe
  BY InputInitInv, InputStepInv, InputInvImplies, PTL DEF InputSpec, InputSafe

-----------------------------------------------------------------------------
(* The view of a session.  The ring holds the latest status events without a *)
(* gap; what was published since a viewer came it has, will read, or lost at *)
(* a full channel; the screencast films for a viewer, and the active page.   *)

ViewTypes ==
  /\ hubSeq \in Nat /\ status \subseteq 1 .. hubSeq
  /\ ring \in Seq(Nat) /\ Len(ring) <= RingCap
  /\ subs \subseteq Viewers
  /\ channel \in [Viewers -> Seq(Nat)]
  /\ \A v \in Viewers : Len(channel[v]) <= ChanCap /\ (v \notin subs => channel[v] = <<>>)
  /\ viewer \in [Viewers -> {"off", "starting", "replay", "streaming"}]
  /\ lastID \in [Viewers -> Nat] /\ from \in [Viewers -> Nat] /\ since \in [Viewers -> Nat]
  /\ floor \in [Viewers -> Nat] /\ got \in [Viewers -> SUBSET Nat]
  /\ dropped \in [Viewers -> SUBSET Nat]
  /\ alive \in BOOLEAN

\* The ring: the status events from its first on, in order.
RingIs ==
  /\ \A i \in DOMAIN ring : ring[i] \in status
  /\ \A i, j \in DOMAIN ring : i < j => ring[i] < ring[j]
  /\ ring = <<>> => status = {}
  /\ ring # <<>> => \A k \in status : k >= ring[1] => k \in Members(ring)

\* What a viewer has or will have of the status events.
Has(v) == got[v] \cup Members(channel[v])

Followed ==
  \A v \in Viewers :
    /\ since[v] <= hubSeq
    /\ v \in subs => \A k \in status \ dropped[v] : k > since[v] => k \in Has(v)
    /\ viewer[v] \in {"starting", "replay"} => lastID[v] = from[v]
    /\ viewer[v] = "streaming" /\ alive /\ from[v] > 0 =>
         \A k \in status \ dropped[v] : k > from[v] /\ k >= floor[v] => k \in Has(v)

Filmed ==
  /\ pages \in Nat /\ active \in 0 .. pages /\ cast \in 0 .. pages /\ film \in 0 .. pages
  /\ opened \in BOOLEAN /\ stopping \in BOOLEAN
  /\ lifecycle \in {"free", "open"} \cup Viewers
  /\ \A v \in Viewers : /\ viewer[v] = "off" <=> v \notin subs
                        /\ viewer[v] = "starting" <=> lifecycle = v
  /\ lifecycle = "open" => subs # {}
  /\ lifecycle = "free" => film = 0
  /\ cast # 0 => subs # {}
  /\ active # 0 /\ ~opened => film \in {0, active} /\ (stopping \/ cast \in {0, active})

ViewInv == ViewTypes /\ RingIs /\ Followed /\ Filmed

LEMMA ViewInitInv == ViewInit => ViewInv
<1> SUFFICES ASSUME ViewInit PROVE ViewInv
  OBVIOUS
<1> USE DEF ViewInit
<1>1. ViewTypes
  BY ViewAssumption DEF ViewTypes
<1>2. RingIs
  BY DEF RingIs
<1>3. Followed
  BY DEF Followed, Has
<1>4. Filmed
  <2>1. \A v \in Viewers : v # "free"
    BY ViewAssumption
  <2>2. \A v \in Viewers : /\ viewer[v] = "off" <=> v \notin subs
                           /\ viewer[v] = "starting" <=> lifecycle = v
    BY <2>1
  <2>3. pages \in Nat /\ active \in 0 .. pages /\ cast \in 0 .. pages /\ film \in 0 .. pages
    OBVIOUS
  <2>4. /\ opened \in BOOLEAN /\ stopping \in BOOLEAN /\ lifecycle = "free" /\ film = 0
        /\ cast = 0 /\ active = 0
    OBVIOUS
  <2> HIDE DEF ViewInit
  <2> QED
    BY <2>2, <2>3, <2>4 DEF Filmed
<1> QED
  BY <1>1, <1>2, <1>3, <1>4 DEF ViewInv

Publishing == \E isStatus \in BOOLEAN : Publish(isStatus) /\ (isStatus => alive)
Paging == OpenPage \/ restartScreencastIfActive \/ Restarted \/ StopLater
          \/ \E close \in BOOLEAN : LosePage(close)

LEMMA ViewCases ==
  ASSUME [ViewNext]_viewVars
  PROVE  \/ Publishing \/ Paging
         \/ \E v \in Viewers : Subscribe(v) \/ Started(v) \/ Replay(v) \/ Receive(v) \/ Leaves(v)
         \/ UNCHANGED viewVars
  BY DEF ViewNext, Publishing, Paging, Emit, Frame

LEMMA StepViewTypes ==
  ASSUME ViewInv, [ViewNext]_viewVars
  PROVE  ViewTypes'
<1> USE DEF ViewInv, ViewTypes
<1>1. CASE Publishing
  <2> PICK isStatus \in BOOLEAN : Publish(isStatus)
    BY <1>1 DEF Publishing
  <2>1. hubSeq' = hubSeq + 1 /\ status' \subseteq 1 .. hubSeq'
    BY DEF Publish
  <2>2. ring' \in Seq(Nat) /\ Len(ring') <= RingCap
    <3>1. hubSeq + 1 \in Nat
      OBVIOUS
    <3>2. CASE ~isStatus
      BY <3>2 DEF Publish
    <3>3. CASE isStatus /\ Len(ring) < RingCap
      BY <3>1, <3>3, ViewAssumption, AppendedTo DEF Publish
    <3>4. CASE isStatus /\ ~(Len(ring) < RingCap)
      <4>1. ring # <<>> /\ Len(ring) = RingCap
        BY <3>4, ViewAssumption
      <4>2. Tail(ring) \in Seq(Nat) /\ Len(Tail(ring)) = Len(ring) - 1
        BY <4>1, TailMembers
      <4>3. ring' = Append(Tail(ring), hubSeq + 1)
        BY <3>4 DEF Publish
      <4>4. ring' \in Seq(Nat) /\ Len(ring') = Len(Tail(ring)) + 1
        BY <3>1, <4>2, <4>3, AppendedTo
      <4> QED
        BY <4>1, <4>2, <4>4, ViewAssumption
    <3> QED
      BY <3>2, <3>3, <3>4
  <2>3. ASSUME NEW v \in Viewers
        PROVE  /\ channel'[v] \in Seq(Nat) /\ Len(channel'[v]) <= ChanCap
               /\ v \notin subs => channel'[v] = <<>>
    <3>1. channel'[v] = IF v \in subs /\ ~Full(v) THEN Append(channel[v], hubSeq + 1) ELSE channel[v]
      BY DEF Publish
    <3>2. CASE v \in subs /\ ~Full(v)
      <4>1. Len(channel[v]) < ChanCap
        BY <3>2, ViewAssumption DEF Full
      <4>2. channel'[v] \in Seq(Nat) /\ Len(channel'[v]) = Len(channel[v]) + 1
        BY <3>1, <3>2, AppendedTo
      <4> QED
        BY <3>2, <4>1, <4>2, ViewAssumption
    <3>3. CASE ~(v \in subs /\ ~Full(v))
      BY <3>1, <3>3
    <3> QED
      BY <3>2, <3>3
  <2>4. channel' \in [Viewers -> Seq(Nat)]
    <3>1. channel' = [v \in Viewers |-> channel'[v]]
      BY DEF Publish
    <3> QED
      BY <2>3, <3>1
  <2>5. dropped' \in [Viewers -> SUBSET Nat]
    BY DEF Publish
  <2>6. UNCHANGED <<subs, viewer, lastID, from, since, floor, got, alive>>
    BY DEF Publish, castVars
  <2> QED
    BY <2>1, <2>2, <2>3, <2>4, <2>5, <2>6
<1>2. CASE Paging
  <2>1. UNCHANGED <<hubVars, viewerVars>> /\ alive' \in BOOLEAN
    BY <1>2 DEF Paging, OpenPage, restartScreencastIfActive, Restarted, StopLater, LosePage
  <2> QED
    BY <2>1 DEF hubVars, viewerVars
<1>3. ASSUME NEW v \in Viewers, Subscribe(v) PROVE ViewTypes'
  <2>1. channel' = [channel EXCEPT ![v] = <<>>] /\ subs' = subs \cup {v}
    BY <1>3 DEF Subscribe
  <2>2. channel' \in [Viewers -> Seq(Nat)]
        /\ \A w \in Viewers : Len(channel'[w]) <= ChanCap /\ (w \notin subs' => channel'[w] = <<>>)
    BY <2>1, ViewAssumption
  <2>3. /\ from' \in [Viewers -> Nat] /\ since' \in [Viewers -> Nat]
        /\ viewer' \in [Viewers -> {"off", "starting", "replay", "streaming"}]
    BY <1>3 DEF Subscribe, Goes
  <2> QED
    BY <1>3, <2>2, <2>3 DEF Subscribe
<1>4. ASSUME NEW v \in Viewers, Started(v) PROVE ViewTypes'
  BY <1>4 DEF Started, Goes, hubVars
<1>5. ASSUME NEW v \in Viewers, Replay(v) PROVE ViewTypes'
  <2> DEFINE missed == IF lastID[v] > 0 /\ alive THEN ReplaySince(lastID[v]) ELSE {}
  <2>1. missed \subseteq status /\ missed \subseteq Nat
    BY DEF ReplaySince, RingIs
  <2>2. ASSUME missed # {} PROVE (CHOOSE k \in missed : \A j \in missed : j <= k) \in missed
    <3>1. missed \subseteq 0 .. hubSeq
      BY <2>1
    <3> HIDE DEF missed
    <3>2. \E k \in missed : \A j \in missed : j <= k
      BY <2>2, <3>1, Largest
    <3> QED
      BY <3>2
  <2>3. lastID' \in [Viewers -> Nat]
    <3>1. lastID' = [lastID EXCEPT ![v] = IF missed = {} THEN @ ELSE CHOOSE k \in missed : \A j \in missed : j <= k]
      BY <1>5 DEF Replay
    <3> HIDE DEF missed
    <3> QED
      BY <2>1, <2>2, <3>1
  <2>4. got' \in [Viewers -> SUBSET Nat]
    <3>1. got' = [got EXCEPT ![v] = @ \cup missed]
      BY <1>5 DEF Replay
    <3> HIDE DEF missed
    <3> QED
      BY <2>1, <3>1
  <2>5. floor' \in [Viewers -> Nat]
    <3>1. ring # <<>> => Head(ring) \in Nat
      OBVIOUS
    <3> QED
      BY <1>5, <3>1 DEF Replay
  <2>6. viewer' \in [Viewers -> {"off", "starting", "replay", "streaming"}]
    BY <1>5 DEF Replay, Goes
  <2>7. UNCHANGED <<hubVars, castVars, from, since, dropped>>
    BY <1>5 DEF Replay
  <2> QED
    BY <2>3, <2>4, <2>5, <2>6, <2>7 DEF hubVars, castVars
<1>6. ASSUME NEW v \in Viewers, Receive(v) PROVE ViewTypes'
  <2>1. /\ channel[v] # <<>> /\ channel[v] \in Seq(Nat)
        /\ channel' = [channel EXCEPT ![v] = Tail(channel[v])]
        /\ lastID' = [lastID EXCEPT ![v] = Head(channel[v])]
        /\ got' = [got EXCEPT ![v] = @ \cup {Head(channel[v])}]
    BY <1>6 DEF Receive
  <2>2. Tail(channel[v]) \in Seq(Nat) /\ Len(Tail(channel[v])) = Len(channel[v]) - 1
        /\ Head(channel[v]) \in Nat
    BY <2>1, TailMembers
  <2>3. v \in subs
    BY <2>1
  <2>4. channel' \in [Viewers -> Seq(Nat)]
        /\ \A w \in Viewers : Len(channel'[w]) <= ChanCap /\ (w \notin subs => channel'[w] = <<>>)
    BY <2>1, <2>2, <2>3, ViewAssumption
  <2>5. lastID' \in [Viewers -> Nat] /\ got' \in [Viewers -> SUBSET Nat]
    BY <2>1, <2>2
  <2> QED
    BY <1>6, <2>4, <2>5 DEF Receive, castVars
<1>7. ASSUME NEW v \in Viewers, Leaves(v) PROVE ViewTypes'
  <2>1. channel' \in [Viewers -> Seq(Nat)]
        /\ \A w \in Viewers : Len(channel'[w]) <= ChanCap /\ (w \notin subs' => channel'[w] = <<>>)
    BY <1>7, ViewAssumption DEF Leaves
  <2>2. /\ from' \in [Viewers -> Nat] /\ since' \in [Viewers -> Nat] /\ floor' \in [Viewers -> Nat]
        /\ got' \in [Viewers -> SUBSET Nat] /\ dropped' \in [Viewers -> SUBSET Nat]
    BY <1>7 DEF Leaves
  <2>3. viewer' \in [Viewers -> {"off", "starting", "replay", "streaming"}]
    BY <1>7 DEF Leaves, Goes
  <2> QED
    BY <1>7, <2>1, <2>2, <2>3 DEF Leaves
<1>8. CASE UNCHANGED viewVars
  BY <1>8 DEF viewVars, hubVars, castVars, viewerVars
<1> QED
  BY <1>1, <1>2, <1>3, <1>4, <1>5, <1>6, <1>7, <1>8, ViewCases

\* Only a published event changes the ring.
LEMMA StepRingIs ==
  ASSUME ViewInv, [ViewNext]_viewVars
  PROVE  RingIs'
<1> USE DEF ViewInv, ViewTypes
<1>1. CASE Publishing
  <2> PICK isStatus \in BOOLEAN : Publish(isStatus)
    BY <1>1 DEF Publishing
  <2>1. CASE ~isStatus
    BY <2>1 DEF Publish, RingIs
  <2>2. CASE isStatus
    <3> DEFINE kept == IF Len(ring) < RingCap THEN ring ELSE Tail(ring)
               k == hubSeq + 1
    <3>1. ring' = Append(kept, k) /\ status' = status \cup {k}
      BY <2>2 DEF Publish
    <3>2. /\ kept \in Seq(Nat)
          /\ \A i \in DOMAIN kept : kept[i] \in status
          /\ \A i, j \in DOMAIN kept : i < j => kept[i] < kept[j]
      <4>1. CASE Len(ring) < RingCap
        BY <4>1 DEF RingIs
      <4>2. CASE ~(Len(ring) < RingCap)
        <5>1. ring # <<>>
          BY <4>2, ViewAssumption
        <5>2. /\ kept \in Seq(Nat) /\ Len(kept) = Len(ring) - 1
              /\ \A i \in 1 .. Len(ring) - 1 : kept[i] = ring[i + 1]
          BY <4>2, <5>1, TailMembers
        <5>3. DOMAIN kept = 1 .. Len(ring) - 1 /\ DOMAIN ring = 1 .. Len(ring) /\ Len(ring) \in Nat
          BY <5>2
        <5> HIDE DEF kept
        <5>4. ASSUME NEW i \in DOMAIN kept PROVE kept[i] \in status
          <6>1. i + 1 \in DOMAIN ring /\ kept[i] = ring[i + 1]
            BY <5>2, <5>3
          <6> QED
            BY <6>1 DEF RingIs
        <5>5. ASSUME NEW i \in DOMAIN kept, NEW j \in DOMAIN kept, i < j PROVE kept[i] < kept[j]
          <6>1. i \in 1 .. Len(ring) - 1 /\ j \in 1 .. Len(ring) - 1
            BY <5>3, <5>5
          <6>2. kept[i] = ring[i + 1] /\ kept[j] = ring[j + 1]
            BY <5>2, <6>1
          <6>3. i + 1 \in DOMAIN ring /\ j + 1 \in DOMAIN ring /\ i + 1 < j + 1
            BY <5>3, <5>5, <6>1
          <6> QED
            BY <6>2, <6>3 DEF RingIs
        <5> QED
          BY <5>2, <5>4, <5>5
      <4> QED
        BY <4>1, <4>2
    <3>3. ASSUME kept # <<>>, NEW x \in status, x >= kept[1] PROVE x \in Members(kept)
      <4>1. CASE Len(ring) < RingCap
        BY <3>3, <4>1 DEF RingIs
      <4>2. CASE ~(Len(ring) < RingCap)
        <5>1. ring # <<>>
          BY <4>2, ViewAssumption
        <5>2. /\ Len(kept) = Len(ring) - 1 /\ kept \in Seq(Nat)
              /\ \A i \in 1 .. Len(ring) - 1 : kept[i] = ring[i + 1]
              /\ Members(ring) = Members(kept) \cup {Head(ring)}
              /\ Head(ring) = ring[1]
          BY <4>2, <5>1, TailMembers
        <5>3. 1 \in DOMAIN ring /\ 2 \in DOMAIN ring /\ kept[1] = ring[2]
          <6> HIDE DEF kept
          <6>1. Len(ring) \in Nat /\ DOMAIN ring = 1 .. Len(ring)
            OBVIOUS
          <6>2. kept # <<>>
            BY <3>3
          <6>3. Len(kept) \in Nat \ {0}
            BY <5>2, <6>2, NonEmpty
          <6> QED
            BY <5>2, <6>1, <6>3
        <5>4. ring[1] < ring[2] /\ ring[1] \in Nat /\ ring[2] \in Nat
          BY <5>3 DEF RingIs
        <5>5. x \in Nat
          OBVIOUS
        <5>6. x > ring[1]
          BY <3>3, <5>3, <5>4, <5>5
        <5>7. x \in Members(ring)
          BY <5>1, <5>4, <5>5, <5>6 DEF RingIs
        <5>8. x # Head(ring)
          BY <5>2, <5>4, <5>5, <5>6
        <5> QED
          BY <5>2, <5>7, <5>8
      <4> QED
        BY <4>1, <4>2
    <3>4. \A x \in status : x \in Nat /\ x < k
      OBVIOUS
    <3>5. k \in Nat
      OBVIOUS
    <3> HIDE DEF kept, k
    <3>6. /\ ring' \in Seq(Nat) /\ Len(ring') = Len(kept) + 1
          /\ ring'[Len(kept) + 1] = k
          /\ \A i \in 1 .. Len(kept) : ring'[i] = kept[i]
      BY <3>1, <3>2, <3>5, AppendedTo
    <3>12. Members(ring') = Members(kept) \cup {k}
      BY <3>1, <3>2, <3>5, AppendedMembers
    <3>7. DOMAIN ring' = 1 .. Len(kept) + 1 /\ DOMAIN kept = 1 .. Len(kept) /\ Len(kept) \in Nat
      BY <3>2, <3>6
    <3>8. \A i \in DOMAIN ring' : ring'[i] \in status'
      BY <3>1, <3>2, <3>6, <3>7
    <3>9. ASSUME NEW i \in DOMAIN ring', NEW j \in DOMAIN ring', i < j PROVE ring'[i] < ring'[j]
      <4>1. i \in DOMAIN kept /\ ring'[i] = kept[i]
        BY <3>6, <3>7, <3>9
      <4>2. CASE j = Len(kept) + 1
        BY <3>2, <3>4, <3>6, <4>1, <4>2
      <4>3. CASE j \in DOMAIN kept
        BY <3>2, <3>6, <3>7, <3>9, <4>1, <4>3
      <4>4. j = Len(kept) + 1 \/ j \in DOMAIN kept
        BY <3>7, <3>9
      <4> QED
        BY <4>2, <4>3, <4>4
    <3>10. ASSUME NEW x \in status', x >= ring'[1] PROVE x \in Members(ring')
      <4>1. CASE x = k
        BY <3>12, <4>1
      <4>2. CASE x # k
        <5>1. x \in status /\ x < k /\ x \in Nat
          BY <3>1, <3>4, <4>2
        <5>2. kept # <<>>
          <6>1. CASE kept = <<>>
            <7>1. ring'[1] = k
              BY <3>6, <6>1
            <7> QED
              BY <3>5, <3>10, <5>1, <7>1
          <6> QED
            BY <6>1
        <5>3. ring'[1] = kept[1]
          BY <3>2, <3>6, <5>2
        <5> QED
          BY <3>3, <3>10, <3>12, <5>1, <5>2, <5>3
      <4> QED
        BY <4>1, <4>2
    <3>11. ring' # <<>>
      BY <3>6, <3>7
    <3> QED
      BY <3>8, <3>9, <3>10, <3>11 DEF RingIs
  <2> QED
    BY <2>1, <2>2
<1>2. CASE ~Publishing
  <2>1. UNCHANGED <<ring, status>>
    BY <1>2, ViewCases DEF Paging, OpenPage, restartScreencastIfActive, Restarted, StopLater,
       LosePage, Subscribe, Started, Replay, Receive, Leaves, viewVars, hubVars
  <2> QED
    BY <2>1 DEF RingIs
<1> QED
  BY <1>1, <1>2

\* A viewer keeps what it had and has in hand: what reaches neither it nor its
\* channel was dropped there, or left the ring before it came.
LEMMA StepFollowed ==
  ASSUME ViewInv, [ViewNext]_viewVars
  PROVE  Followed'
<1> USE DEF ViewInv
<1>t. /\ hubSeq \in Nat /\ status \subseteq 1 .. hubSeq /\ ring \in Seq(Nat)
      /\ channel \in [Viewers -> Seq(Nat)] /\ got \in [Viewers -> SUBSET Nat]
      /\ viewer \in [Viewers -> {"off", "starting", "replay", "streaming"}]
      /\ lastID \in [Viewers -> Nat] /\ from \in [Viewers -> Nat] /\ since \in [Viewers -> Nat]
      /\ floor \in [Viewers -> Nat] /\ dropped \in [Viewers -> SUBSET Nat]
  BY DEF ViewTypes
<1>1. CASE Publishing
  <2> PICK isStatus \in BOOLEAN : Publish(isStatus)
    BY <1>1 DEF Publishing
  <2>1. /\ hubSeq' = hubSeq + 1
        /\ status' \subseteq status \cup {hubSeq + 1}
        /\ UNCHANGED <<subs, viewer, lastID, from, since, floor, got, alive>>
    BY DEF Publish, castVars
  <2>2. ASSUME NEW v \in Viewers
        PROVE  /\ Members(channel[v]) \subseteq Members(channel'[v])
               /\ v \in subs /\ hubSeq + 1 \in status' \ dropped'[v] =>
                    hubSeq + 1 \in Members(channel'[v])
               /\ dropped[v] \subseteq dropped'[v]
    <3>1. channel'[v] = IF v \in subs /\ ~Full(v) THEN Append(channel[v], hubSeq + 1) ELSE channel[v]
      BY DEF Publish
    <3>2. dropped'[v] = IF isStatus /\ v \in subs /\ Full(v) THEN dropped[v] \cup {hubSeq + 1} ELSE dropped[v]
      BY DEF Publish
    <3>3. hubSeq + 1 \in status' => isStatus
      BY <1>t DEF Publish
    <3>4. CASE v \in subs /\ ~Full(v)
      <4>1. channel'[v] = Append(channel[v], hubSeq + 1) /\ channel[v] \in Seq(Nat) /\ hubSeq + 1 \in Nat
        BY <1>t, <2>2, <3>1, <3>4
      <4>2. Members(channel'[v]) = Members(channel[v]) \cup {hubSeq + 1}
        BY <4>1, AppendedMembers
      <4> QED
        BY <3>2, <4>2
    <3>5. CASE ~(v \in subs /\ ~Full(v))
      BY <3>1, <3>2, <3>3, <3>5
    <3> QED
      BY <3>4, <3>5
  <2>3. ASSUME NEW v \in Viewers PROVE since'[v] <= hubSeq'
    <3>1. since[v] \in Nat /\ since[v] <= hubSeq
      BY <1>t DEF Followed
    <3> QED
      BY <1>t, <2>1, <3>1
  <2>4. ASSUME NEW v \in Viewers, v \in subs, NEW k \in status' \ dropped'[v], k > since[v]
        PROVE  k \in Has(v)'
    <3>1. CASE k = hubSeq + 1
      BY <2>2, <2>4, <3>1 DEF Has
    <3>2. CASE k \in status \ dropped[v]
      <4>1. k \in Has(v)
        BY <2>4, <3>2 DEF Followed
      <4> QED
        BY <2>1, <2>2, <4>1 DEF Has
    <3> QED
      BY <2>1, <2>2, <2>4, <3>1, <3>2
  <2>5. ASSUME NEW v \in Viewers, viewer[v] = "streaming", alive, from[v] > 0,
               NEW k \in status' \ dropped'[v], k > from[v], k >= floor[v]
        PROVE  k \in Has(v)'
    <3>1. CASE k = hubSeq + 1
      <4>1. v \in subs
        BY <2>5 DEF Filmed
      <4> QED
        BY <2>2, <2>5, <3>1, <4>1 DEF Has
    <3>2. CASE k \in status \ dropped[v]
      <4>1. k \in Has(v)
        BY <2>5, <3>2 DEF Followed
      <4> QED
        BY <2>1, <2>2, <4>1 DEF Has
    <3> QED
      BY <2>1, <2>2, <2>5, <3>1, <3>2
  <2>6. \A v \in Viewers : viewer[v] \in {"starting", "replay"} => lastID[v] = from[v]
    BY DEF Followed
  <2> QED
    BY <2>1, <2>3, <2>4, <2>5, <2>6 DEF Followed
<1>2. CASE Paging
  <2>1. UNCHANGED <<hubVars, viewerVars>> /\ (alive' => alive)
    BY <1>2 DEF Paging, OpenPage, restartScreencastIfActive, Restarted, StopLater, LosePage
  <2> QED
    BY <2>1 DEF hubVars, viewerVars, Followed, Has
<1>3. ASSUME NEW v \in Viewers, Subscribe(v) PROVE Followed'
  <2>1. /\ UNCHANGED <<hubSeq, status, lastID, floor, got, dropped, alive>>
        /\ subs' = subs \cup {v} /\ viewer[v] = "off"
        /\ channel' = [channel EXCEPT ![v] = <<>>]
        /\ from' = [from EXCEPT ![v] = lastID[v]] /\ since' = [since EXCEPT ![v] = hubSeq]
        /\ viewer' = [viewer EXCEPT ![v] = "starting"]
    BY <1>3 DEF Subscribe, Goes
  <2>2. ASSUME NEW w \in Viewers, w # v
        PROVE  /\ channel'[w] = channel[w] /\ from'[w] = from[w] /\ since'[w] = since[w]
               /\ viewer'[w] = viewer[w] /\ (w \in subs' <=> w \in subs)
    BY <1>t, <2>1, <2>2
  <2>3. since'[v] = hubSeq /\ viewer'[v] = "starting" /\ from'[v] = lastID[v]
    BY <1>3, <1>t, <2>1
  <2>4. \A k \in status : ~(k > hubSeq)
    BY <1>t
  <2> QED
    BY <1>t, <2>1, <2>2, <2>3, <2>4 DEF Followed, Has
<1>4. ASSUME NEW v \in Viewers, Started(v) PROVE Followed'
  <2>1. /\ UNCHANGED <<hubVars, alive, lastID, from, since, floor, got, dropped>>
        /\ viewer[v] = "starting" /\ viewer' = [viewer EXCEPT ![v] = "replay"]
    BY <1>4 DEF Started, Goes
  <2> QED
    BY <1>t, <2>1 DEF Followed, Has, hubVars
<1>5. ASSUME NEW v \in Viewers, Replay(v) PROVE Followed'
  <2> DEFINE missed == IF lastID[v] > 0 /\ alive THEN ReplaySince(lastID[v]) ELSE {}
  <2>1. /\ UNCHANGED <<hubSeq, status, ring, subs, channel, alive, from, since, dropped>>
        /\ viewer[v] = "replay" /\ viewer' = [viewer EXCEPT ![v] = "streaming"]
        /\ got' = [got EXCEPT ![v] = got[v] \cup missed]
        /\ floor' = [floor EXCEPT ![v] = IF ring = <<>> THEN 0 ELSE Head(ring)]
        /\ \A w \in Viewers : w # v => lastID'[w] = lastID[w]
    BY <1>5, <1>t DEF Replay, Goes, hubVars, castVars
  <2>2. ASSUME NEW w \in Viewers, w # v
        PROVE  /\ got'[w] = got[w] /\ floor'[w] = floor[w] /\ viewer'[w] = viewer[w]
               /\ lastID'[w] = lastID[w]
    BY <1>t, <2>1, <2>2
  <2>3. got'[v] = got[v] \cup missed /\ viewer'[v] = "streaming"
        /\ floor'[v] = IF ring = <<>> THEN 0 ELSE Head(ring)
    BY <1>5, <1>t, <2>1
  <2>4. ASSUME alive, from[v] > 0, NEW k \in status \ dropped[v], k > from[v], k >= floor'[v]
        PROVE  k \in Has(v)'
    <3>1. lastID[v] = from[v]
      BY <1>5, <2>1 DEF Followed
    <3>2. ring # <<>> /\ Head(ring) = ring[1]
      <4>1. ring # <<>>
        BY <2>4 DEF RingIs
      <4> QED
        BY <1>t, <4>1, TailMembers
    <3>3. k \in Members(ring)
      BY <2>3, <2>4, <3>2 DEF RingIs
    <3>4. k \in missed
      BY <2>4, <3>1, <3>3 DEF ReplaySince, Members
    <3> QED
      BY <2>3, <3>4 DEF Has
  <2> HIDE DEF missed
  <2> QED
    BY <1>t, <2>1, <2>2, <2>3, <2>4 DEF Followed, Has
<1>6. ASSUME NEW v \in Viewers, Receive(v) PROVE Followed'
  <2>1. /\ channel[v] # <<>> /\ viewer[v] = "streaming"
        /\ channel' = [channel EXCEPT ![v] = Tail(channel[v])]
        /\ got' = [got EXCEPT ![v] = got[v] \cup {Head(channel[v])}]
        /\ UNCHANGED <<hubSeq, status, subs, alive, viewer, from, since, floor, dropped>>
        /\ \A w \in Viewers : w # v => lastID'[w] = lastID[w]
    BY <1>6, <1>t DEF Receive, castVars
  <2>2. \A w \in Viewers : Has(w) \subseteq Has(w)'
    <3> TAKE w \in Viewers
    <3>1. CASE w = v
      <4>1. Members(channel[v]) = Members(Tail(channel[v])) \cup {Head(channel[v])}
        BY <1>t, <1>6, <2>1, TailMembers
      <4>2. channel'[v] = Tail(channel[v]) /\ got'[v] = got[v] \cup {Head(channel[v])}
        BY <1>t, <1>6, <2>1
      <4> QED
        BY <3>1, <4>1, <4>2 DEF Has
    <3>2. CASE w # v
      <4>1. channel'[w] = channel[w] /\ got'[w] = got[w]
        BY <1>t, <2>1, <3>2
      <4> QED
        BY <4>1 DEF Has
    <3> QED
      BY <3>1, <3>2
  <2> QED
    BY <2>1, <2>2 DEF Followed
<1>7. ASSUME NEW v \in Viewers, Leaves(v) PROVE Followed'
  <2>1. /\ UNCHANGED <<hubSeq, status, alive, lastID>>
        /\ subs' = subs \ {v} /\ viewer' = [viewer EXCEPT ![v] = "off"]
        /\ channel' = [channel EXCEPT ![v] = <<>>]
        /\ from' = [from EXCEPT ![v] = 0] /\ since' = [since EXCEPT ![v] = 0]
        /\ floor' = [floor EXCEPT ![v] = 0]
        /\ dropped' = [dropped EXCEPT ![v] = {}] /\ got' = [got EXCEPT ![v] = {}]
    BY <1>7 DEF Leaves, Goes
  <2>2. ASSUME NEW w \in Viewers, w # v
        PROVE  /\ channel'[w] = channel[w] /\ from'[w] = from[w] /\ since'[w] = since[w]
               /\ viewer'[w] = viewer[w] /\ floor'[w] = floor[w] /\ dropped'[w] = dropped[w]
               /\ got'[w] = got[w] /\ (w \in subs' <=> w \in subs)
    BY <1>t, <2>1, <2>2
  <2>3. since'[v] = 0 /\ viewer'[v] = "off" /\ v \notin subs'
    BY <1>7, <1>t, <2>1
  <2> QED
    BY <1>t, <2>1, <2>2, <2>3 DEF Followed, Has
<1>8. CASE UNCHANGED viewVars
  BY <1>8 DEF viewVars, hubVars, castVars, viewerVars, Followed, Has
<1> QED
  BY <1>1, <1>2, <1>3, <1>4, <1>5, <1>6, <1>7, <1>8, ViewCases

\* The screencast under its lock: whoever holds the lock watches, or watches for
\* somebody, and has read a page that is active still unless an Open has gone by.
LEMMA StepFilmed ==
  ASSUME ViewInv, [ViewNext]_viewVars
  PROVE  Filmed'
<1> USE DEF ViewInv, ViewTypes, Filmed
<1>0. \A v \in Viewers : v # "free" /\ v # "open"
  BY ViewAssumption
<1>1. CASE Publishing
  BY <1>1 DEF Publishing, Publish, castVars
<1>2. CASE Paging
  <2>1. CASE OpenPage
    BY <2>1 DEF OpenPage, hubVars, viewerVars
  <2>2. CASE restartScreencastIfActive
    <3>1. /\ lifecycle = "free" /\ film = 0 /\ opened' \in BOOLEAN
          /\ UNCHANGED <<subs, pages, active, stopping, viewer>>
      BY <2>2 DEF restartScreencastIfActive, hubVars, viewerVars
    <3>2. CASE subs = {}
      BY <2>2, <3>1, <3>2 DEF restartScreencastIfActive
    <3>3. CASE subs # {}
      <4>1. cast' = 0 /\ film' = active /\ lifecycle' = "open"
        BY <2>2, <3>3 DEF restartScreencastIfActive, Restopped
      <4>2. \A v \in Viewers : viewer[v] # "starting" /\ lifecycle' # v
        BY <1>0, <3>1, <4>1
      <4> QED
        BY <3>1, <3>3, <4>1, <4>2
    <3> QED
      BY <3>2, <3>3
  <2>3. CASE Restarted
    <3>1. /\ lifecycle = "open" /\ lifecycle' = "free" /\ film' = 0
          /\ cast' = IF cast = 0 THEN film ELSE cast
          /\ UNCHANGED <<subs, pages, active, opened, stopping, viewer>>
      BY <2>3 DEF Restarted, hubVars, viewerVars
    <3>2. \A v \in Viewers : viewer[v] # "starting" /\ lifecycle' # v
      BY <1>0, <3>1
    <3> QED
      BY <3>1, <3>2
  <2>4. CASE StopLater
    <3>1. stopping' = FALSE /\ cast' = 0
          /\ UNCHANGED <<subs, viewer, pages, active, lifecycle, film, opened>>
      BY <2>4 DEF StopLater, hubVars, viewerVars
    <3>2. cast' \in 0 .. pages
      BY <3>1
    <3> QED
      BY <3>1, <3>2
  <2>5. CASE \E close \in BOOLEAN : LosePage(close)
    BY <2>5 DEF LosePage, hubVars, viewerVars
  <2> QED
    BY <1>2, <2>1, <2>2, <2>3, <2>4, <2>5 DEF Paging
<1>3. ASSUME NEW v \in Viewers, Subscribe(v) PROVE Filmed'
  <2>1. /\ lifecycle = "free" /\ lifecycle' = v /\ subs' = subs \cup {v}
        /\ film' = IF subs = {} THEN active ELSE 0
        /\ viewer' = [viewer EXCEPT ![v] = "starting"]
        /\ UNCHANGED <<pages, active, cast, opened, stopping>>
    BY <1>3 DEF Subscribe, Goes
  <2>2. \A w \in Viewers : /\ viewer'[w] = "off" <=> w \notin subs'
                          /\ viewer'[w] = "starting" <=> lifecycle' = w
    BY <1>0, <1>3, <2>1
  <2> QED
    BY <1>0, <1>3, <2>1, <2>2
<1>4. ASSUME NEW v \in Viewers, Started(v) PROVE Filmed'
  <2>1. /\ lifecycle = v /\ lifecycle' = "free" /\ viewer[v] = "starting"
        /\ film' = 0 /\ cast' = IF film # 0 THEN film ELSE cast
        /\ viewer' = [viewer EXCEPT ![v] = "replay"]
        /\ UNCHANGED <<subs, pages, active, opened, stopping>>
    BY <1>4 DEF Started, Goes, startScreencastLocked, hubVars
  <2>2. v \in subs
    BY <1>4, <2>1
  <2>3. \A w \in Viewers : /\ viewer'[w] = "off" <=> w \notin subs'
                          /\ viewer'[w] = "starting" <=> lifecycle' = w
    BY <1>0, <1>4, <2>1
  <2> QED
    BY <2>1, <2>2, <2>3
<1>5. ASSUME NEW v \in Viewers, Replay(v) PROVE Filmed'
  <2>1. /\ viewer[v] = "replay" /\ viewer' = [viewer EXCEPT ![v] = "streaming"]
        /\ UNCHANGED <<subs, pages, active, cast, lifecycle, film, opened, stopping>>
    BY <1>5 DEF Replay, Goes, hubVars, castVars
  <2> QED
    BY <1>5, <2>1
<1>6. ASSUME NEW v \in Viewers, Receive(v) PROVE Filmed'
  BY <1>6 DEF Receive, castVars
<1>7. ASSUME NEW v \in Viewers, Leaves(v) PROVE Filmed'
  <2>1. /\ viewer[v] \in {"replay", "streaming"} /\ lifecycle = "free"
        /\ viewer' = [viewer EXCEPT ![v] = "off"] /\ subs' = subs \ {v}
        /\ cast' = IF subs \ {v} = {} THEN 0 ELSE cast
        /\ UNCHANGED <<pages, active, lifecycle, film, opened, stopping>>
    BY <1>7 DEF Leaves, Goes, Unwatched
  <2>2. \A w \in Viewers : /\ viewer'[w] = "off" <=> w \notin subs'
                          /\ viewer'[w] = "starting" <=> lifecycle' = w
    BY <1>7, <2>1
  <2> QED
    BY <2>1, <2>2
<1>8. CASE UNCHANGED viewVars
  BY <1>8 DEF viewVars, hubVars, castVars, viewerVars
<1> QED
  BY <1>1, <1>2, <1>3, <1>4, <1>5, <1>6, <1>7, <1>8, ViewCases

LEMMA ViewStepInv == ViewInv /\ [ViewNext]_viewVars => ViewInv'
  BY StepViewTypes, StepRingIs, StepFollowed, StepFilmed DEF ViewInv

LEMMA ViewInvImplies ==
  ViewInv => ViewTypeOK /\ NothingMissed /\ NoFramesUnwatched /\ FilmsTheActivePage
<1> SUFFICES ASSUME ViewInv
             PROVE  ViewTypeOK /\ NothingMissed /\ NoFramesUnwatched /\ FilmsTheActivePage
  OBVIOUS
<1>1. ViewTypeOK
  BY DEF ViewInv, ViewTypes, RingIs, Filmed, ViewTypeOK
<1>2. NothingMissed
  <2> SUFFICES ASSUME NEW v \in Viewers, viewer[v] = "streaming", NEW k \in status \ dropped[v],
                      k > since[v] \/ (from[v] > 0 /\ k > from[v] /\ k >= floor[v] /\ alive)
               PROVE  k \in got[v] \cup Unread(v)
    BY DEF NothingMissed
  <2>1. v \in subs
    BY DEF ViewInv, Filmed
  <2>2. k \in Has(v)
    BY <2>1 DEF ViewInv, Followed
  <2> QED
    BY <2>2 DEF Has, Members, Unread
<1>3. NoFramesUnwatched /\ FilmsTheActivePage
  BY DEF ViewInv, Filmed, NoFramesUnwatched, FilmsTheActivePage
<1> QED
  BY <1>1, <1>2, <1>3

\* Any number of viewers that come, go and come back, any ring and channel: no
\* event falls between replay and stream, nothing is filmed for nobody, and what
\* is filmed is the active page.
THEOREM ViewIsSafe == ViewSpec => ViewSafe
  BY ViewInitInv, ViewStepInv, ViewInvImplies, PTL DEF ViewSpec, ViewSafe

-----------------------------------------------------------------------------
(* Browser sessions.  Numbers are given out in order, so a session just      *)
(* created is in nobody's hands; a context in use has its login, one given   *)
(* up has it in its row; a close that was not overtaken leaves nothing.      *)

OpOf == {"none", "open", "write", "read", "close"}
StepOf == {"idle", "save", "bind", "gate", "page", "act", "touch", "release", "delete", "row"}
CallSet == [op : OpOf, id : 0 .. MaxSeq, chat : Chats \cup {NoChat}, step : StepOf]

SortedCalls == \A a \in Agents :
  /\ toolCall[a].step = "idle" <=> toolCall[a].id = 0
  /\ toolCall[a].op = "close" <=> toolCall[a].step \in {"release", "delete", "row"}

BrowserTypes ==
  /\ seq \in 0 .. MaxSeq /\ table \subseteq Ids /\ byChat \in [Chats -> 0 .. MaxSeq]
  /\ home \in [Ids -> Processes \cup {0}] /\ page \subseteq Ids
  /\ login \in [Ids -> Nat] /\ latest \in [Ids -> Nat] /\ row \in [Ids -> Nat \cup {NoRow}]
  /\ takeover \subseteq Ids /\ told \subseteq Ids
  /\ toolCall \in [Agents -> CallSet]
  /\ SortedCalls
  /\ human \in 0 .. MaxSeq /\ victim \in 0 .. MaxSeq /\ leaving \subseteq Ids
  /\ spared \in [Ids -> SUBSET Agents]

\* What is done to a call in one step.
Advanced(a, s) ==
  /\ toolCall'[a].op = toolCall[a].op /\ toolCall'[a].id = toolCall[a].id
  /\ toolCall'[a].chat = toolCall[a].chat /\ toolCall'[a].step = s
  /\ \A b \in Agents : b # a => toolCall'[b] = toolCall[b]

Dropped(a) ==
  /\ toolCall'[a] = NoCall
  /\ \A b \in Agents : b # a => toolCall'[b] = toolCall[b]

Begun(a, op, s, c, step0) ==
  /\ toolCall[a] = NoCall
  /\ toolCall'[a] = [op |-> op, id |-> s, chat |-> c, step |-> step0]
  /\ \A b \in Agents : b # a => toolCall'[b] = toolCall[b]

LEMMA Advances ==
  ASSUME toolCall \in [Agents -> CallSet], NEW a \in Agents, NEW s \in StepOf, Step(a, s)
  PROVE  toolCall' \in [Agents -> CallSet] /\ Advanced(a, s)
<1>1. toolCall[a] \in CallSet
  OBVIOUS
<1>2. toolCall' = [toolCall EXCEPT ![a].step = s]
  BY DEF Step
<1> QED
  BY <1>1, <1>2 DEF Advanced, CallSet

LEMMA NoCallIs ==
  /\ NoCall \in CallSet /\ NoCall.op = "none" /\ NoCall.id = 0 /\ NoCall.step = "idle"
  BY BrowserAssumption DEF NoCall, CallSet, OpOf, StepOf

LEMMA Drops ==
  ASSUME toolCall \in [Agents -> CallSet], spared \in [Ids -> SUBSET Agents],
         NEW a \in Agents, Finish(a)
  PROVE  /\ toolCall' \in [Agents -> CallSet] /\ Dropped(a)
         /\ spared' \in [Ids -> SUBSET Agents]
         /\ \A s \in Ids : spared'[s] = spared[s] \ {a}
  BY NoCallIs DEF Finish, Dropped

LEMMA Begins ==
  ASSUME toolCall \in [Agents -> CallSet], NEW a \in Agents, NEW op \in OpOf, NEW s \in Ids,
         NEW c \in Chats \cup {NoChat}, NEW step0 \in StepOf, Begin(a, op, s, c, step0)
  PROVE  toolCall' \in [Agents -> CallSet] /\ Begun(a, op, s, c, step0)
<1>1. [op |-> op, id |-> s, chat |-> c, step |-> step0] \in CallSet
  BY BrowserAssumption DEF CallSet, Ids
<1> QED
  BY <1>1 DEF Begin, Begun

\* The steps, by what they do to their caller's call.
Starting(a) ==
  \/ \E s \in Ids : OpenById(a, s) \/ Act(a, "write", s) \/ Act(a, "read", s) \/ Close(a, s)
  \/ \E c \in Chats : OpenInChat(a, c)
Creating(a) == \E c \in Chats \cup {NoChat} : Create(a, c)
Passing(a) == Gate(a) \/ activePage(a) \/ NavigateFails(a)
Clearing == \E s \in Ids : (\E on \in BOOLEAN : SetTakeover(s, on)) \/ InjectInput(s) \/ reapIdle(s)
Evicting == Reap \/ \E s \in Ids : Leave(s)
Restarting == Exit \/ Crash

LEMMA BrowserCases ==
  ASSUME [BrowserNext]_browserVars
  PROVE  \/ \E a \in Agents :
              \/ Starting(a) \/ Creating(a) \/ SaveNew(a) \/ BindChat(a) \/ Passing(a)
              \/ Navigate(a) \/ UsePage(a) \/ touch(a) \/ CloseContext(a)
              \/ DeleteSession(a) \/ DeleteRow(a)
         \/ Clearing \/ Inject \/ Evicting \/ Shutdown \/ Restarting
         \/ \E p \in Processes : RecycleBloated(p)
         \/ UNCHANGED browserVars
  BY DEF BrowserNext, Starting, Creating, Passing, Clearing, Evicting, Restarting

\* A call that begins names a session that is in the table and that somebody was
\* told of, or that its chat is bound to.
LEMMA StartingIs ==
  ASSUME BrowserTypes, NEW a \in Agents, Starting(a)
  PROVE  /\ UNCHANGED <<sessionVars, browserGhosts>>
         /\ UNCHANGED <<processes, told, human, victim, leaving, down, takeovers, restarts>>
         /\ toolCall' \in [Agents -> CallSet]
         /\ \E op \in {"open", "write", "read", "close"}, s \in table, c \in Chats \cup {NoChat},
               step0 \in {"gate", "page", "release"} :
              /\ Begun(a, op, s, c, step0)
              /\ s \in told \/ \E d \in Chats : byChat[d] = s
              /\ op = "close" <=> step0 = "release"
              /\ step0 = "page" => op = "read"
<1> USE DEF BrowserTypes
<1>1. ASSUME NEW s \in Ids, OpenById(a, s)
      PROVE  s \in told \cap table /\ Begun(a, "open", s, NoChat, "gate")
             /\ toolCall' \in [Agents -> CallSet]
  BY <1>1, Begins DEF OpenById, OpOf, StepOf
<1>2. ASSUME NEW s \in Ids, Act(a, "write", s)
      PROVE  s \in told \cap table /\ Begun(a, "write", s, NoChat, "gate")
             /\ toolCall' \in [Agents -> CallSet]
  BY <1>2, Begins DEF Act, OpOf, StepOf
<1>3. ASSUME NEW s \in Ids, Act(a, "read", s)
      PROVE  s \in told \cap table /\ Begun(a, "read", s, NoChat, "page")
             /\ toolCall' \in [Agents -> CallSet]
  BY <1>3, Begins DEF Act, OpOf, StepOf
<1>4. ASSUME NEW s \in Ids, Close(a, s)
      PROVE  s \in told \cap table /\ Begun(a, "close", s, NoChat, "release")
             /\ toolCall' \in [Agents -> CallSet]
  BY <1>4, Begins DEF Close, OpOf, StepOf
<1>5. ASSUME NEW d \in Chats, OpenInChat(a, d)
      PROVE  byChat[d] \in table /\ Begun(a, "open", byChat[d], d, "gate")
             /\ toolCall' \in [Agents -> CallSet]
  <2>1. byChat[d] \in table /\ Begin(a, "open", byChat[d], d, "gate")
    BY <1>5 DEF OpenInChat, FindByChatSession
  <2>2. byChat[d] \in Ids
    BY <2>1
  <2> QED
    BY <2>1, <2>2, Begins DEF OpOf, StepOf
<1>6. UNCHANGED <<sessionVars, browserGhosts>>
      /\ UNCHANGED <<processes, told, human, victim, leaving, down, takeovers, restarts>>
  BY DEF Starting, OpenById, Act, Close, OpenInChat, Begin
<1>7. CASE \E s \in Ids : OpenById(a, s)
  BY <1>1, <1>6, <1>7
<1>8. CASE \E s \in Ids : Act(a, "write", s)
  BY <1>2, <1>6, <1>8
<1>9. CASE \E s \in Ids : Act(a, "read", s)
  BY <1>3, <1>6, <1>9
<1>10. CASE \E s \in Ids : Close(a, s)
  BY <1>4, <1>6, <1>10
<1>11. CASE \E d \in Chats : OpenInChat(a, d)
  BY <1>5, <1>6, <1>11
<1> QED
  BY <1>7, <1>8, <1>9, <1>10, <1>11 DEF Starting

\* A new session gets the next number, and is in its creator's hands alone.
LEMMA CreatingIs ==
  ASSUME BrowserTypes, NEW a \in Agents, Creating(a)
  PROVE  /\ seq + 1 \in Ids /\ seq' = seq + 1 /\ table' = table \cup {seq + 1}
         /\ takeover' = takeover \ {seq + 1}
         /\ latest' = [latest EXCEPT ![seq + 1] = 0]
         /\ closed' = closed \ {seq + 1} /\ overtaken' = overtaken \ {seq + 1}
         /\ spared' = [spared EXCEPT ![seq + 1] = {}]
         /\ toolCall' \in [Agents -> CallSet]
         /\ \E c \in Chats \cup {NoChat} : Begun(a, "open", seq + 1, c, "save")
         /\ UNCHANGED <<byChat, home, page, login, row>>
         /\ UNCHANGED <<processes, told, human, victim, leaving, down, takeovers, restarts>>
<1> USE DEF BrowserTypes
<1>1. PICK c \in Chats \cup {NoChat} : Create(a, c)
  BY DEF Creating
<1>2. seq + 1 \in Ids /\ Begin(a, "open", seq + 1, c, "save")
  BY <1>1 DEF Create
<1>3. toolCall' \in [Agents -> CallSet] /\ Begun(a, "open", seq + 1, c, "save")
  BY <1>2, Begins DEF OpOf, StepOf
<1> QED
  BY <1>1, <1>2, <1>3 DEF Create, Begin

LEMMA PassingIs ==
  ASSUME BrowserTypes, NEW a \in Agents, Passing(a)
  PROVE  /\ UNCHANGED <<sessionVars, processes, told, human, victim, leaving, down, boundVars>>
         /\ UNCHANGED <<latest, overtaken, closed>>
         /\ toolCall' \in [Agents -> CallSet]
         /\ toolCall[a].step \in {"gate", "page", "act"}
         /\ \/ /\ Dropped(a) /\ spared' \in [Ids -> SUBSET Agents]
               /\ \A s \in Ids : spared'[s] = spared[s] \ {a}
            \/ /\ spared' = spared
               /\ \/ Advanced(a, "act") /\ (toolCall[a].step = "gate" => toolCall[a].id \notin takeover)
                  \/ Advanced(a, "page") /\ toolCall[a].step = "gate" /\ toolCall[a].id \notin takeover
<1> USE DEF BrowserTypes
<1>0. {"act", "page"} \subseteq StepOf
  BY DEF StepOf
<1>1. CASE Gate(a)
  <2>1. CASE Finish(a)
    BY <1>1, <2>1, Drops DEF Gate
  <2>2. CASE ~Finish(a)
    <3>1. /\ toolCall[a].id \notin takeover /\ spared' = spared
          /\ toolCall[a].step = "gate"
          /\ Step(a, "act") \/ Step(a, "page")
      BY <1>1, <2>2 DEF Gate, takeoverOf
    <3>2. CASE Step(a, "act")
      BY <1>0, <1>1, <3>1, <3>2, Advances DEF Gate
    <3>3. CASE Step(a, "page")
      BY <1>0, <1>1, <3>1, <3>3, Advances DEF Gate
    <3> QED
      BY <3>1, <3>2, <3>3
  <2> QED
    BY <2>1, <2>2
<1>2. CASE activePage(a)
  <2>1. CASE Finish(a)
    BY <1>2, <2>1, Drops DEF activePage
  <2>2. CASE ~Finish(a)
    <3>1. Step(a, "act") /\ spared' = spared /\ toolCall[a].step = "page"
      BY <1>2, <2>2 DEF activePage
    <3> QED
      BY <1>0, <1>2, <3>1, Advances DEF activePage
  <2> QED
    BY <2>1, <2>2
<1>3. CASE NavigateFails(a)
  BY <1>3, Drops DEF NavigateFails
<1> QED
  BY <1>1, <1>2, <1>3 DEF Passing

\* The call under way has a session.
LEMMA UnderWay ==
  ASSUME BrowserTypes, NEW a \in Agents, toolCall[a].step # "idle"
  PROVE  toolCall[a].id \in Ids
<1>1. toolCall[a] \in CallSet /\ toolCall[a].id # 0
  BY DEF BrowserTypes, SortedCalls
<1> QED
  BY <1>1, BrowserAssumption DEF CallSet, Ids

\* What becomes of a call: nothing, its next step, or its end.
Goes1(a, s) == Advanced(a, s) /\ spared' = spared
Ends(a) ==
  /\ Dropped(a) /\ spared' \in [Ids -> SUBSET Agents]
  /\ \A s \in Ids : spared'[s] = spared[s] \ {a}

\* A session that navigates has a context: the one it had, or a new one.
Housed(s) ==
  /\ home' \in [Ids -> Processes \cup {0}] /\ home'[s] # 0
  /\ \A t \in Ids : t # s => home'[t] = home[t]
  /\ \/ home' = home /\ processes' = processes
     \/ home[s] = 0 /\ Acquire(home'[s]) /\ processes' = processes \cup {home'[s]}

LEMMA NavigateIs ==
  ASSUME BrowserTypes, NEW a \in Agents, Navigate(a)
  PROVE  LET s == toolCall[a].id IN
         /\ s \in Ids /\ toolCall[a].step = "act" /\ toolCall[a].op = "open"
         /\ Housed(s)
         /\ login' \in [Ids -> Nat] /\ latest' = [latest EXCEPT ![s] = login'[s]]
         /\ \A t \in Ids : t # s => login'[t] = login[t]
         /\ overtaken' = Overtake(s)
         /\ page' \in {page, page \cup {s}}
         /\ toolCall' \in [Agents -> CallSet] /\ (Goes1(a, "touch") \/ Ends(a))
         /\ UNCHANGED <<seq, table, byChat, takeover, row, told, human, victim, leaving, down,
                        boundVars, closed>>
<1> DEFINE s == toolCall[a].id
<1> USE DEF BrowserTypes
<1>1. toolCall[a].step = "act" /\ toolCall[a].op = "open"
  BY DEF Navigate
<1>2. s \in Ids
  BY <1>1, UnderWay
<1>3. \A n \in Nat : Logins(n) \subseteq Nat
  BY DEF Logins
<1>4. Rebuilt(s) \subseteq Nat
  BY <1>2 DEF Rebuilt, Saved
<1>5. \/ /\ home[s] # 0 /\ home' = home /\ processes' = processes
         /\ \E l \in Logins(login[s]) : login' = [login EXCEPT ![s] = l]
      \/ /\ home[s] = 0
         /\ \E p \in Processes : /\ Acquire(p) /\ home' = [home EXCEPT ![s] = p]
                                 /\ processes' = processes \cup {p}
         /\ \E l \in Rebuilt(s) : \E n \in Logins(l) : login' = [login EXCEPT ![s] = n]
  BY DEF Navigate
<1>6. \E n \in Nat : login' = [login EXCEPT ![s] = n]
  BY <1>2, <1>3, <1>4, <1>5
<1>7. login' \in [Ids -> Nat] /\ \A t \in Ids : t # s => login'[t] = login[t]
  BY <1>2, <1>6
<1>8. Processes \subseteq Nat \ {0}
  BY DEF Processes
<1>9. Housed(s)
  <2>1. CASE home[s] # 0 /\ home' = home /\ processes' = processes
    BY <2>1 DEF Housed
  <2>2. ASSUME home[s] = 0, NEW p \in Processes, Acquire(p), home' = [home EXCEPT ![s] = p],
               processes' = processes \cup {p}
        PROVE  Housed(s)
    <3>1. home'[s] = p
      BY <1>2, <2>2
    <3> QED
      BY <1>2, <1>8, <2>2, <3>1 DEF Housed
  <2> QED
    BY <1>5, <2>1, <2>2
<1>10. toolCall' \in [Agents -> CallSet] /\ (Goes1(a, "touch") \/ Ends(a))
  <2>1. CASE Step(a, "touch") /\ UNCHANGED spared
    BY <2>1, Advances DEF Goes1, StepOf
  <2>2. CASE Finish(a)
    BY <2>2, Drops DEF Ends
  <2> QED
    BY <2>1, <2>2 DEF Navigate
<1>11. page' \in {page, page \cup {s}}
  BY DEF Navigate
<1>12. latest' = [latest EXCEPT ![s] = login'[s]] /\ overtaken' = Overtake(s)
  BY DEF Navigate
<1>13. UNCHANGED <<seq, table, byChat, takeover, row, told, human, victim, leaving, down,
                   boundVars, closed>>
  BY DEF Navigate
<1> QED
  BY <1>1, <1>2, <1>7, <1>9, <1>10, <1>11, <1>12, <1>13

\* A page in use, by an agent or a human, may log its session in anew.
LoggedIn(s) ==
  /\ s \in page /\ login' \in [Ids -> Nat]
  /\ latest' = [latest EXCEPT ![s] = login'[s]]
  /\ \A t \in Ids : t # s => login'[t] = login[t]

LEMMA UsePageIs ==
  ASSUME BrowserTypes, NEW a \in Agents, UsePage(a)
  PROVE  /\ toolCall[a].step = "act" /\ toolCall[a].id \in Ids
         /\ LoggedIn(toolCall[a].id) \/ UNCHANGED <<login, latest>>
         /\ toolCall' \in [Agents -> CallSet] /\ (Goes1(a, "touch") \/ Ends(a))
         /\ UNCHANGED <<seq, table, byChat, home, page, takeover, row, processes, told, human,
                        victim, leaving, down, boundVars, overtaken, closed>>
<1> DEFINE s == toolCall[a].id
<1> USE DEF BrowserTypes
<1>1. toolCall[a].step = "act"
  BY DEF UsePage
<1>2. s \in Ids
  BY <1>1, UnderWay
<1>3. \/ /\ s \in page /\ Step(a, "touch") /\ UNCHANGED spared
         /\ \E l \in IF toolCall[a].op = "write" THEN Logins(login[s]) ELSE {login[s]} :
              login' = [login EXCEPT ![s] = l] /\ latest' = [latest EXCEPT ![s] = l]
      \/ Finish(a) /\ UNCHANGED <<login, latest>>
  BY DEF UsePage
<1>4. CASE Finish(a) /\ UNCHANGED <<login, latest>>
  BY <1>1, <1>2, <1>4, Drops DEF Ends, UsePage
<1>5. CASE ~(Finish(a) /\ UNCHANGED <<login, latest>>)
  <2>1. s \in page /\ Step(a, "touch") /\ UNCHANGED spared
    BY <1>3, <1>5
  <2>2. PICK l \in IF toolCall[a].op = "write" THEN Logins(login[s]) ELSE {login[s]} :
              login' = [login EXCEPT ![s] = l] /\ latest' = [latest EXCEPT ![s] = l]
    BY <1>3, <1>5
  <2>3. l \in Nat
    BY <1>2 DEF Logins
  <2>4. LoggedIn(s)
    BY <1>2, <2>1, <2>2, <2>3 DEF LoggedIn
  <2>5. toolCall' \in [Agents -> CallSet] /\ Goes1(a, "touch")
    BY <2>1, Advances DEF Goes1, StepOf
  <2> QED
    BY <1>1, <1>2, <2>4, <2>5 DEF UsePage
<1> QED
  BY <1>4, <1>5

LEMMA InjectIs ==
  ASSUME BrowserTypes, Inject
  PROVE  /\ human \in Ids /\ human' = 0
         /\ LoggedIn(human) \/ UNCHANGED <<login, latest>>
         /\ UNCHANGED <<seq, table, byChat, home, page, takeover, row, processes, toolCall, told,
                        victim, leaving, down, boundVars, overtaken, closed, spared>>
<1> USE DEF BrowserTypes
<1>1. human \in Ids
  BY DEF Inject, Ids
<1>2. ASSUME human \in page, NEW l \in Logins(login[human]),
             login' = [login EXCEPT ![human] = l], latest' = [latest EXCEPT ![human] = l]
      PROVE  LoggedIn(human)
  <2>1. l \in Nat
    BY <1>1, <1>2 DEF Logins
  <2> QED
    BY <1>1, <1>2, <2>1 DEF LoggedIn
<1> QED
  BY <1>1, <1>2 DEF Inject

\* An eviction saves the login, then gives up the context; or it does nothing.
EvictionOf(s) ==
  \/ /\ home[s] # 0
     /\ row' = [row EXCEPT ![s] = login[s]] /\ home' = [home EXCEPT ![s] = 0]
     /\ page' = page \ {s} /\ login' = [login EXCEPT ![s] = 0]
  \/ UNCHANGED <<row, home, page, login>>

LEMMA EvictingIs ==
  ASSUME BrowserTypes, Evicting
  PROVE  /\ \E s \in Ids : EvictionOf(s)
         /\ victim' \in {0, victim} /\ leaving' \subseteq leaving
         /\ UNCHANGED <<seq, table, byChat, takeover, processes, toolCall, told, human, down,
                        boundVars, browserGhosts>>
<1>1. CASE Reap
  <2>1. victim \in Ids
    BY <1>1 DEF Reap, BrowserTypes, Ids
  <2> QED
    BY <1>1, <2>1 DEF Reap, evictSession, Evicted, EvictionOf
<1>2. ASSUME NEW s \in Ids, Leave(s) PROVE EvictionOf(s)
  BY <1>2 DEF Leave, evictSession, Evicted, EvictionOf
<1>3. CASE \E s \in Ids : Leave(s)
  BY <1>2, <1>3 DEF Leave
<1> QED
  BY <1>1, <1>3 DEF Evicting

\* A restart forgets everything but the rows.
LEMMA RestartingIs ==
  ASSUME BrowserTypes, Restarting
  PROVE  /\ table' = {s \in Ids : row[s] # NoRow} /\ seq' \in 0 .. MaxSeq
         /\ \A s \in table' : s <= seq'
         /\ byChat' = [c \in Chats |-> 0] /\ home' = [s \in Ids |-> 0] /\ page' = {}
         /\ login' = [s \in Ids |-> 0] /\ takeover' = {} /\ processes' = {1}
         /\ toolCall' = [a \in Agents |-> NoCall] /\ human' = 0 /\ victim' = 0 /\ leaving' = {}
         /\ latest' = [s \in Ids |-> IF home[s] # 0 THEN Saved(s) ELSE latest[s]]
         /\ overtaken' = {s \in overtaken : s \in table'} /\ spared' = [s \in Ids |-> {}]
         /\ told' = told \cap table'
         /\ UNCHANGED <<row, closed>>
<1> DEFINE known == {s \in Ids : row[s] # NoRow}
<1>1. Adopt
  BY DEF Restarting, Exit, Crash
<1>2. seq' = IF known = {} THEN 0 ELSE CHOOSE s \in known : \A t \in known : t <= s
  BY <1>1 DEF Adopt
<1>3. known # {} => \E s \in known : \A t \in known : t <= s
  <2>1. known \subseteq 0 .. MaxSeq
    BY BrowserAssumption DEF Ids
  <2> HIDE DEF known
  <2> QED
    BY <2>1, BrowserAssumption, Largest
<1>4. known \subseteq Ids
  OBVIOUS
<1>5. seq' \in 0 .. MaxSeq /\ \A s \in known : s <= seq'
  <2> HIDE DEF known
  <2>1. CASE known = {}
    BY <1>2, <2>1, BrowserAssumption
  <2>2. CASE known # {}
    <3>1. seq' \in known /\ \A t \in known : t <= seq'
      BY <1>2, <1>3, <2>2
    <3> QED
      BY <1>4, <3>1, BrowserAssumption DEF Ids
  <2> QED
    BY <2>1, <2>2
<1> QED
  BY <1>1, <1>5 DEF Adopt

LEMMA ClearingIs ==
  ASSUME BrowserTypes, Clearing
  PROVE  /\ UNCHANGED <<seq, table, byChat, home, page, login, row, processes, toolCall, told,
                        leaving, down, latest, overtaken, closed>>
         /\ human' \in 0 .. MaxSeq /\ victim' \in 0 .. MaxSeq
         /\ victim' # victim => victim' <= seq
         /\ human' # human => human' \in page
         /\ \/ UNCHANGED <<takeover, spared>>
            \/ \E s \in table : /\ takeover' = takeover \ {s}
                                /\ spared' = spared
            \/ \E s \in table : /\ takeover' = takeover \cup {s}
                                /\ spared' = IF s \in takeover THEN spared
                                     ELSE [spared EXCEPT ![s] = {a \in Agents :
                                       toolCall[a].id = s /\ toolCall[a].step \in {"page", "act"}}]
<1> USE DEF BrowserTypes
<1>1. ASSUME NEW s \in Ids, NEW on \in BOOLEAN, SetTakeover(s, on)
      PROVE  /\ UNCHANGED <<seq, table, byChat, home, page, login, row, processes, toolCall, told,
                            leaving, down, latest, overtaken, closed, human, victim>>
             /\ s \in table
             /\ \/ takeover' = takeover \ {s} /\ spared' = spared
                \/ /\ takeover' = takeover \cup {s}
                   /\ spared' = IF s \in takeover THEN spared
                                ELSE [spared EXCEPT ![s] = {a \in Agents :
                                  toolCall[a].id = s /\ toolCall[a].step \in {"page", "act"}}]
  BY <1>1 DEF SetTakeover, actorVars
<1>2. ASSUME NEW s \in Ids, InjectInput(s)
      PROVE  /\ UNCHANGED <<sessionVars, processes, toolCall, told, victim, leaving, down, browserGhosts>>
             /\ human' = s /\ s \in page
  BY <1>2 DEF InjectInput
<1>3. ASSUME NEW s \in Ids, reapIdle(s)
      PROVE  /\ UNCHANGED <<sessionVars, processes, toolCall, told, human, leaving, down, browserGhosts>>
             /\ victim' = s /\ s <= seq
  BY <1>3 DEF reapIdle
<1>4. \A s \in Ids : s \in 0 .. MaxSeq
  BY BrowserAssumption DEF Ids
<1>5. CASE \E s \in Ids, on \in BOOLEAN : SetTakeover(s, on)
  BY <1>1, <1>5
<1>6. CASE \E s \in Ids : InjectInput(s)
  BY <1>2, <1>4, <1>6 DEF sessionVars, browserGhosts
<1>7. CASE \E s \in Ids : reapIdle(s)
  BY <1>3, <1>4, <1>7 DEF sessionVars, browserGhosts
<1> QED
  BY <1>5, <1>6, <1>7 DEF Clearing

\* The last steps of an open and of a close.
LEMMA touchIs ==
  ASSUME BrowserTypes, NEW a \in Agents, touch(a)
  PROVE  /\ toolCall[a].step = "touch" /\ toolCall[a].id \in Ids
         /\ told' = told \/ told' = told \cup {toolCall[a].id}
         /\ toolCall' \in [Agents -> CallSet] /\ Ends(a)
         /\ UNCHANGED <<seq, table, byChat, home, page, login, takeover, row, processes, human,
                        victim, leaving, down, boundVars, latest, overtaken, closed>>
<1>1. toolCall[a].step = "touch" /\ Finish(a)
  BY DEF touch
<1>2. toolCall[a].id \in Ids
  BY <1>1, UnderWay
<1>3. toolCall' \in [Agents -> CallSet] /\ Ends(a)
  BY <1>1, Drops DEF Ends, BrowserTypes
<1> QED
  BY <1>1, <1>2, <1>3 DEF touch, Touched

LEMMA SaveNewIs ==
  ASSUME BrowserTypes, NEW a \in Agents, SaveNew(a)
  PROVE  /\ toolCall[a].step = "save" /\ toolCall[a].id \in Ids
         /\ row' \in {row, [row EXCEPT ![toolCall[a].id] = 0]}
         /\ overtaken' = Overtake(toolCall[a].id)
         /\ toolCall' \in [Agents -> CallSet] /\ Advanced(a, "bind")
         /\ UNCHANGED <<seq, table, byChat, home, page, login, takeover, processes, told, human,
                        victim, leaving, down, boundVars, latest, closed, spared>>
<1>1. toolCall[a].step = "save" /\ Step(a, "bind")
  BY DEF SaveNew
<1>2. toolCall[a].id \in Ids
  BY <1>1, UnderWay
<1>3. toolCall' \in [Agents -> CallSet] /\ Advanced(a, "bind")
  BY <1>1, Advances DEF StepOf, BrowserTypes
<1> QED
  BY <1>1, <1>2, <1>3 DEF SaveNew

LEMMA BindChatIs ==
  ASSUME BrowserTypes, NEW a \in Agents, BindChat(a)
  PROVE  /\ toolCall[a].step = "bind" /\ toolCall[a].id \in Ids
         /\ byChat' = [c \in Chats |-> IF c = toolCall[a].chat THEN toolCall[a].id ELSE byChat[c]]
         /\ toolCall' \in [Agents -> CallSet] /\ Advanced(a, "gate")
         /\ UNCHANGED <<seq, table, home, page, login, takeover, row, processes, told, human,
                        victim, leaving, down, boundVars, browserGhosts>>
<1>1. toolCall[a].step = "bind" /\ Step(a, "gate")
  BY DEF BindChat
<1>2. toolCall[a].id \in Ids
  BY <1>1, UnderWay
<1>3. toolCall' \in [Agents -> CallSet] /\ Advanced(a, "gate")
  BY <1>1, Advances DEF StepOf, BrowserTypes
<1> QED
  BY <1>1, <1>2, <1>3 DEF BindChat

LEMMA CloseContextIs ==
  ASSUME BrowserTypes, NEW a \in Agents, CloseContext(a)
  PROVE  LET s == toolCall[a].id IN
         /\ toolCall[a].step = "release" /\ s \in Ids
         /\ home' = [home EXCEPT ![s] = 0] /\ page' = page \ {s} /\ takeover' = takeover \ {s}
         /\ login' = [login EXCEPT ![s] = 0] /\ latest' = [latest EXCEPT ![s] = Saved(s)]
         /\ toolCall' \in [Agents -> CallSet] /\ Advanced(a, "delete")
         /\ UNCHANGED <<seq, table, byChat, row, processes, told, human, victim, leaving, down,
                        boundVars, overtaken, closed, spared>>
<1>1. toolCall[a].step = "release" /\ Step(a, "delete")
  BY DEF CloseContext
<1>2. toolCall[a].id \in Ids
  BY <1>1, UnderWay
<1>3. toolCall' \in [Agents -> CallSet] /\ Advanced(a, "delete")
  BY <1>1, Advances DEF StepOf, BrowserTypes
<1> QED
  BY <1>1, <1>2, <1>3 DEF CloseContext, Release

LEMMA DeleteSessionIs ==
  ASSUME BrowserTypes, NEW a \in Agents, DeleteSession(a)
  PROVE  LET s == toolCall[a].id IN
         /\ toolCall[a].step = "delete" /\ s \in Ids /\ table' = table \ {s}
         /\ byChat' = [c \in Chats |-> IF byChat[c] = s THEN 0 ELSE byChat[c]]
         /\ toolCall' \in [Agents -> CallSet] /\ Advanced(a, "row")
         /\ UNCHANGED <<seq, home, page, login, takeover, row, processes, told, human, victim,
                        leaving, down, boundVars, browserGhosts>>
<1>1. toolCall[a].step = "delete" /\ Step(a, "row")
  BY DEF DeleteSession
<1>2. toolCall[a].id \in Ids
  BY <1>1, UnderWay
<1>3. toolCall' \in [Agents -> CallSet] /\ Advanced(a, "row")
  BY <1>1, Advances DEF StepOf, BrowserTypes
<1> QED
  BY <1>1, <1>2, <1>3 DEF DeleteSession

LEMMA DeleteRowIs ==
  ASSUME BrowserTypes, NEW a \in Agents, DeleteRow(a)
  PROVE  LET s == toolCall[a].id IN
         /\ toolCall[a].step = "row" /\ s \in Ids
         /\ \/ row' = [row EXCEPT ![s] = NoRow] /\ closed' = closed \cup {s}
            \/ UNCHANGED <<row, closed>>
         /\ toolCall' \in [Agents -> CallSet] /\ Ends(a)
         /\ UNCHANGED <<seq, table, byChat, home, page, login, takeover, processes, told, human,
                        victim, leaving, down, boundVars, latest, overtaken>>
<1>1. toolCall[a].step = "row" /\ Finish(a)
  BY DEF DeleteRow
<1>2. toolCall[a].id \in Ids
  BY <1>1, UnderWay
<1>3. toolCall' \in [Agents -> CallSet] /\ Ends(a)
  BY <1>1, Drops DEF Ends, BrowserTypes
<1> QED
  BY <1>1, <1>2, <1>3 DEF DeleteRow

LEMMA ShutdownIs ==
  ASSUME BrowserTypes, Shutdown
  PROVE  leaving' = table /\ UNCHANGED <<sessionVars, processes, toolCall, told, human, victim,
                                         browserGhosts>>
  BY DEF Shutdown

LEMMA RecycleIs ==
  ASSUME NEW p \in Processes, RecycleBloated(p)
  PROVE  /\ p \in processes /\ Contexts(p) = 0 /\ processes' = processes \ {p}
         /\ UNCHANGED <<sessionVars, actorVars, browserGhosts>>
  BY DEF RecycleBloated

\* A context lives in a process that runs, none has more than it may.
Pool ==
  /\ processes \subseteq Processes
  /\ \A s \in Ids : home[s] \in processes \cup {0}
  /\ \A p \in processes : Contexts(p) <= MaxContexts
  /\ \A s \in page : home[s] # 0

\* A number that was not given out yet is in use nowhere.
Numbers ==
  /\ \A s \in table \cup told : s <= seq
  /\ \A c \in Chats : byChat[c] <= seq
  /\ \A a \in Agents : toolCall[a].id <= seq
  /\ victim <= seq
  /\ \A s \in Ids : home[s] # 0 \/ row[s] # NoRow => s <= seq

\* A session whose row is still to be written is its creator's alone.
Unborn(a) ==
  LET s == toolCall[a].id IN
  /\ s \in table /\ s \notin told /\ home[s] = 0 /\ latest[s] = 0 /\ row[s] = NoRow
  /\ \A c \in Chats : byChat[c] # s
  /\ \A b \in Agents : b # a => toolCall[b].id # s
Newborn == \A a \in Agents : toolCall[a].step = "save" => Unborn(a)

\* A close that no open came upon leaves no context, no place and no row.
OwnedSession(s) ==
  /\ home[s] # 0 => s \in table \cup overtaken \/ \E a \in Agents : Is(a, "close", s)
  /\ s \in closed \ overtaken => s \notin table /\ row[s] = NoRow /\ home[s] = 0

OwnedCall(a) ==
  /\ toolCall[a].step \in {"delete", "row"} => home[toolCall[a].id] = 0 \/ toolCall[a].id \in overtaken
  /\ toolCall[a].step = "row" => toolCall[a].id \notin table

Owned ==
  /\ closed \subseteq Ids
  /\ \A s \in Ids : OwnedSession(s)
  /\ \A a \in Agents : OwnedCall(a)

\* A context in use has the latest login, and one given up has left it in its row.
LoginsKept ==
  /\ \A s \in Ids : home[s] # 0 => login[s] = latest[s]
  /\ \A s \in Ids : home[s] = 0 /\ (s \in table \/ row[s] # NoRow) => latest[s] = Saved(s)

\* A call past its gate at a session under takeover was past it before.
SparedOnly == \A a \in Agents : \A s \in takeover :
  toolCall[a].id = s /\ toolCall[a].step \in {"page", "act"} /\ toolCall[a].op # "read" => a \in spared[s]

BrowserInv == BrowserTypes /\ Pool /\ Numbers /\ Newborn /\ Owned /\ LoginsKept /\ SparedOnly

LEMMA BrowserInitInv == BrowserInit => BrowserInv
<1> SUFFICES ASSUME BrowserInit PROVE BrowserInv
  OBVIOUS
<1> USE DEF BrowserInit
<1>0. \A s \in Ids : s \in Nat /\ s # 0
  BY DEF Ids
<1>1. BrowserTypes
  <2>1. seq \in 0 .. MaxSeq /\ human \in 0 .. MaxSeq /\ victim \in 0 .. MaxSeq
        /\ byChat \in [Chats -> 0 .. MaxSeq]
    BY BrowserAssumption
  <2>2. toolCall \in [Agents -> CallSet] /\ SortedCalls
    BY NoCallIs DEF SortedCalls
  <2> QED
    BY <2>1, <2>2 DEF BrowserTypes
<1>2. Pool
  <2>1. processes \subseteq Processes
    BY BrowserAssumption DEF Processes
  <2>2. \A p \in processes : {s \in Ids : home[s] = p} = {}
    OBVIOUS
  <2>3. \A p \in processes : Contexts(p) = 0
    BY <2>2, FS_EmptySet DEF Contexts
  <2> QED
    BY <2>1, <2>3, BrowserAssumption DEF Pool
<1>3. Numbers /\ Newborn /\ Owned /\ LoginsKept /\ SparedOnly
  BY <1>0, NoCallIs, BrowserAssumption DEF Numbers, Newborn, Owned, OwnedSession, OwnedCall, LoginsKept, SparedOnly, Saved
<1> QED
  BY <1>1, <1>2, <1>3 DEF BrowserInv

\* Calls stay in order as they begin, go on and end.
LEMMA SortedBegun ==
  ASSUME SortedCalls, NEW a \in Agents, NEW op, NEW s \in Ids, NEW c, NEW step0,
         step0 # "idle", op = "close" <=> step0 \in {"release", "delete", "row"},
         Begun(a, op, s, c, step0)
  PROVE  SortedCalls'
<1>1. toolCall'[a].op = op /\ toolCall'[a].id = s /\ toolCall'[a].step = step0 /\ s # 0
  BY DEF Begun, Ids
<1> QED
  BY <1>1 DEF Begun, SortedCalls

LEMMA SortedAdvanced ==
  ASSUME SortedCalls, NEW a \in Agents, NEW s, Advanced(a, s), s # "idle", toolCall[a].step # "idle",
         toolCall[a].step \in {"release", "delete", "row"} <=> s \in {"release", "delete", "row"}
  PROVE  SortedCalls'
  BY DEF Advanced, SortedCalls

LEMMA SortedDropped ==
  ASSUME SortedCalls, NEW a \in Agents, Dropped(a)
  PROVE  SortedCalls'
  BY NoCallIs DEF Dropped, SortedCalls

LEMMA StepSortedCalls ==
  ASSUME BrowserTypes, [BrowserNext]_browserVars
  PROVE  SortedCalls'
<1>0. SortedCalls
  BY DEF BrowserTypes
<1>1. ASSUME NEW a \in Agents, Starting(a) PROVE SortedCalls'
  <2>1. PICK op \in {"open", "write", "read", "close"}, s \in table, c \in Chats \cup {NoChat},
             step0 \in {"gate", "page", "release"} :
          Begun(a, op, s, c, step0) /\ (op = "close" <=> step0 = "release")
    BY <1>1, StartingIs
  <2>2. s \in Ids
    BY DEF BrowserTypes
  <2> QED
    BY <1>0, <2>1, <2>2, SortedBegun
<1>2. ASSUME NEW a \in Agents, Creating(a) PROVE SortedCalls'
  <2>1. PICK c \in Chats \cup {NoChat} : Begun(a, "open", seq + 1, c, "save")
    BY <1>2, CreatingIs
  <2>2. seq + 1 \in Ids
    BY <1>2, CreatingIs
  <2> QED
    BY <1>0, <2>1, <2>2, SortedBegun
<1>3. ASSUME NEW a \in Agents, Passing(a) PROVE SortedCalls'
  <2>1. /\ toolCall[a].step \in {"gate", "page", "act"}
        /\ Dropped(a) \/ Advanced(a, "act") \/ Advanced(a, "page")
    BY <1>3, PassingIs
  <2> QED
    BY <1>0, <2>1, SortedDropped, SortedAdvanced
<1>4. ASSUME NEW a \in Agents, Navigate(a) \/ UsePage(a) PROVE SortedCalls'
  <2>1. toolCall[a].step = "act" /\ (Advanced(a, "touch") \/ Dropped(a))
    BY <1>4, NavigateIs, UsePageIs DEF Goes1, Ends
  <2> QED
    BY <1>0, <2>1, SortedDropped, SortedAdvanced
<1>5. ASSUME NEW a \in Agents, touch(a) \/ DeleteRow(a) PROVE SortedCalls'
  BY <1>0, <1>5, touchIs, DeleteRowIs, SortedDropped DEF Ends
<1>6. ASSUME NEW a \in Agents, SaveNew(a) \/ BindChat(a) PROVE SortedCalls'
  <2>1. toolCall[a].step \in {"save", "bind"} /\ (Advanced(a, "bind") \/ Advanced(a, "gate"))
    BY <1>6, SaveNewIs, BindChatIs
  <2> QED
    BY <1>0, <2>1, SortedAdvanced
<1>7. ASSUME NEW a \in Agents, CloseContext(a) \/ DeleteSession(a) PROVE SortedCalls'
  <2>1. toolCall[a].step \in {"release", "delete"} /\ (Advanced(a, "delete") \/ Advanced(a, "row"))
    BY <1>7, CloseContextIs, DeleteSessionIs
  <2> QED
    BY <1>0, <2>1, SortedAdvanced
<1>8. CASE Restarting
  <2>1. toolCall' = [a \in Agents |-> NoCall]
    BY <1>8, RestartingIs
  <2> QED
    BY <2>1, NoCallIs DEF SortedCalls
<1>9. CASE UNCHANGED toolCall
  BY <1>0, <1>9 DEF SortedCalls
<1>10. CASE Clearing \/ Inject \/ Evicting \/ Shutdown \/ UNCHANGED browserVars
  <2>1. UNCHANGED toolCall
    BY <1>10, ClearingIs, InjectIs, EvictingIs, ShutdownIs DEF browserVars, actorVars
  <2> QED
    BY <1>9, <2>1
<1>11. CASE \E p \in Processes : RecycleBloated(p)
  BY <1>9, <1>11, RecycleIs DEF actorVars
<1> QED
  BY <1>1, <1>2, <1>3, <1>4, <1>5, <1>6, <1>7, <1>8, <1>10, <1>11, BrowserCases

LEMMA StepBrowserTypes ==
  ASSUME BrowserTypes, [BrowserNext]_browserVars
  PROVE  BrowserTypes'
<1>0. SortedCalls'
  BY StepSortedCalls
<1> USE <1>0 DEF BrowserTypes
<1>n. \A s \in Ids : s \in 0 .. MaxSeq
  BY BrowserAssumption DEF Ids
<1>1. ASSUME NEW a \in Agents, Starting(a) PROVE BrowserTypes'
  BY <1>1, StartingIs DEF sessionVars, browserGhosts
<1>2. ASSUME NEW a \in Agents, Creating(a) PROVE BrowserTypes'
  <2>1. seq' \in 0 .. MaxSeq /\ table' \subseteq Ids /\ takeover' \subseteq Ids
    BY <1>2, <1>n, CreatingIs
  <2>2. latest' \in [Ids -> Nat] /\ spared' \in [Ids -> SUBSET Agents]
    BY <1>2, CreatingIs
  <2> QED
    BY <1>2, <2>1, <2>2, CreatingIs
<1>3. ASSUME NEW a \in Agents, Passing(a) PROVE BrowserTypes'
  BY <1>3, PassingIs DEF sessionVars
<1>4. ASSUME NEW a \in Agents, Navigate(a) PROVE BrowserTypes'
  <2> DEFINE s == toolCall[a].id
  <2>1. s \in Ids /\ login' \in [Ids -> Nat] /\ latest' = [latest EXCEPT ![s] = login'[s]]
        /\ Housed(s) /\ page' \in {page, page \cup {s}} /\ toolCall' \in [Agents -> CallSet]
        /\ (Goes1(a, "touch") \/ Ends(a))
        /\ UNCHANGED <<seq, table, byChat, takeover, row, told, human, victim, leaving>>
    BY <1>4, NavigateIs
  <2>2. latest' \in [Ids -> Nat] /\ page' \subseteq Ids
    BY <2>1
  <2>3. home' \in [Ids -> Processes \cup {0}]
    BY <2>1 DEF Housed
  <2>4. spared' \in [Ids -> SUBSET Agents]
    BY <2>1 DEF Goes1, Ends
  <2> QED
    BY <2>1, <2>2, <2>3, <2>4
<1>5. ASSUME NEW s \in Ids, LoggedIn(s) PROVE login' \in [Ids -> Nat] /\ latest' \in [Ids -> Nat]
  BY <1>5 DEF LoggedIn
<1>6. ASSUME NEW a \in Agents, UsePage(a) PROVE BrowserTypes'
  <2>1. spared' \in [Ids -> SUBSET Agents]
    BY <1>6, UsePageIs DEF Goes1, Ends
  <2>2. login' \in [Ids -> Nat] /\ latest' \in [Ids -> Nat]
    BY <1>5, <1>6, UsePageIs
  <2> QED
    BY <1>6, <2>1, <2>2, UsePageIs
<1>7. CASE Inject
  <2>1. human' \in 0 .. MaxSeq
    BY <1>7, InjectIs, BrowserAssumption
  <2>2. login' \in [Ids -> Nat] /\ latest' \in [Ids -> Nat]
    BY <1>5, <1>7, InjectIs
  <2> QED
    BY <1>7, <2>1, <2>2, InjectIs
<1>8. ASSUME NEW a \in Agents, touch(a) PROVE BrowserTypes'
  BY <1>8, touchIs DEF Ends
<1>9. ASSUME NEW a \in Agents, SaveNew(a) PROVE BrowserTypes'
  BY <1>9, SaveNewIs
<1>10. ASSUME NEW a \in Agents, BindChat(a) PROVE BrowserTypes'
  <2>1. byChat' \in [Chats -> 0 .. MaxSeq]
    BY <1>n, <1>10, BindChatIs
  <2> QED
    BY <1>10, <2>1, BindChatIs DEF browserGhosts
<1>11. ASSUME NEW a \in Agents, CloseContext(a) PROVE BrowserTypes'
  <2> DEFINE s == toolCall[a].id
  <2>1. s \in Ids /\ Saved(s) \in Nat
    BY <1>11, CloseContextIs DEF Saved
  <2>2. latest' \in [Ids -> Nat] /\ login' \in [Ids -> Nat] /\ home' \in [Ids -> Processes \cup {0}]
        /\ page' \subseteq Ids /\ takeover' \subseteq Ids
    BY <1>11, <2>1, CloseContextIs
  <2> QED
    BY <1>11, <2>2, CloseContextIs
<1>12. ASSUME NEW a \in Agents, DeleteSession(a) PROVE BrowserTypes'
  <2>1. byChat' \in [Chats -> 0 .. MaxSeq] /\ table' \subseteq Ids
    BY <1>12, DeleteSessionIs, BrowserAssumption
  <2> QED
    BY <1>12, <2>1, DeleteSessionIs DEF browserGhosts
<1>13. ASSUME NEW a \in Agents, DeleteRow(a) PROVE BrowserTypes'
  <2>1. row' \in [Ids -> Nat \cup {NoRow}] /\ spared' \in [Ids -> SUBSET Agents]
    BY <1>13, DeleteRowIs DEF Ends
  <2> QED
    BY <1>13, <2>1, DeleteRowIs
<1>14. CASE Clearing
  <2>1. takeover' \subseteq Ids /\ spared' \in [Ids -> SUBSET Agents]
    <3>1. CASE UNCHANGED <<takeover, spared>>
      BY <3>1
    <3>2. ASSUME NEW s \in table, takeover' = takeover \ {s}, spared' = spared
          PROVE  takeover' \subseteq Ids /\ spared' \in [Ids -> SUBSET Agents]
      BY <3>2
    <3>3. ASSUME NEW s \in table, takeover' = takeover \cup {s},
                 spared' = IF s \in takeover THEN spared
                   ELSE [spared EXCEPT ![s] = {a \in Agents :
                          toolCall[a].id = s /\ toolCall[a].step \in {"page", "act"}}]
          PROVE  takeover' \subseteq Ids /\ spared' \in [Ids -> SUBSET Agents]
      BY <3>3
    <3> QED
      BY <1>14, <3>1, <3>2, <3>3, ClearingIs
  <2> QED
    BY <1>14, <2>1, ClearingIs
<1>15. CASE Evicting
  <2>1. PICK s \in Ids : EvictionOf(s)
    BY <1>15, EvictingIs
  <2>2. /\ row' \in [Ids -> Nat \cup {NoRow}] /\ home' \in [Ids -> Processes \cup {0}]
        /\ page' \subseteq Ids /\ login' \in [Ids -> Nat]
    BY <2>1 DEF EvictionOf
  <2>3. victim' \in 0 .. MaxSeq /\ leaving' \subseteq Ids
    BY <1>15, EvictingIs, BrowserAssumption
  <2> QED
    BY <1>15, <2>2, <2>3, EvictingIs DEF browserGhosts
<1>16. CASE Restarting
  <2>1. \A s \in Ids : (IF home[s] # 0 THEN Saved(s) ELSE latest[s]) \in Nat
    BY DEF Saved
  <2>2. latest' \in [Ids -> Nat]
    BY <1>16, <2>1, RestartingIs
  <2>3. toolCall' \in [Agents -> CallSet] /\ spared' \in [Ids -> SUBSET Agents]
    BY <1>16, NoCallIs, RestartingIs
  <2>4. human' \in 0 .. MaxSeq /\ victim' \in 0 .. MaxSeq /\ byChat' \in [Chats -> 0 .. MaxSeq]
    BY <1>16, RestartingIs, BrowserAssumption
  <2> QED
    BY <1>16, <2>2, <2>3, <2>4, RestartingIs
<1>17. CASE Shutdown
  BY <1>17, ShutdownIs DEF sessionVars, browserGhosts
<1>18. CASE \E p \in Processes : RecycleBloated(p)
  BY <1>18, RecycleIs DEF sessionVars, actorVars, browserGhosts
<1>19. CASE UNCHANGED browserVars
  BY <1>19 DEF browserVars, sessionVars, actorVars, browserGhosts
<1> QED
  BY <1>1, <1>2, <1>3, <1>4, <1>6, <1>7, <1>8, <1>9, <1>10, <1>11, <1>12, <1>13, <1>14, <1>15,
     <1>16, <1>17, <1>18, <1>19, BrowserCases

\* What a process holds, as steps give contexts and take them away.
LEMMA ContextsCount ==
  ASSUME BrowserTypes, NEW p
  PROVE  /\ {s \in Ids : home[s] = p} \subseteq Ids /\ IsFiniteSet({s \in Ids : home[s] = p})
         /\ Contexts(p) \in Nat
<1>1. IsFiniteSet(Ids)
  BY BrowserAssumption, FS_Interval DEF Ids
<1>2. IsFiniteSet({s \in Ids : home[s] = p})
  BY <1>1, FS_Subset
<1> QED
  BY <1>2, FS_CardinalityType DEF Contexts

\* Giving contexts up does not add to what a process holds.
LEMMA FewerContexts ==
  ASSUME BrowserTypes, NEW p, {s \in Ids : home'[s] = p} \subseteq {s \in Ids : home[s] = p}
  PROVE  Contexts(p)' <= Contexts(p)
<1> DEFINE now == {s \in Ids : home[s] = p}
           then == {s \in Ids : home'[s] = p}
<1>1. IsFiniteSet(now)
  BY ContextsCount
<1>2. then \subseteq now
  OBVIOUS
<1>3. Contexts(p)' = Cardinality(then) /\ Contexts(p) = Cardinality(now)
  BY DEF Contexts
<1> HIDE DEF now, then
<1>4. Cardinality(then) <= Cardinality(now)
  BY <1>1, <1>2, FS_Subset
<1> QED
  BY <1>3, <1>4

\* A new context adds one to its process.
LEMMA OneMoreContext ==
  ASSUME BrowserTypes, NEW p, NEW s \in Ids, home[s] # p, home'[s] = p,
         \A t \in Ids : t # s => home'[t] = home[t]
  PROVE  Contexts(p)' = Contexts(p) + 1
<1> DEFINE now == {t \in Ids : home[t] = p}
           then == {t \in Ids : home'[t] = p}
<1>1. IsFiniteSet(now)
  BY ContextsCount
<1>2. then = now \cup {s} /\ s \notin now
  OBVIOUS
<1>3. Contexts(p)' = Cardinality(then) /\ Contexts(p) = Cardinality(now)
  BY DEF Contexts
<1> HIDE DEF now, then
<1>4. Cardinality(then) = Cardinality(now) + 1
  BY <1>1, <1>2, FS_AddElement
<1> QED
  BY <1>3, <1>4

\* A process without sessions holds no context.
LEMMA NoContexts ==
  ASSUME BrowserTypes, NEW p, Contexts(p) = 0
  PROVE  \A s \in Ids : home[s] # p
<1> DEFINE now == {s \in Ids : home[s] = p}
<1>1. IsFiniteSet(now)
  BY ContextsCount
<1>2. Contexts(p) = Cardinality(now)
  BY DEF Contexts
<1>3. now = {}
  <2> HIDE DEF now
  <2> QED
    BY <1>1, <1>2, FS_EmptySet
<1> QED
  BY <1>3

LEMMA EmptyProcess ==
  ASSUME NEW p, {s \in Ids : home[s] = p} = {}
  PROVE  Contexts(p) = 0
  BY FS_EmptySet DEF Contexts

LEMMA StepPool ==
  ASSUME BrowserInv, [BrowserNext]_browserVars
  PROVE  Pool'
<1>t. BrowserTypes /\ Pool
  BY DEF BrowserInv
\* Contexts are given up, or stay as they are, in the processes there are.
<1>1. ASSUME UNCHANGED processes, \A s \in Ids : home'[s] = home[s] \/ home'[s] = 0,
             \A s \in page' : s \in page /\ home'[s] = home[s]
      PROVE  Pool'
  <2>0. \A p \in processes : p # 0
    BY <1>t DEF Pool, Processes
  <2>1. \A p \in processes : {s \in Ids : home'[s] = p} \subseteq {s \in Ids : home[s] = p}
    BY <1>1, <2>0
  <2>2. ASSUME NEW p \in processes PROVE Contexts(p)' <= MaxContexts
    <3>1. Contexts(p)' <= Contexts(p)
      BY <1>t, <2>1, FewerContexts
    <3>2. Contexts(p) <= MaxContexts /\ Contexts(p) \in Nat
      BY <1>t, ContextsCount DEF Pool
    <3>3. Contexts(p)' \in Nat
      <4>1. IsFiniteSet({s \in Ids : home[s] = p})
        BY <1>t, ContextsCount
      <4>2. IsFiniteSet({s \in Ids : home'[s] = p})
        BY <2>1, <4>1, FS_Subset
      <4> QED
        BY <4>2, FS_CardinalityType DEF Contexts
    <3> QED
      BY <3>1, <3>2, <3>3, BrowserAssumption
  <2>3. \A p \in processes' : Contexts(p)' <= MaxContexts
    BY <1>1, <2>2
  <2> QED
    BY <1>1, <1>t, <2>3 DEF Pool
<1>2. ASSUME NEW a \in Agents, Navigate(a) PROVE Pool'
  <2> DEFINE s == toolCall[a].id
  <2>0. PICK p : p = home'[s]
    OBVIOUS
  <2>1. s \in Ids /\ Housed(s) /\ page' \in {page, page \cup {s}}
    BY <1>2, <1>t, NavigateIs
  <2>2. \A r \in page' : home'[r] # 0
    BY <1>t, <2>1 DEF Housed, Pool, BrowserTypes
  <2>3. CASE home' = home /\ processes' = processes
    <3>1. \A q : Contexts(q)' = Contexts(q)
      BY <2>3 DEF Contexts
    <3> QED
      BY <1>t, <2>2, <2>3, <3>1 DEF Pool
  <2>4. CASE home[s] = 0 /\ Acquire(p) /\ processes' = processes \cup {p}
    <3>1. p \in Processes /\ p # 0
      BY <2>0, <2>1 DEF Housed
    <3>2. Contexts(p)' = Contexts(p) + 1
      BY <1>t, <2>0, <2>1, <2>4, <3>1, OneMoreContext DEF Housed
    <3>3. Contexts(p) \in Nat /\ Contexts(p) < MaxContexts
      <4>1. CASE p \in processes /\ Contexts(p) < MaxContexts
        BY <1>t, <4>1, ContextsCount
      <4>2. CASE p \notin processes
        <5>1. {r \in Ids : home[r] = p} = {}
          BY <1>t, <3>1, <4>2 DEF Pool
        <5>2. Contexts(p) = 0
          BY <5>1, EmptyProcess
        <5> QED
          BY <5>2, BrowserAssumption
      <4> QED
        BY <2>4, <4>1, <4>2 DEF Acquire
    <3>4. ASSUME NEW q \in processes', q # p PROVE Contexts(q)' <= MaxContexts
      <4>1. q \in processes /\ q # 0
        BY <1>t, <2>4, <3>4 DEF Pool, Processes
      <4>2. {r \in Ids : home'[r] = q} = {r \in Ids : home[r] = q}
        BY <2>0, <2>1, <2>4, <3>4, <4>1 DEF Housed
      <4>3. Contexts(q)' = Contexts(q)
        BY <4>2 DEF Contexts
      <4> QED
        BY <1>t, <4>1, <4>3 DEF Pool
    <3>5. Contexts(p)' <= MaxContexts
      BY <3>2, <3>3, BrowserAssumption
    <3>6. \A r \in Ids : home'[r] \in processes' \cup {0}
      BY <1>t, <2>0, <2>1, <2>4 DEF Housed, Pool
    <3>7. processes' \subseteq Processes
      BY <1>t, <2>4, <3>1 DEF Pool
    <3>8. \A q \in processes' : Contexts(q)' <= MaxContexts
      BY <3>4, <3>5
    <3> QED
      BY <2>2, <3>6, <3>7, <3>8 DEF Pool
  <2> QED
    BY <2>0, <2>1, <2>3, <2>4 DEF Housed
<1>3. ASSUME NEW p \in Processes, RecycleBloated(p) PROVE Pool'
  <2>1. /\ processes' = processes \ {p} /\ UNCHANGED <<home, page>> /\ Contexts(p) = 0
    BY <1>3, RecycleIs DEF sessionVars
  <2>2. \A s \in Ids : home[s] # p
    BY <1>t, <2>1, NoContexts
  <2>3. \A q : Contexts(q)' = Contexts(q)
    BY <2>1 DEF Contexts
  <2> QED
    BY <1>t, <2>1, <2>2, <2>3 DEF Pool
<1>4. CASE Restarting
  <2>1. home' = [s \in Ids |-> 0] /\ page' = {} /\ processes' = {1}
    BY <1>4, <1>t, RestartingIs
  <2>2. {s \in Ids : home'[s] = 1} = {}
    BY <2>1
  <2>3. Contexts(1)' = 0
    BY <2>2, FS_EmptySet DEF Contexts
  <2>4. \A p \in processes' : Contexts(p)' <= MaxContexts
    BY <2>1, <2>3, BrowserAssumption
  <2>5. processes' \subseteq Processes
    BY <2>1, BrowserAssumption DEF Processes
  <2> QED
    BY <2>1, <2>4, <2>5 DEF Pool
<1>5. CASE Evicting
  <2>1. PICK s \in Ids : EvictionOf(s)
    BY <1>5, <1>t, EvictingIs
  <2>2. \A r \in Ids : home'[r] = home[r] \/ home'[r] = 0
    BY <1>t, <2>1 DEF EvictionOf, BrowserTypes
  <2>3. \A r \in page' : r \in page /\ home'[r] = home[r]
    BY <1>t, <2>1 DEF EvictionOf, BrowserTypes
  <2> QED
    BY <1>1, <1>5, <1>t, <2>2, <2>3, EvictingIs
<1>6. ASSUME NEW a \in Agents, CloseContext(a) PROVE Pool'
  <2> DEFINE s == toolCall[a].id
  <2>1. home' = [home EXCEPT ![s] = 0] /\ page' = page \ {s} /\ UNCHANGED processes /\ s \in Ids
    BY <1>6, <1>t, CloseContextIs
  <2>2. \A r \in Ids : home'[r] = home[r] \/ home'[r] = 0
    BY <1>t, <2>1 DEF BrowserTypes
  <2>3. \A r \in page' : r \in page /\ home'[r] = home[r]
    BY <1>t, <2>1 DEF BrowserTypes
  <2> QED
    BY <1>1, <2>1, <2>2, <2>3
<1>7. CASE UNCHANGED <<home, page, processes>>
  BY <1>1, <1>7
<1>8. ASSUME NEW a \in Agents, Starting(a) \/ Creating(a) \/ Passing(a)
      PROVE  UNCHANGED <<home, page, processes>>
  BY <1>8, <1>t, StartingIs, CreatingIs, PassingIs DEF sessionVars
<1>9. ASSUME NEW a \in Agents, SaveNew(a) \/ BindChat(a) \/ UsePage(a) \/ touch(a)
      PROVE  UNCHANGED <<home, page, processes>>
  BY <1>9, <1>t, SaveNewIs, BindChatIs, UsePageIs, touchIs
<1>10. ASSUME NEW a \in Agents, DeleteSession(a) \/ DeleteRow(a)
       PROVE  UNCHANGED <<home, page, processes>>
  BY <1>10, <1>t, DeleteSessionIs, DeleteRowIs
<1>11. CASE Clearing \/ Inject \/ Shutdown \/ UNCHANGED browserVars
  <2>1. UNCHANGED <<home, page, processes>>
    BY <1>11, <1>t, ClearingIs, InjectIs, ShutdownIs DEF sessionVars, browserVars
  <2> QED
    BY <1>7, <2>1
<1> QED
  BY <1>2, <1>3, <1>4, <1>5, <1>6, <1>7, <1>8, <1>9, <1>10, <1>11, BrowserCases

LEMMA StepNumbers ==
  ASSUME BrowserInv, [BrowserNext]_browserVars
  PROVE  Numbers'
<1>t. BrowserTypes /\ Numbers
  BY DEF BrowserInv
<1>n. seq \in Nat /\ (\A s \in Ids : s \in Nat) /\ \A a \in Agents : toolCall[a].id \in Nat
  BY <1>t, BrowserAssumption DEF BrowserTypes, Ids, CallSet
<1>b. \A c \in Chats : byChat[c] \in Nat
  BY <1>t, BrowserAssumption DEF BrowserTypes
<1>v. victim \in Nat
  BY <1>t, BrowserAssumption DEF BrowserTypes
<1>c. ASSUME NEW a \in Agents, NEW x, Advanced(a, x) \/ Dropped(a)
      PROVE  \A b \in Agents : toolCall'[b].id <= seq
  BY <1>c, <1>n, <1>t, NoCallIs DEF Advanced, Dropped, Numbers
<1>2. ASSUME NEW a \in Agents, Starting(a) PROVE Numbers'
  <2>1. PICK op \in {"open", "write", "read", "close"}, s \in table, c \in Chats \cup {NoChat},
             step0 \in {"gate", "page", "release"} : Begun(a, op, s, c, step0)
    BY <1>2, <1>t, StartingIs
  <2>2. \A b \in Agents : toolCall'[b].id <= seq
    BY <1>t, <2>1 DEF Begun, Numbers
  <2>3. UNCHANGED <<seq, table, byChat, home, row, told, victim>>
    BY <1>2, <1>t, StartingIs DEF sessionVars
  <2> QED
    BY <1>t, <2>2, <2>3 DEF Numbers
<1>3. ASSUME NEW a \in Agents, Creating(a) PROVE Numbers'
  <2>1. PICK c \in Chats \cup {NoChat} : Begun(a, "open", seq + 1, c, "save")
    BY <1>3, <1>t, CreatingIs
  <2>2. seq' = seq + 1 /\ table' = table \cup {seq + 1}
        /\ UNCHANGED <<byChat, home, row, told, victim>>
    BY <1>3, <1>t, CreatingIs
  <2>3. \A b \in Agents : toolCall'[b].id <= seq + 1
    BY <1>n, <1>t, <2>1 DEF Begun, Numbers
  <2>4. \A s \in table' \cup told' : s <= seq + 1
    BY <1>n, <1>t, <2>2 DEF Numbers, BrowserTypes
  <2>5. \A d \in Chats : byChat'[d] <= seq + 1
    BY <1>n, <1>b, <1>t, <2>2 DEF Numbers
  <2>6. victim' <= seq + 1 /\ \A s \in Ids : home'[s] # 0 \/ row'[s] # NoRow => s <= seq + 1
    BY <1>n, <1>v, <1>t, <2>2 DEF Numbers
  <2> QED
    BY <2>2, <2>3, <2>4, <2>5, <2>6 DEF Numbers
<1>4. ASSUME NEW a \in Agents, Passing(a) PROVE Numbers'
  <2>1. (Advanced(a, "act") \/ Advanced(a, "page") \/ Dropped(a))
        /\ UNCHANGED <<seq, table, byChat, home, row, told, victim>>
    BY <1>4, <1>t, PassingIs DEF sessionVars
  <2>2. \A b \in Agents : toolCall'[b].id <= seq
    BY <1>c, <2>1
  <2> QED
    BY <1>t, <2>1, <2>2 DEF Numbers
<1>5. ASSUME NEW a \in Agents, Navigate(a) PROVE Numbers'
  <2>1. (Advanced(a, "touch") \/ Dropped(a)) /\ Housed(toolCall[a].id) /\ toolCall[a].id \in Ids
        /\ UNCHANGED <<seq, table, byChat, row, told, victim>>
    BY <1>5, <1>t, NavigateIs DEF Goes1, Ends
  <2>2. \A b \in Agents : toolCall'[b].id <= seq
    BY <1>c, <2>1
  <2>3. \A s \in Ids : home'[s] # 0 => s <= seq
    BY <1>t, <2>1 DEF Numbers, Housed
  <2> QED
    BY <1>t, <2>1, <2>2, <2>3 DEF Numbers
<1>6. ASSUME NEW a \in Agents, UsePage(a) PROVE Numbers'
  <2>1. (Advanced(a, "touch") \/ Dropped(a)) /\ UNCHANGED <<seq, table, byChat, home, row, told, victim>>
    BY <1>6, <1>t, UsePageIs DEF Goes1, Ends
  <2>2. \A b \in Agents : toolCall'[b].id <= seq
    BY <1>c, <2>1
  <2> QED
    BY <1>t, <2>1, <2>2 DEF Numbers
<1>7. ASSUME NEW a \in Agents, touch(a) PROVE Numbers'
  <2>1. Dropped(a) /\ UNCHANGED <<seq, table, byChat, home, row, victim>>
        /\ (told' = told \/ told' = told \cup {toolCall[a].id})
    BY <1>7, <1>t, touchIs DEF Ends
  <2>2. \A b \in Agents : toolCall'[b].id <= seq
    BY <1>c, <2>1
  <2>3. \A s \in told' : s <= seq
    BY <1>t, <2>1 DEF Numbers
  <2> QED
    BY <1>t, <2>1, <2>2, <2>3 DEF Numbers
<1>8. ASSUME NEW a \in Agents, SaveNew(a) PROVE Numbers'
  <2>1. Advanced(a, "bind") /\ UNCHANGED <<seq, table, byChat, home, told, victim>>
        /\ row' \in {row, [row EXCEPT ![toolCall[a].id] = 0]}
    BY <1>8, <1>t, SaveNewIs
  <2>2. \A b \in Agents : toolCall'[b].id <= seq
    BY <1>c, <2>1
  <2>3. \A s \in Ids : row'[s] # NoRow => s <= seq
    BY <1>t, <2>1 DEF Numbers, BrowserTypes
  <2> QED
    BY <1>t, <2>1, <2>2, <2>3 DEF Numbers
<1>9. ASSUME NEW a \in Agents, BindChat(a) PROVE Numbers'
  <2>1. Advanced(a, "gate") /\ UNCHANGED <<seq, table, home, row, told, victim>>
        /\ byChat' = [c \in Chats |-> IF c = toolCall[a].chat THEN toolCall[a].id ELSE byChat[c]]
    BY <1>9, <1>t, BindChatIs
  <2>2. \A b \in Agents : toolCall'[b].id <= seq
    BY <1>c, <2>1
  <2>3. \A c \in Chats : byChat'[c] <= seq
    BY <1>t, <2>1 DEF Numbers
  <2> QED
    BY <1>t, <2>1, <2>2, <2>3 DEF Numbers
<1>10. ASSUME NEW a \in Agents, CloseContext(a) PROVE Numbers'
  <2>1. Advanced(a, "delete") /\ UNCHANGED <<seq, table, byChat, row, told, victim>>
        /\ home' = [home EXCEPT ![toolCall[a].id] = 0]
    BY <1>10, <1>t, CloseContextIs
  <2>2. \A b \in Agents : toolCall'[b].id <= seq
    BY <1>c, <2>1
  <2>3. \A s \in Ids : home'[s] # 0 => s <= seq
    BY <1>t, <2>1 DEF Numbers, BrowserTypes
  <2> QED
    BY <1>t, <2>1, <2>2, <2>3 DEF Numbers
<1>11. ASSUME NEW a \in Agents, DeleteSession(a) PROVE Numbers'
  <2>1. Advanced(a, "row") /\ UNCHANGED <<seq, home, row, told, victim>>
        /\ table' = table \ {toolCall[a].id}
        /\ byChat' = [c \in Chats |-> IF byChat[c] = toolCall[a].id THEN 0 ELSE byChat[c]]
    BY <1>11, <1>t, DeleteSessionIs
  <2>2. \A b \in Agents : toolCall'[b].id <= seq
    BY <1>c, <2>1
  <2>3. \A c \in Chats : byChat'[c] <= seq
    BY <1>n, <1>t, <2>1 DEF Numbers
  <2> QED
    BY <1>t, <2>1, <2>2, <2>3 DEF Numbers
<1>12. ASSUME NEW a \in Agents, DeleteRow(a) PROVE Numbers'
  <2>1. Dropped(a) /\ UNCHANGED <<seq, table, byChat, home, told, victim>>
        /\ row' \in {row, [row EXCEPT ![toolCall[a].id] = NoRow]}
    BY <1>12, <1>t, DeleteRowIs DEF Ends
  <2>2. \A b \in Agents : toolCall'[b].id <= seq
    BY <1>c, <2>1
  <2>3. \A s \in Ids : row'[s] # NoRow => s <= seq
    BY <1>t, <2>1 DEF Numbers, BrowserTypes
  <2> QED
    BY <1>t, <2>1, <2>2, <2>3 DEF Numbers
<1>13. CASE Clearing
  <2>1. UNCHANGED <<seq, table, byChat, home, row, toolCall, told>>
        /\ (victim' # victim => victim' <= seq)
    BY <1>13, <1>t, ClearingIs
  <2>2. victim' <= seq
    BY <1>t, <2>1 DEF Numbers
  <2> QED
    BY <1>t, <2>1, <2>2 DEF Numbers
<1>14. CASE Inject
  <2>1. UNCHANGED <<seq, table, byChat, home, row, toolCall, told, victim>>
    BY <1>14, <1>t, InjectIs
  <2> QED
    BY <1>t, <2>1 DEF Numbers
<1>15. CASE Evicting
  <2>1. PICK s \in Ids : EvictionOf(s)
    BY <1>15, <1>t, EvictingIs
  <2>2. \A r \in Ids : home'[r] # 0 \/ row'[r] # NoRow => r <= seq
    BY <1>t, <2>1 DEF Numbers, EvictionOf, BrowserTypes
  <2>3. victim' <= seq /\ UNCHANGED <<seq, table, byChat, toolCall, told>>
    BY <1>15, <1>n, <1>t, EvictingIs DEF Numbers
  <2> QED
    BY <1>t, <2>2, <2>3 DEF Numbers
<1>16. CASE Restarting
  <2>1. /\ table' = {s \in Ids : row[s] # NoRow} /\ seq' \in Nat /\ told' = told \cap table'
        /\ \A s \in table' : s <= seq'
        /\ byChat' = [c \in Chats |-> 0] /\ home' = [s \in Ids |-> 0] /\ victim' = 0
        /\ toolCall' = [a \in Agents |-> NoCall] /\ row' = row
    BY <1>16, <1>t, RestartingIs, BrowserAssumption
  <2> QED
    BY <2>1, NoCallIs DEF Numbers
<1>17. CASE Shutdown \/ UNCHANGED browserVars
  <2>1. UNCHANGED <<seq, table, byChat, home, row, toolCall, told, victim>>
    BY <1>17, <1>t, ShutdownIs DEF sessionVars, browserVars, actorVars
  <2> QED
    BY <1>t, <2>1 DEF Numbers
<1>18. CASE \E p \in Processes : RecycleBloated(p)
  <2>1. UNCHANGED <<seq, table, byChat, home, row, toolCall, told, victim>>
    BY <1>18, RecycleIs DEF sessionVars, actorVars
  <2> QED
    BY <1>t, <2>1 DEF Numbers
<1> QED
  BY <1>2, <1>3, <1>4, <1>5, <1>6, <1>7, <1>8, <1>9, <1>10, <1>11, <1>12, <1>13, <1>14, <1>15,
     <1>16, <1>17, <1>18, BrowserCases

\* A step at one session leaves every other as it was.
SameAt(t) ==
  /\ t \in table' <=> t \in table
  /\ t \in told' <=> t \in told
  /\ t \in takeover' <=> t \in takeover
  /\ home'[t] = home[t] /\ login'[t] = login[t] /\ latest'[t] = latest[t] /\ row'[t] = row[t]
  /\ t \in overtaken' <=> t \in overtaken
  /\ t \in closed' <=> t \in closed

Elsewhere(s) == \A t \in Ids : t # s => SameAt(t)

\* A call goes on, with the session it has.
Going(a) ==
  \/ Passing(a) \/ Navigate(a) \/ UsePage(a) \/ touch(a) \/ SaveNew(a) \/ BindChat(a)
  \/ CloseContext(a) \/ DeleteSession(a) \/ DeleteRow(a)

LEMMA OvertakesOne ==
  ASSUME NEW s, overtaken' = Overtake(s)
  PROVE  \A t \in Ids : t # s => (t \in overtaken' <=> t \in overtaken)
  BY DEF Overtake

LEMMA GoingIs ==
  ASSUME BrowserTypes, NEW a \in Agents, Going(a)
  PROVE  /\ toolCall[a].step # "idle" /\ toolCall[a].id \in Ids
         /\ Elsewhere(toolCall[a].id)
         /\ seq' = seq
         /\ Dropped(a) \/ \E x \in StepOf \ {"save", "idle"} : Advanced(a, x)
         /\ \A c \in Chats : byChat'[c] \in {byChat[c], 0, toolCall[a].id}
<1> USE DEF BrowserTypes
<1> DEFINE s == toolCall[a].id
           Goal == /\ toolCall[a].step # "idle" /\ s \in Ids /\ Elsewhere(s) /\ seq' = seq
                   /\ Dropped(a) \/ \E x \in StepOf \ {"save", "idle"} : Advanced(a, x)
                   /\ \A c \in Chats : byChat'[c] \in {byChat[c], 0, s}
<1>0. {"act", "page", "touch", "bind", "gate", "delete", "row"} \subseteq StepOf \ {"save", "idle"}
  BY DEF StepOf
<1>1. CASE Passing(a)
  <2>1. /\ toolCall[a].step # "idle"
        /\ Dropped(a) \/ Advanced(a, "act") \/ Advanced(a, "page")
    BY <1>1, PassingIs
  <2>2. UNCHANGED <<sessionVars, told, latest, overtaken, closed>>
    BY <1>1, PassingIs
  <2>3. s \in Ids
    BY <2>1, UnderWay
  <2>4. Elsewhere(s) /\ seq' = seq /\ byChat' = byChat
    BY <2>2 DEF Elsewhere, SameAt, sessionVars
  <2> QED
    BY <1>0, <1>1, <2>1, <2>3, <2>4, PassingIs
<1>2. CASE Navigate(a)
  <2>1. /\ toolCall[a].step = "act" /\ s \in Ids /\ (Dropped(a) \/ Advanced(a, "touch"))
        /\ Housed(s) /\ latest' = [latest EXCEPT ![s] = login'[s]]
        /\ \A t \in Ids : t # s => login'[t] = login[t]
        /\ overtaken' = Overtake(s)
        /\ UNCHANGED <<seq, table, byChat, takeover, row, told, closed>>
    BY <1>2, NavigateIs DEF Goes1, Ends
  <2>2. Elsewhere(s)
    BY <2>1, OvertakesOne DEF Elsewhere, SameAt, Housed
  <2> QED
    BY <1>0, <2>1, <2>2
<1>3. CASE UsePage(a)
  <2>1. /\ toolCall[a].step = "act" /\ s \in Ids /\ (Dropped(a) \/ Advanced(a, "touch"))
        /\ LoggedIn(s) \/ UNCHANGED <<login, latest>>
        /\ UNCHANGED <<seq, table, byChat, home, takeover, row, told, overtaken, closed>>
    BY <1>3, UsePageIs DEF Goes1, Ends
  <2>2. Elsewhere(s)
    BY <2>1 DEF Elsewhere, SameAt, LoggedIn
  <2> QED
    BY <1>0, <2>1, <2>2
<1>4. CASE touch(a)
  <2>1. /\ toolCall[a].step = "touch" /\ s \in Ids /\ Dropped(a)
        /\ (told' = told \/ told' = told \cup {s})
        /\ UNCHANGED <<seq, table, byChat, home, login, takeover, row, latest, overtaken, closed>>
    BY <1>4, touchIs DEF Ends
  <2>2. Elsewhere(s)
    BY <2>1 DEF Elsewhere, SameAt
  <2> QED
    BY <2>1, <2>2
<1>5. CASE SaveNew(a)
  <2>1. /\ toolCall[a].step = "save" /\ s \in Ids /\ Advanced(a, "bind")
        /\ row' \in {row, [row EXCEPT ![s] = 0]} /\ overtaken' = Overtake(s)
        /\ UNCHANGED <<seq, table, byChat, home, login, takeover, told, latest, closed>>
    BY <1>5, SaveNewIs
  <2>2. Elsewhere(s)
    BY <2>1, OvertakesOne DEF Elsewhere, SameAt
  <2> QED
    BY <1>0, <2>1, <2>2
<1>6. CASE BindChat(a)
  <2>1. /\ toolCall[a].step = "bind" /\ s \in Ids /\ Advanced(a, "gate")
        /\ byChat' = [c \in Chats |-> IF c = toolCall[a].chat THEN toolCall[a].id ELSE byChat[c]]
        /\ UNCHANGED <<seq, table, home, login, takeover, row, told, latest, overtaken, closed>>
    BY <1>6, BindChatIs DEF browserGhosts
  <2>2. Elsewhere(s)
    BY <2>1 DEF Elsewhere, SameAt
  <2> QED
    BY <1>0, <2>1, <2>2
<1>7. CASE CloseContext(a)
  <2>1. /\ toolCall[a].step = "release" /\ s \in Ids /\ Advanced(a, "delete")
        /\ home' = [home EXCEPT ![s] = 0] /\ takeover' = takeover \ {s}
        /\ login' = [login EXCEPT ![s] = 0] /\ latest' = [latest EXCEPT ![s] = Saved(s)]
        /\ UNCHANGED <<seq, table, byChat, row, told, overtaken, closed>>
    BY <1>7, CloseContextIs
  <2>2. Elsewhere(s)
    BY <2>1 DEF Elsewhere, SameAt
  <2> QED
    BY <1>0, <2>1, <2>2
<1>8. CASE DeleteSession(a)
  <2>1. /\ toolCall[a].step = "delete" /\ s \in Ids /\ Advanced(a, "row")
        /\ table' = table \ {s} /\ byChat' = [c \in Chats |-> IF byChat[c] = s THEN 0 ELSE byChat[c]]
        /\ UNCHANGED <<seq, home, login, takeover, row, told, latest, overtaken, closed>>
    BY <1>8, DeleteSessionIs DEF browserGhosts
  <2>2. Elsewhere(s)
    BY <2>1 DEF Elsewhere, SameAt
  <2> QED
    BY <1>0, <2>1, <2>2
<1>9. CASE DeleteRow(a)
  <2>1. /\ toolCall[a].step = "row" /\ s \in Ids /\ Dropped(a)
        /\ \/ row' = [row EXCEPT ![s] = NoRow] /\ closed' = closed \cup {s}
           \/ UNCHANGED <<row, closed>>
        /\ UNCHANGED <<seq, table, byChat, home, login, takeover, told, latest, overtaken>>
    BY <1>9, DeleteRowIs DEF Ends
  <2>2. Elsewhere(s)
    BY <2>1 DEF Elsewhere, SameAt
  <2> QED
    BY <2>1, <2>2
<1> QED
  BY <1>1, <1>2, <1>3, <1>4, <1>5, <1>6, <1>7, <1>8, <1>9 DEF Going

\* The cases again, the steps of a call that goes on taken together.
LEMMA BrowserSteps ==
  ASSUME BrowserTypes, [BrowserNext]_browserVars
  PROVE  \/ \E a \in Agents : Starting(a) \/ Creating(a) \/ Going(a)
         \/ Clearing \/ Inject \/ Evicting \/ Restarting
         \/ UNCHANGED <<seq, table, byChat, home, page, login, takeover, row, toolCall, told,
                        human, victim, browserGhosts>>
<1>1. CASE Shutdown
  BY <1>1, ShutdownIs DEF sessionVars
<1>2. CASE \E p \in Processes : RecycleBloated(p)
  BY <1>2, RecycleIs DEF sessionVars, actorVars
<1>3. CASE UNCHANGED browserVars
  BY <1>3 DEF browserVars, sessionVars, actorVars
<1> QED
  BY <1>1, <1>2, <1>3, BrowserCases DEF Going

LEMMA StepNewborn ==
  ASSUME BrowserInv, [BrowserNext]_browserVars
  PROVE  Newborn'
<1>t. BrowserTypes /\ Newborn /\ Numbers
  BY DEF BrowserInv
<1>0. SUFFICES ASSUME NEW a \in Agents, toolCall'[a].step = "save" PROVE Unborn(a)'
  BY DEF Newborn
<1> DEFINE s == toolCall[a].id
<1>u. ASSUME toolCall[a].step = "save" PROVE Unborn(a) /\ s \in Ids
  BY <1>u, <1>t, UnderWay DEF Newborn
<1>1. ASSUME NEW b \in Agents, Starting(b) PROVE Unborn(a)'
  <2>1. PICK op \in {"open", "write", "read", "close"}, r \in table, c \in Chats \cup {NoChat},
             step0 \in {"gate", "page", "release"} :
          Begun(b, op, r, c, step0) /\ (r \in told \/ \E d \in Chats : byChat[d] = r)
    BY <1>1, <1>t, StartingIs
  <2>2. b # a /\ toolCall'[a] = toolCall[a] /\ toolCall'[b].id = r
    BY <1>0, <2>1 DEF Begun
  <2>3. Unborn(a)
    BY <1>0, <1>u, <2>2
  <2>4. r # s
    BY <2>1, <2>3 DEF Unborn
  <2>5. UNCHANGED <<table, byChat, home, row, told, latest>>
    BY <1>1, <1>t, StartingIs DEF sessionVars, browserGhosts
  <2>6. \A d \in Agents : d # a => toolCall'[d].id # s
    BY <2>1, <2>2, <2>3, <2>4 DEF Begun, Unborn
  <2> QED
    BY <2>2, <2>3, <2>5, <2>6 DEF Unborn
<1>2. ASSUME NEW b \in Agents, Creating(b) PROVE Unborn(a)'
  <2>0. seq \in Nat /\ \A t \in Ids : t \in Nat
    BY <1>t, BrowserAssumption DEF BrowserTypes, Ids
  <2>1. PICK c \in Chats \cup {NoChat} : Begun(b, "open", seq + 1, c, "save")
    BY <1>2, <1>t, CreatingIs
  <2>2. seq + 1 \in Ids /\ table' = table \cup {seq + 1} /\ latest' = [latest EXCEPT ![seq + 1] = 0]
        /\ UNCHANGED <<byChat, home, row, told>>
    BY <1>2, <1>t, CreatingIs
  <2>3. ~(seq + 1 <= seq)
    BY <2>0
  <2>4. \A d \in Agents : toolCall[d].id # seq + 1
    BY <1>t, <2>3 DEF Numbers
  <2>5. CASE a = b
    <3>1. toolCall'[a].id = seq + 1
      BY <2>1, <2>5 DEF Begun
    <3>2. seq + 1 \notin told /\ home[seq + 1] = 0 /\ row[seq + 1] = NoRow
          /\ \A d \in Chats : byChat[d] # seq + 1
      BY <1>t, <2>2, <2>3 DEF Numbers
    <3>3. latest'[seq + 1] = 0
      BY <1>t, <2>2 DEF BrowserTypes
    <3>4. \A d \in Agents : d # a => toolCall'[d].id # seq + 1
      BY <2>1, <2>4, <2>5 DEF Begun
    <3> QED
      BY <2>2, <3>1, <3>2, <3>3, <3>4 DEF Unborn
  <2>6. CASE a # b
    <3>1. toolCall'[a] = toolCall[a] /\ toolCall'[b].id = seq + 1
      BY <2>1, <2>6 DEF Begun
    <3>2. Unborn(a) /\ s \in Ids
      BY <1>0, <1>u, <3>1
    <3>3. s # seq + 1
      BY <2>4
    <3>4. latest'[s] = latest[s]
      BY <1>t, <2>2, <3>2, <3>3 DEF BrowserTypes
    <3>5. \A d \in Agents : d # a => toolCall'[d].id # s
      BY <2>1, <3>1, <3>2, <3>3 DEF Begun, Unborn
    <3> QED
      BY <2>2, <3>1, <3>2, <3>4, <3>5 DEF Unborn
  <2> QED
    BY <2>5, <2>6
<1>3. ASSUME NEW b \in Agents, Going(b) PROVE Unborn(a)'
  <2>1. /\ toolCall[b].step # "idle" /\ Elsewhere(toolCall[b].id) /\ toolCall[b].id \in Ids
        /\ Dropped(b) \/ \E x \in StepOf \ {"save", "idle"} : Advanced(b, x)
        /\ \A c \in Chats : byChat'[c] \in {byChat[c], 0, toolCall[b].id}
    BY <1>3, <1>t, GoingIs
  <2>2. a # b
    BY <1>0, <2>1, NoCallIs DEF Dropped, Advanced
  <2>3. toolCall'[a] = toolCall[a]
    BY <2>1, <2>2 DEF Dropped, Advanced
  <2>4. Unborn(a) /\ s \in Ids
    BY <1>0, <1>u, <2>3
  <2>5. toolCall[b].id # s
    BY <2>2, <2>4 DEF Unborn
  <2>6. SameAt(s)
    BY <2>1, <2>4, <2>5 DEF Elsewhere
  <2>7. \A d \in Agents : d # a => toolCall'[d].id # s
    <3>1. s # 0
      BY <2>4 DEF Ids
    <3>2. toolCall'[b].id \in {0, toolCall[b].id} /\ \A d \in Agents : d # b => toolCall'[d] = toolCall[d]
      BY <2>1, NoCallIs DEF Dropped, Advanced
    <3> QED
      BY <2>4, <2>5, <3>1, <3>2 DEF Unborn
  <2>8. \A c \in Chats : byChat'[c] # s
    <3>1. s # 0
      BY <2>4 DEF Ids
    <3> QED
      BY <2>1, <2>4, <2>5, <3>1 DEF Unborn
  <2> QED
    BY <2>3, <2>4, <2>6, <2>7, <2>8 DEF Unborn, SameAt
<1>4. CASE Restarting
  <2>1. toolCall' = [d \in Agents |-> NoCall]
    BY <1>4, <1>t, RestartingIs
  <2> QED
    BY <1>0, <2>1, NoCallIs
<1>5. CASE Evicting
  <2>1. UNCHANGED <<table, byChat, toolCall, told, latest>>
    BY <1>5, <1>t, EvictingIs DEF browserGhosts
  <2>2. Unborn(a) /\ s \in Ids
    BY <1>0, <1>u, <2>1
  <2>3. PICK r \in Ids : EvictionOf(r)
    BY <1>5, <1>t, EvictingIs
  <2>4. home'[s] = 0 /\ row'[s] = row[s]
    BY <1>t, <2>2, <2>3 DEF EvictionOf, Unborn, BrowserTypes
  <2> QED
    BY <2>1, <2>2, <2>4 DEF Unborn
<1>6. ASSUME UNCHANGED <<table, byChat, home, row, toolCall, told, latest>>
      PROVE  Unborn(a)'
  BY <1>0, <1>6, <1>u DEF Unborn
<1>7. CASE Clearing \/ Inject
  <2>1. CASE Clearing
    BY <1>6, <2>1, <1>t, ClearingIs
  <2>2. CASE Inject
    <3>1. UNCHANGED <<table, byChat, home, row, toolCall, told>> /\ human \in Ids
          /\ (LoggedIn(human) \/ UNCHANGED <<login, latest>>)
      BY <2>2, <1>t, InjectIs
    <3>2. Unborn(a) /\ s \in Ids
      BY <1>0, <1>u, <3>1
    <3>3. latest'[s] = latest[s]
      <4>1. LoggedIn(human) => human # s
        BY <3>2 DEF BrowserInv, Pool, Unborn, LoggedIn
      <4> QED
        BY <1>t, <3>1, <3>2, <4>1 DEF LoggedIn, BrowserTypes
    <3> QED
      BY <3>1, <3>2, <3>3 DEF Unborn
  <2> QED
    BY <1>7, <2>1, <2>2
<1>8. CASE UNCHANGED <<seq, table, byChat, home, page, login, takeover, row, toolCall, told,
                       human, victim, browserGhosts>>
  BY <1>6, <1>8 DEF browserGhosts
<1> QED
  BY <1>1, <1>2, <1>3, <1>4, <1>5, <1>7, <1>8, <1>t, BrowserSteps

\* The sessions and calls that a step leaves alone stay owned.
LEMMA OwnedElsewhere ==
  ASSUME BrowserInv, NEW a \in Agents, toolCall[a].id \in Ids, Elsewhere(toolCall[a].id),
         Dropped(a) \/ \E x : Advanced(a, x)
  PROVE  /\ \A s \in Ids : s # toolCall[a].id => OwnedSession(s)'
         /\ \A b \in Agents : toolCall[b].id # toolCall[a].id => OwnedCall(b)'
<1>1. \A b \in Agents : b # a => toolCall'[b] = toolCall[b]
  BY DEF Dropped, Advanced
<1>2. ASSUME NEW s \in Ids, s # toolCall[a].id PROVE OwnedSession(s)'
  <2>1. SameAt(s) /\ OwnedSession(s)
    BY <1>2 DEF Elsewhere, BrowserInv, Owned
  <2>2. ASSUME NEW b \in Agents, Is(b, "close", s) PROVE Is(b, "close", s)'
    <3>1. b # a
      BY <1>2, <2>2 DEF Is
    <3> QED
      BY <1>1, <2>2, <3>1 DEF Is
  <2> QED
    BY <2>1, <2>2 DEF OwnedSession, SameAt
<1>3. ASSUME NEW b \in Agents, toolCall[b].id # toolCall[a].id PROVE OwnedCall(b)'
  <2>1. toolCall'[b] = toolCall[b] /\ OwnedCall(b)
    BY <1>1, <1>3 DEF BrowserInv, Owned
  <2>2. CASE toolCall[b].step = "idle"
    BY <2>1, <2>2 DEF OwnedCall
  <2>3. CASE toolCall[b].step # "idle"
    <3>1. toolCall[b].id \in Ids
      BY <2>3, UnderWay DEF BrowserInv
    <3>2. SameAt(toolCall[b].id)
      BY <1>3, <3>1 DEF Elsewhere
    <3> QED
      BY <2>1, <3>2 DEF OwnedCall, SameAt
  <2> QED
    BY <2>2, <2>3
<1> QED
  BY <1>2, <1>3

\* ... so that a step need only be looked at where it happens.
LEMMA OwnedHere ==
  ASSUME BrowserInv, NEW a \in Agents, Going(a), closed' \subseteq Ids,
         NEW r, r = toolCall[a].id, OwnedSession(r)',
         \A b \in Agents : toolCall[b].id = toolCall[a].id => OwnedCall(b)'
  PROVE  Owned'
<1>1. toolCall[a].id \in Ids /\ Elsewhere(toolCall[a].id) /\ (Dropped(a) \/ \E x : Advanced(a, x))
  BY GoingIs DEF BrowserInv
<1>2. /\ \A s \in Ids : s # toolCall[a].id => OwnedSession(s)'
      /\ \A b \in Agents : toolCall[b].id # toolCall[a].id => OwnedCall(b)'
  BY <1>1, OwnedElsewhere
<1>3. \A s \in Ids : OwnedSession(s)'
  <2>1. ASSUME NEW s \in Ids PROVE OwnedSession(s)'
    <3>1. CASE s = r
      BY <3>1
    <3>2. CASE s # r
      BY <1>2, <3>2
    <3> QED
      BY <3>1, <3>2
  <2> QED
    BY <2>1
<1>4. \A b \in Agents : OwnedCall(b)'
  BY <1>2
<1> QED
  BY <1>3, <1>4 DEF Owned

\* An overtaken session is marked, or is in the table with no close past its context.
LEMMA Overtaking ==
  ASSUME NEW s, overtaken' = Overtake(s)
  PROVE  /\ overtaken \subseteq overtaken'
         /\ s \notin table => s \in overtaken'
         /\ \A b \in Agents : Is(b, "close", s) /\ toolCall[b].step # "release" => s \in overtaken'
  BY DEF Overtake

LEMMA GoingOwned ==
  ASSUME BrowserInv, NEW a \in Agents, Going(a)
  PROVE  Owned'
<1>t. BrowserTypes /\ SortedCalls /\ Owned /\ closed \subseteq Ids
  BY DEF BrowserInv, BrowserTypes, Owned
<1>d. PICK s : s = toolCall[a].id
  OBVIOUS
<1> USE <1>d
<1>g. s \in Ids /\ toolCall[a].step # "idle" /\ (Dropped(a) \/ \E x : Advanced(a, x))
  BY <1>t, GoingIs
<1>s. OwnedSession(s) /\ \A b \in Agents : OwnedCall(b)
  BY <1>g DEF BrowserInv, Owned
<1>o. \A b \in Agents : b # a => toolCall'[b] = toolCall[b]
  BY <1>g DEF Dropped, Advanced
<1>n. NoCall.step = "idle" /\ NoCall.op = "none"
  BY NoCallIs
\* A step that does not close, and gives nobody a context, a place or a row.
<1>1. ASSUME toolCall[a].op # "close", Dropped(a) \/ \E x : Advanced(a, x),
             UNCHANGED <<table, home, row, overtaken, closed>>
      PROVE  Owned'
  <2>1. OwnedSession(s)'
    <3>1. ASSUME NEW b \in Agents, Is(b, "close", s) PROVE Is(b, "close", s)'
      BY <1>1, <1>o, <3>1 DEF Is
    <3> QED
      BY <1>1, <1>s, <3>1 DEF OwnedSession
  <2>2. toolCall'[a].step \notin {"delete", "row"}
    <3>1. toolCall'[a].op # "close"
      BY <1>1, <1>n DEF Dropped, Advanced
    <3>2. CASE Dropped(a)
      BY <3>2, <1>n DEF Dropped
    <3>3. CASE Passing(a) \/ touch(a) \/ SaveNew(a) \/ BindChat(a) \/ UsePage(a) \/ Navigate(a)
      BY <3>3, <1>t, <1>n, PassingIs, touchIs, SaveNewIs, BindChatIs, UsePageIs, NavigateIs
         DEF Dropped, Advanced, Goes1, Ends
    <3>4. CASE CloseContext(a) \/ DeleteSession(a) \/ DeleteRow(a)
      BY <1>1, <1>t, <3>4, CloseContextIs, DeleteSessionIs, DeleteRowIs DEF SortedCalls
    <3> QED
      BY <3>3, <3>4 DEF Going
  <2>3. ASSUME NEW b \in Agents, toolCall[b].id = s PROVE OwnedCall(b)'
    <3>1. CASE b = a
      BY <2>2, <3>1 DEF OwnedCall
    <3>2. CASE b # a
      BY <1>1, <1>o, <1>s, <3>2 DEF OwnedCall
    <3> QED
      BY <3>1, <3>2
  <2> QED
    BY <1>1, <1>t, <2>1, <2>3, OwnedHere
<1>2. CASE Passing(a) \/ touch(a) \/ UsePage(a) \/ BindChat(a)
  <2>1. toolCall[a].op # "close"
    BY <1>2, <1>t, PassingIs, touchIs, UsePageIs, BindChatIs DEF SortedCalls
  <2>2. UNCHANGED <<table, home, row, overtaken, closed>>
    BY <1>2, <1>t, PassingIs, touchIs, UsePageIs, BindChatIs DEF sessionVars, browserGhosts
  <2> QED
    BY <1>1, <1>g, <2>1, <2>2
<1>3. CASE Navigate(a)
  <2>1. /\ toolCall[a].op = "open" /\ overtaken' = Overtake(s) /\ UNCHANGED <<table, row, closed>>
        /\ (Dropped(a) \/ Advanced(a, "touch"))
    BY <1>3, <1>t, NavigateIs DEF Goes1, Ends
  <2>2. OwnedSession(s)'
    <3>1. s \in table \/ s \in overtaken'
      BY <2>1, Overtaking
    <3>2. s \notin closed' \ overtaken'
      BY <1>s, <2>1, <3>1, Overtaking DEF OwnedSession
    <3> QED
      BY <2>1, <3>1, <3>2 DEF OwnedSession
  <2>3. ASSUME NEW b \in Agents, toolCall[b].id = s PROVE OwnedCall(b)'
    <3>1. CASE b = a
      BY <1>n, <2>1, <3>1 DEF OwnedCall, Dropped, Advanced
    <3>2. CASE b # a
      <4>1. ASSUME toolCall[b].step \in {"delete", "row"} PROVE s \in overtaken'
        <5>1. Is(b, "close", s)
          BY <1>t, <2>3, <4>1 DEF Is, SortedCalls
        <5> QED
          BY <2>1, <4>1, <5>1, Overtaking
      <4>2. toolCall'[b] = toolCall[b]
        BY <1>o, <3>2
      <4>3. toolCall[b].step = "row" => toolCall[b].id \notin table
        BY <1>s DEF OwnedCall
      <4> QED
        BY <2>1, <2>3, <4>1, <4>2, <4>3 DEF OwnedCall
    <3> QED
      BY <3>1, <3>2
  <2> QED
    BY <1>t, <2>1, <2>2, <2>3, OwnedHere
<1>4. CASE SaveNew(a)
  <2>1. /\ toolCall[a].step = "save" /\ overtaken' = Overtake(s) /\ Advanced(a, "bind")
        /\ UNCHANGED <<table, home, closed>>
    BY <1>4, <1>t, SaveNewIs
  <2>2. Unborn(a)
    BY <2>1 DEF BrowserInv, Newborn
  <2>3. OwnedSession(s)'
    <3>1. s \in table /\ home[s] = 0
      BY <2>2 DEF Unborn
    <3>2. s \notin closed' \ overtaken'
      BY <1>s, <2>1, <3>1, Overtaking DEF OwnedSession
    <3> QED
      BY <2>1, <3>1, <3>2 DEF OwnedSession
  <2>4. ASSUME NEW b \in Agents, toolCall[b].id = s PROVE OwnedCall(b)'
    <3>1. b = a
      BY <2>2, <2>4 DEF Unborn
    <3> QED
      BY <2>1, <3>1 DEF OwnedCall, Advanced
  <2> QED
    BY <1>t, <2>1, <2>3, <2>4, OwnedHere
<1>5. CASE CloseContext(a)
  <2>1. /\ home' = [home EXCEPT ![s] = 0] /\ Advanced(a, "delete")
        /\ UNCHANGED <<table, row, overtaken, closed>>
    BY <1>5, <1>t, CloseContextIs
  <2>2. home'[s] = 0
    BY <1>g, <1>t, <2>1 DEF BrowserTypes
  <2>3. OwnedSession(s)'
    BY <1>s, <2>1, <2>2 DEF OwnedSession
  <2>4. ASSUME NEW b \in Agents, toolCall[b].id = s PROVE OwnedCall(b)'
    <3>1. toolCall'[b].id = s
      BY <1>o, <2>1, <2>4 DEF Advanced
    <3>2. toolCall'[b].step = "row" => s \notin table
      BY <1>o, <1>s, <2>1, <2>4 DEF Advanced, OwnedCall
    <3> QED
      BY <2>1, <2>2, <3>1, <3>2 DEF OwnedCall
  <2> QED
    BY <1>t, <2>1, <2>3, <2>4, OwnedHere
<1>6. CASE DeleteSession(a)
  <2>1. /\ toolCall[a].step = "delete" /\ Advanced(a, "row") /\ table' = table \ {s}
        /\ UNCHANGED <<home, row, overtaken, closed>>
    BY <1>6, <1>t, DeleteSessionIs DEF browserGhosts
  <2>2. Is(a, "close", s)'
    BY <1>t, <2>1 DEF Is, Advanced, SortedCalls
  <2>3. OwnedSession(s)'
    BY <1>s, <2>1, <2>2 DEF OwnedSession
  <2>4. ASSUME NEW b \in Agents, toolCall[b].id = s PROVE OwnedCall(b)'
    <3>1. toolCall'[b].id = s
      BY <1>o, <2>1, <2>4 DEF Advanced
    <3>2. toolCall'[b].step \in {"delete", "row"} => home[s] = 0 \/ s \in overtaken
      BY <1>o, <1>s, <2>1, <2>4 DEF Advanced, OwnedCall
    <3> QED
      BY <2>1, <3>1, <3>2 DEF OwnedCall
  <2> QED
    BY <1>t, <2>1, <2>3, <2>4, OwnedHere
<1>7. CASE DeleteRow(a)
  <2>1. /\ toolCall[a].step = "row" /\ Dropped(a) /\ UNCHANGED <<table, home, overtaken>>
        /\ \/ row' = [row EXCEPT ![s] = NoRow] /\ closed' = closed \cup {s}
           \/ UNCHANGED <<row, closed>>
    BY <1>7, <1>t, DeleteRowIs DEF Ends
  <2>2. (home[s] = 0 \/ s \in overtaken) /\ s \notin table
    BY <1>s, <2>1 DEF OwnedCall
  <2>3. row'[s] = NoRow \/ UNCHANGED <<row, closed>>
    BY <1>g, <1>t, <2>1 DEF BrowserTypes
  <2>4. OwnedSession(s)'
    BY <1>s, <2>1, <2>2, <2>3 DEF OwnedSession
  <2>5. ASSUME NEW b \in Agents, toolCall[b].id = s PROVE OwnedCall(b)'
    <3>1. CASE b = a
      BY <1>n, <2>1, <3>1 DEF OwnedCall, Dropped
    <3>2. CASE b # a
      BY <1>o, <1>s, <2>1, <3>2 DEF OwnedCall
    <3> QED
      BY <3>1, <3>2
  <2>6. closed' \subseteq Ids
    BY <1>g, <1>t, <2>1
  <2> QED
    BY <2>4, <2>5, <2>6, OwnedHere
<1> QED
  BY <1>2, <1>3, <1>4, <1>5, <1>6, <1>7 DEF Going

LEMMA StepOwned ==
  ASSUME BrowserInv, [BrowserNext]_browserVars
  PROVE  Owned'
<1>t. BrowserTypes /\ Owned /\ Numbers /\ SortedCalls
  BY DEF BrowserInv, BrowserTypes
<1>n. NoCall.step = "idle" /\ NoCall.op = "none"
  BY NoCallIs
\* No session, row or context is touched; calls begin, but none is past its context.
<1>1. ASSUME UNCHANGED <<table, home, row, overtaken, closed>>,
             \A b \in Agents : toolCall[b].step # "idle" => toolCall'[b] = toolCall[b],
             \A b \in Agents : toolCall[b].step = "idle" => toolCall'[b].step \notin {"delete", "row"}
      PROVE  Owned'
  <2>1. ASSUME NEW s \in Ids PROVE OwnedSession(s)'
    <3>1. ASSUME NEW b \in Agents, Is(b, "close", s) PROVE Is(b, "close", s)'
      <4>1. toolCall[b].step # "idle"
        BY <1>t, <3>1 DEF Is, SortedCalls
      <4> QED
        BY <1>1, <3>1, <4>1 DEF Is
    <3> QED
      BY <1>1, <1>t, <3>1 DEF OwnedSession, Owned
  <2>2. ASSUME NEW b \in Agents PROVE OwnedCall(b)'
    <3>1. CASE toolCall[b].step # "idle"
      BY <1>1, <1>t, <3>1 DEF OwnedCall, Owned
    <3>2. CASE toolCall[b].step = "idle"
      BY <1>1, <3>2 DEF OwnedCall
    <3> QED
      BY <3>1, <3>2
  <2> QED
    BY <1>1, <1>t, <2>1, <2>2 DEF Owned
<1>2. ASSUME NEW a \in Agents, Starting(a) PROVE Owned'
  <2>1. PICK op \in {"open", "write", "read", "close"}, s \in table, c \in Chats \cup {NoChat},
             step0 \in {"gate", "page", "release"} : Begun(a, op, s, c, step0)
    BY <1>2, <1>t, StartingIs
  <2>2. UNCHANGED <<table, home, row, overtaken, closed>>
    BY <1>2, <1>t, StartingIs DEF sessionVars, browserGhosts
  <2> QED
    BY <1>1, <1>n, <2>1, <2>2 DEF Begun
<1>3. ASSUME NEW a \in Agents, Creating(a) PROVE Owned'
  <2>0. seq \in Nat
    BY <1>t, BrowserAssumption DEF BrowserTypes
  <2>1. PICK c \in Chats \cup {NoChat} : Begun(a, "open", seq + 1, c, "save")
    BY <1>3, <1>t, CreatingIs
  <2>2. seq + 1 \in Ids /\ table' = table \cup {seq + 1} /\ closed' = closed \ {seq + 1}
        /\ overtaken' = overtaken \ {seq + 1} /\ UNCHANGED <<home, row>>
    BY <1>3, <1>t, CreatingIs
  <2>3. \A b \in Agents : toolCall[b].step # "idle" => toolCall'[b] = toolCall[b]
    BY <1>n, <2>1 DEF Begun
  <2>4. \A b \in Agents : toolCall[b].id # seq + 1
    BY <1>t, <2>0 DEF Numbers
  <2>5. ASSUME NEW s \in Ids PROVE OwnedSession(s)'
    <3>1. ASSUME NEW b \in Agents, Is(b, "close", s) PROVE Is(b, "close", s)'
      <4>1. toolCall[b].step # "idle"
        BY <1>t, <3>1 DEF Is, SortedCalls
      <4> QED
        BY <2>3, <3>1, <4>1 DEF Is
    <3>2. OwnedSession(s)
      BY <1>t DEF Owned
    <3> QED
      BY <2>2, <3>1, <3>2 DEF OwnedSession
  <2>6. ASSUME NEW b \in Agents PROVE OwnedCall(b)'
    <3>1. CASE b = a
      BY <2>1, <3>1 DEF Begun, OwnedCall
    <3>2. CASE b # a
      BY <1>t, <2>1, <2>2, <2>4, <3>2 DEF Begun, OwnedCall, Owned
    <3> QED
      BY <3>1, <3>2
  <2>7. closed' \subseteq Ids
    BY <1>t, <2>2 DEF Owned
  <2> QED
    BY <2>5, <2>6, <2>7 DEF Owned
<1>4. ASSUME NEW a \in Agents, Going(a) PROVE Owned'
  BY <1>4, GoingOwned
<1>5. CASE Clearing \/ Inject
  <2>1. UNCHANGED <<table, home, row, overtaken, closed, toolCall>>
    BY <1>5, <1>t, ClearingIs, InjectIs
  <2> QED
    BY <1>1, <2>1
<1>6. CASE Evicting
  <2>1. UNCHANGED <<table, toolCall, overtaken, closed>>
    BY <1>6, <1>t, EvictingIs DEF browserGhosts
  <2>2. PICK r \in Ids : EvictionOf(r)
    BY <1>6, <1>t, EvictingIs
  <2>3. \A s \in Ids : home'[s] = home[s] \/ home'[s] = 0
    BY <1>t, <2>2 DEF EvictionOf, BrowserTypes
  <2>4. ASSUME NEW s \in Ids PROVE OwnedSession(s)'
    <3>1. OwnedSession(s)
      BY <1>t DEF Owned
    <3>2. home[s] = 0 => row'[s] = row[s]
      BY <1>t, <2>2 DEF EvictionOf, BrowserTypes
    <3>3. \A b \in Agents : Is(b, "close", s)' <=> Is(b, "close", s)
      BY <2>1 DEF Is
    <3> QED
      BY <2>1, <2>3, <3>1, <3>2, <3>3 DEF OwnedSession
  <2>5. ASSUME NEW b \in Agents PROVE OwnedCall(b)'
    <3>1. OwnedCall(b)
      BY <1>t DEF Owned
    <3>2. CASE toolCall[b].step = "idle"
      BY <2>1, <3>2 DEF OwnedCall
    <3>3. CASE toolCall[b].step # "idle"
      <4>1. toolCall[b].id \in Ids
        BY <1>t, <3>3, UnderWay
      <4>2. home'[toolCall[b].id] = home[toolCall[b].id] \/ home'[toolCall[b].id] = 0
        BY <2>3, <4>1
      <4> QED
        BY <2>1, <3>1, <4>2 DEF OwnedCall
    <3> QED
      BY <3>2, <3>3
  <2> QED
    BY <1>t, <2>1, <2>4, <2>5 DEF Owned
<1>7. CASE Restarting
  <2>1. /\ table' = {s \in Ids : row[s] # NoRow} /\ home' = [s \in Ids |-> 0]
        /\ toolCall' = [a \in Agents |-> NoCall]
        /\ overtaken' = {s \in overtaken : s \in table'} /\ UNCHANGED <<row, closed>>
    BY <1>7, <1>t, RestartingIs
  <2>2. ASSUME NEW s \in Ids PROVE OwnedSession(s)'
    <3>1. OwnedSession(s)
      BY <1>t DEF Owned
    <3> QED
      BY <2>1, <3>1 DEF OwnedSession
  <2>3. ASSUME NEW b \in Agents PROVE OwnedCall(b)'
    BY <1>n, <2>1 DEF OwnedCall
  <2> QED
    BY <1>t, <2>1, <2>2, <2>3 DEF Owned
<1>8. CASE UNCHANGED <<seq, table, byChat, home, page, login, takeover, row, toolCall, told,
                       human, victim, browserGhosts>>
  BY <1>1, <1>8 DEF browserGhosts
<1> QED
  BY <1>2, <1>3, <1>4, <1>5, <1>6, <1>7, <1>8, <1>t, BrowserSteps

\* What is kept of one session's login.
KeptAt(s) ==
  /\ home[s] # 0 => login[s] = latest[s]
  /\ home[s] = 0 /\ (s \in table \/ row[s] # NoRow) => latest[s] = Saved(s)

LEMMA LoginsKeptIs == LoginsKept <=> \A s \in Ids : KeptAt(s)
  BY DEF LoginsKept, KeptAt

LEMMA StepLoginsKept ==
  ASSUME BrowserInv, [BrowserNext]_browserVars
  PROVE  LoginsKept'
<1>t. BrowserTypes /\ Numbers /\ Pool
  BY DEF BrowserInv
<1>k. \A s \in Ids : KeptAt(s)
  BY LoginsKeptIs DEF BrowserInv
<1>z. \A s \in Ids : row[s] \in Nat \cup {NoRow} /\ login[s] \in Nat /\ latest[s] \in Nat
  BY <1>t DEF BrowserTypes
<1>0. SUFFICES ASSUME NEW s \in Ids PROVE KeptAt(s)'
  BY DEF LoginsKept, KeptAt
<1>u. ASSUME UNCHANGED <<home, login, latest, row>>, s \in table' => s \in table
      PROVE  KeptAt(s)'
  BY <1>k, <1>u DEF KeptAt, Saved
<1>l. ASSUME NEW r \in Ids, LoggedIn(r), UNCHANGED <<home, row, table>> PROVE KeptAt(s)'
  <2>1. home[r] # 0
    BY <1>l, <1>t DEF LoggedIn, Pool
  <2>2. CASE s = r
    <3>1. latest'[s] = login'[s] /\ home'[s] # 0
      BY <1>l, <1>t, <2>1, <2>2 DEF LoggedIn, BrowserTypes
    <3> QED
      BY <3>1 DEF KeptAt
  <2>3. CASE s # r
    <3>1. latest'[s] = latest[s] /\ login'[s] = login[s]
      BY <1>l, <1>t, <2>3 DEF LoggedIn, BrowserTypes
    <3> QED
      BY <1>k, <1>l, <3>1 DEF KeptAt, Saved
  <2> QED
    BY <2>2, <2>3
<1>1. ASSUME NEW a \in Agents, Starting(a) PROVE KeptAt(s)'
  BY <1>1, <1>t, <1>u, StartingIs DEF sessionVars, browserGhosts
<1>2. ASSUME NEW a \in Agents, Creating(a) PROVE KeptAt(s)'
  <2>1. /\ table' = table \cup {seq + 1} /\ latest' = [latest EXCEPT ![seq + 1] = 0]
        /\ UNCHANGED <<home, login, row>>
    BY <1>2, <1>t, CreatingIs
  <2>2. CASE s = seq + 1
    <3>1. ~(s <= seq)
      BY <1>t, <2>2, BrowserAssumption DEF BrowserTypes
    <3>2. home[s] = 0 /\ row[s] = NoRow
      BY <1>t, <3>1 DEF Numbers
    <3>3. latest'[s] = 0
      BY <1>t, <2>1, <2>2 DEF BrowserTypes
    <3> QED
      BY <2>1, <3>2, <3>3 DEF KeptAt, Saved
  <2>3. CASE s # seq + 1
    <3>1. latest'[s] = latest[s]
      BY <1>t, <2>1, <2>3 DEF BrowserTypes
    <3> QED
      BY <1>k, <2>1, <2>3, <3>1 DEF KeptAt, Saved
  <2> QED
    BY <2>2, <2>3
<1>3. ASSUME NEW a \in Agents, Going(a) PROVE KeptAt(s)'
  <2>d. PICK r : r = toolCall[a].id
    OBVIOUS
  <2>1. r \in Ids /\ Elsewhere(r)
    BY <1>3, <1>t, <2>d, GoingIs
  <2>2. CASE s # r
    BY <1>k, <2>1, <2>2 DEF Elsewhere, SameAt, KeptAt, Saved
  <2>3. CASE s = r
    <3>1. CASE Passing(a) \/ touch(a) \/ BindChat(a)
      <4>1. UNCHANGED <<home, login, latest, row, table>>
        BY <1>t, <3>1, PassingIs, touchIs, BindChatIs DEF sessionVars, browserGhosts
      <4> QED
        BY <1>u, <4>1
    <3>2. CASE UsePage(a)
      <4>1. (LoggedIn(r) \/ UNCHANGED <<login, latest>>) /\ UNCHANGED <<home, row, table>>
        BY <1>t, <2>d, <3>2, UsePageIs
      <4> QED
        BY <1>l, <1>u, <2>1, <4>1
    <3>3. CASE Navigate(a)
      <4>1. home'[s] # 0 /\ latest' = [latest EXCEPT ![s] = login'[s]]
        BY <1>t, <2>d, <2>3, <3>3, NavigateIs DEF Housed
      <4>2. latest'[s] = login'[s]
        BY <1>t, <4>1 DEF BrowserTypes
      <4> QED
        BY <4>1, <4>2 DEF KeptAt
    <3>4. CASE SaveNew(a)
      <4>1. Unborn(a) /\ UNCHANGED <<home, latest>> /\ row' \in {row, [row EXCEPT ![s] = 0]}
        BY <1>t, <2>d, <2>3, <3>4, SaveNewIs DEF BrowserInv, Newborn
      <4>2. home[s] = 0 /\ latest[s] = 0 /\ row[s] = NoRow
        BY <2>d, <2>3, <4>1 DEF Unborn
      <4>3. row'[s] \in {NoRow, 0}
        BY <1>t, <4>1, <4>2 DEF BrowserTypes
      <4> QED
        BY <4>1, <4>2, <4>3 DEF KeptAt, Saved
    <3>5. CASE CloseContext(a)
      <4>1. home' = [home EXCEPT ![s] = 0] /\ latest' = [latest EXCEPT ![s] = Saved(s)] /\ row' = row
        BY <1>t, <2>d, <2>3, <3>5, CloseContextIs
      <4>2. home'[s] = 0 /\ latest'[s] = Saved(s)
        BY <1>t, <4>1 DEF BrowserTypes
      <4> QED
        BY <4>1, <4>2 DEF KeptAt, Saved
    <3>6. CASE DeleteSession(a)
      <4>1. UNCHANGED <<home, login, latest, row>> /\ table' \subseteq table
        BY <1>t, <3>6, DeleteSessionIs DEF browserGhosts
      <4> QED
        BY <1>u, <4>1
    <3>7. CASE DeleteRow(a)
      <4>1. /\ UNCHANGED <<home, login, latest, table>> /\ toolCall[a].step = "row"
            /\ row' = [row EXCEPT ![s] = NoRow] \/ row' = row
        BY <1>t, <2>d, <2>3, <3>7, DeleteRowIs
      <4>2. s \notin table
        BY <2>d, <2>3, <4>1 DEF BrowserInv, Owned, OwnedCall
      <4>3. row'[s] = NoRow \/ row'[s] = row[s]
        BY <1>t, <4>1 DEF BrowserTypes
      <4> QED
        BY <1>k, <4>1, <4>2, <4>3 DEF KeptAt, Saved
    <3> QED
      BY <1>3, <3>1, <3>2, <3>3, <3>4, <3>5, <3>6, <3>7 DEF Going
  <2> QED
    BY <2>2, <2>3
<1>4. CASE Clearing
  BY <1>4, <1>t, <1>u, ClearingIs
<1>5. CASE Inject
  <2>1. human \in Ids /\ (LoggedIn(human) \/ UNCHANGED <<login, latest>>)
        /\ UNCHANGED <<home, row, table>>
    BY <1>5, <1>t, InjectIs
  <2> QED
    BY <1>l, <1>u, <2>1
<1>6. CASE Evicting
  <2>1. UNCHANGED <<table, latest>>
    BY <1>6, <1>t, EvictingIs DEF browserGhosts
  <2>2. PICK r \in Ids : EvictionOf(r)
    BY <1>6, <1>t, EvictingIs
  <2>3. CASE s = r /\ home[r] # 0 /\ row' = [row EXCEPT ![r] = login[r]] /\ home' = [home EXCEPT ![r] = 0]
    <3>1. home'[s] = 0 /\ row'[s] = login[s] /\ login[s] = latest[s]
      BY <1>k, <1>t, <2>3 DEF BrowserTypes, KeptAt
    <3>2. row'[s] # NoRow
      BY <1>z, <3>1, BrowserAssumption
    <3> QED
      BY <2>1, <3>1, <3>2 DEF KeptAt, Saved
  <2>4. CASE home'[s] = home[s] /\ row'[s] = row[s] /\ login'[s] = login[s]
    BY <1>k, <2>1, <2>4 DEF KeptAt, Saved
  <2>5. s # r => home'[s] = home[s] /\ row'[s] = row[s] /\ login'[s] = login[s]
    BY <1>t, <2>2 DEF EvictionOf, BrowserTypes
  <2> QED
    BY <2>2, <2>3, <2>4, <2>5 DEF EvictionOf
<1>7. CASE Restarting
  <2>1. /\ table' = {t \in Ids : row[t] # NoRow} /\ home' = [t \in Ids |-> 0] /\ row' = row
        /\ latest' = [t \in Ids |-> IF home[t] # 0 THEN Saved(t) ELSE latest[t]]
    BY <1>7, <1>t, RestartingIs
  <2>2. row[s] # NoRow => latest'[s] = Saved(s)
    BY <1>k, <2>1 DEF KeptAt
  <2> QED
    BY <2>1, <2>2 DEF KeptAt, Saved
<1>8. CASE UNCHANGED <<seq, table, byChat, home, page, login, takeover, row, toolCall, told,
                       human, victim, browserGhosts>>
  BY <1>8, <1>u DEF browserGhosts
<1> QED
  BY <1>1, <1>2, <1>3, <1>4, <1>5, <1>6, <1>7, <1>8, <1>t, BrowserSteps

LEMMA StepSparedOnly ==
  ASSUME BrowserInv, [BrowserNext]_browserVars
  PROVE  SparedOnly'
<1>t. BrowserTypes /\ SparedOnly /\ Numbers
  BY DEF BrowserInv
<1>p. \A t \in Ids : spared[t] \subseteq Agents
  BY <1>t DEF BrowserTypes
<1>0. SUFFICES ASSUME NEW a \in Agents, NEW s \in takeover', toolCall'[a].id = s,
                      toolCall'[a].step \in {"page", "act"}, toolCall'[a].op # "read"
               PROVE  a \in spared'[s]
  BY DEF SparedOnly
<1>u. ASSUME s \in takeover, toolCall[a].id = s, toolCall[a].step \in {"page", "act"},
             toolCall[a].op # "read"
      PROVE  a \in spared[s]
  BY <1>t, <1>u DEF SparedOnly
<1>s. ASSUME s \in takeover, toolCall'[a] = toolCall[a] PROVE a \in spared[s]
  BY <1>0, <1>s, <1>u
<1>1. ASSUME NEW b \in Agents, Starting(b) PROVE a \in spared'[s]
  <2>1. PICK op \in {"open", "write", "read", "close"}, r \in table, c \in Chats \cup {NoChat},
             step0 \in {"gate", "page", "release"} :
          Begun(b, op, r, c, step0) /\ (step0 = "page" => op = "read")
    BY <1>1, <1>t, StartingIs
  <2>2. a # b
    BY <1>0, <2>1 DEF Begun
  <2>3. UNCHANGED <<takeover, spared>>
    BY <1>1, <1>t, StartingIs DEF sessionVars, browserGhosts
  <2> QED
    BY <1>0, <1>s, <2>1, <2>2, <2>3 DEF Begun
<1>2. ASSUME NEW b \in Agents, Creating(b) PROVE a \in spared'[s]
  <2>1. PICK c \in Chats \cup {NoChat} : Begun(b, "open", seq + 1, c, "save")
    BY <1>2, <1>t, CreatingIs
  <2>2. takeover' = takeover \ {seq + 1} /\ spared' = [spared EXCEPT ![seq + 1] = {}]
    BY <1>2, <1>t, CreatingIs
  <2>3. a # b
    BY <1>0, <2>1 DEF Begun
  <2>4. a \in spared[s] /\ s # seq + 1 /\ s \in Ids
    BY <1>0, <1>s, <1>t, <2>1, <2>2, <2>3 DEF Begun, BrowserTypes
  <2> QED
    BY <1>t, <2>2, <2>4 DEF BrowserTypes
<1>3. ASSUME NEW b \in Agents, Going(b) PROVE a \in spared'[s]
  <2>1. s \in Ids
    <3>1. toolCall'[a].id # 0 => toolCall'[a].id \in Ids
      <4>1. toolCall' \in [Agents -> CallSet]
        BY <1>t, StepBrowserTypes DEF BrowserTypes
      <4>2. toolCall'[a] \in CallSet
        BY <4>1
      <4> QED
        BY <4>2, BrowserAssumption DEF CallSet, Ids
    <3>2. toolCall'[a].id # 0
      BY <1>0, <1>t, StepSortedCalls DEF SortedCalls
    <3> QED
      BY <1>0, <3>1, <3>2
  <2>2. takeover' \subseteq takeover
    <3>1. CASE CloseContext(b)
      BY <1>t, <3>1, CloseContextIs
    <3>2. CASE ~CloseContext(b)
      BY <1>3, <1>t, <3>2, PassingIs, NavigateIs, UsePageIs, touchIs, SaveNewIs, BindChatIs,
         DeleteSessionIs, DeleteRowIs DEF Going, sessionVars
    <3> QED
      BY <3>1, <3>2
  <2>3. s \in takeover
    BY <2>2
  <2>4. Dropped(b) => a # b
    BY <1>0, NoCallIs DEF Dropped
  <2>5. CASE Passing(b)
    <3>1. CASE Ends(b)
      <4>1. a # b /\ toolCall'[a] = toolCall[a]
        BY <2>4, <3>1 DEF Ends, Dropped
      <4>2. a \in spared[s] /\ spared'[s] = spared[s] \ {b}
        BY <1>s, <2>1, <2>3, <3>1, <4>1 DEF Ends
      <4> QED
        BY <4>1, <4>2
    <3>2. CASE ~Ends(b)
      <4>1. /\ spared' = spared /\ toolCall[b].step \in {"gate", "page", "act"}
            /\ Advanced(b, "act") \/ Advanced(b, "page")
            /\ toolCall[b].step = "gate" => toolCall[b].id \notin takeover
        BY <1>t, <2>5, <3>2, PassingIs DEF Ends
      <4>2. CASE a # b
        BY <1>s, <2>3, <4>1, <4>2 DEF Advanced
      <4>3. CASE a = b
        <5>1. toolCall[a].id = s /\ toolCall[a].op # "read"
          BY <1>0, <4>1, <4>3 DEF Advanced
        <5>2. toolCall[a].step \in {"page", "act"}
          BY <2>3, <4>1, <4>3, <5>1
        <5> QED
          BY <1>u, <2>3, <4>1, <5>1, <5>2
      <4> QED
        BY <4>2, <4>3
    <3> QED
      BY <3>1, <3>2
  <2>6. CASE Navigate(b) \/ UsePage(b) \/ touch(b) \/ DeleteRow(b)
    <3>1. Goes1(b, "touch") \/ Ends(b)
      BY <1>t, <2>6, NavigateIs, UsePageIs, touchIs, DeleteRowIs
    <3>2. a # b /\ toolCall'[a] = toolCall[a]
      BY <1>0, <2>4, <3>1 DEF Goes1, Ends, Advanced, Dropped
    <3>3. a \in spared[s]
      BY <1>s, <2>3, <3>2
    <3> QED
      BY <2>1, <3>1, <3>2, <3>3 DEF Goes1, Ends
  <2>7. CASE SaveNew(b) \/ BindChat(b) \/ CloseContext(b) \/ DeleteSession(b)
    <3>1. /\ spared' = spared
          /\ \E x \in {"bind", "gate", "delete", "row"} : Advanced(b, x)
      BY <1>t, <2>7, SaveNewIs, BindChatIs, CloseContextIs, DeleteSessionIs DEF browserGhosts
    <3>2. a # b /\ toolCall'[a] = toolCall[a]
      BY <1>0, <3>1 DEF Advanced
    <3> QED
      BY <1>s, <2>3, <3>1, <3>2
  <2> QED
    BY <1>3, <2>5, <2>6, <2>7 DEF Going
<1>4. CASE Clearing
  <2>1. toolCall' = toolCall
    BY <1>4, <1>t, ClearingIs
  <2>2. CASE UNCHANGED <<takeover, spared>>
    BY <1>s, <2>1, <2>2
  <2>3. ASSUME NEW r \in table, takeover' = takeover \ {r}, spared' = spared
        PROVE  a \in spared'[s]
    BY <1>s, <2>1, <2>3
  <2>4. ASSUME NEW r \in table, takeover' = takeover \cup {r},
               spared' = IF r \in takeover THEN spared
                 ELSE [spared EXCEPT ![r] = {b \in Agents :
                        toolCall[b].id = r /\ toolCall[b].step \in {"page", "act"}}]
        PROVE  a \in spared'[s]
    <3>1. CASE s \in takeover
      <4>1. a \in spared[s]
        BY <1>s, <2>1, <3>1
      <4> QED
        BY <1>t, <2>4, <3>1, <4>1 DEF BrowserTypes
    <3>2. CASE s \notin takeover
      <4>1. s = r /\ s \in Ids
        BY <1>t, <2>4, <3>2 DEF BrowserTypes
      <4>2. spared'[s] = {b \in Agents : toolCall[b].id = r /\ toolCall[b].step \in {"page", "act"}}
        BY <1>t, <2>4, <3>2, <4>1 DEF BrowserTypes
      <4> QED
        BY <1>0, <2>1, <4>1, <4>2
    <3> QED
      BY <3>1, <3>2
  <2> QED
    BY <1>4, <1>t, <2>2, <2>3, <2>4, ClearingIs
<1>5. CASE Inject \/ Evicting
  <2>1. UNCHANGED <<takeover, toolCall, spared>>
    BY <1>5, <1>t, InjectIs, EvictingIs DEF browserGhosts
  <2> QED
    BY <1>s, <2>1
<1>6. CASE Restarting
  <2>1. takeover' = {}
    BY <1>6, <1>t, RestartingIs
  <2> QED
    BY <2>1
<1>7. CASE UNCHANGED <<seq, table, byChat, home, page, login, takeover, row, toolCall, told,
                       human, victim, browserGhosts>>
  BY <1>7, <1>s DEF browserGhosts
<1> QED
  BY <1>1, <1>2, <1>3, <1>4, <1>5, <1>6, <1>7, <1>t, BrowserSteps

LEMMA BrowserStepInv == BrowserInv /\ [BrowserNext]_browserVars => BrowserInv'
  BY StepBrowserTypes, StepPool, StepNumbers, StepNewborn, StepOwned, StepLoginsKept, StepSparedOnly
     DEF BrowserInv

LEMMA BrowserInvImplies ==
  BrowserInv => BrowserTypeOK /\ ContextsAreOwned /\ LoginKept /\ ClosedStaysClosed
<1> SUFFICES ASSUME BrowserInv
             PROVE  BrowserTypeOK /\ ContextsAreOwned /\ LoginKept /\ ClosedStaysClosed
  OBVIOUS
<1>1. BrowserTypeOK
  BY DEF BrowserInv, Pool, BrowserTypeOK
<1>2. ContextsAreOwned
  BY DEF BrowserInv, Owned, OwnedSession, ContextsAreOwned
<1>3. LoginKept
  BY DEF BrowserInv, BrowserTypes, LoginsKept, LoginKept
<1>4. ClosedStaysClosed
  BY DEF BrowserInv, Owned, OwnedSession, ClosedStaysClosed
<1> QED
  BY <1>1, <1>2, <1>3, <1>4

LEMMA GateStep ==
  ASSUME BrowserInv
  PROVE  \A a \in Agents : \A s \in takeover : Acts(a, s) => a \in spared[s]
  BY DEF BrowserInv, SparedOnly, Acts

\* Any number of agents, chats, sessions and processes, evictions, crashes and
\* restarts: contexts belong to sessions, no login is lost with its context, a
\* closed session stays closed, and a human who takes over is disturbed by no
\* call that had not passed its gate before.
THEOREM BrowserIsSafe == BrowserSpec => BrowserSafe
<1>1. BrowserSpec => []BrowserInv
  BY BrowserInitInv, BrowserStepInv, PTL DEF BrowserSpec
<1>2. BrowserInv => [\A a \in Agents : \A s \in takeover : Acts(a, s) => a \in spared[s]]_browserVars
  BY GateStep
<1> QED
  BY <1>1, <1>2, BrowserInvImplies, PTL DEF BrowserSafe, GateHolds

-----------------------------------------------------------------------------
(* Consent to plugins.  Every copy of plugins.json that is in use holds only *)
(* entries somebody authorised; who has compared and was not overtaken holds *)
(* the file as it is; and no convergence under way would bring a denied      *)
(* plugin back.                                                              *)

EntrySet == [version : Versions, enabled : BOOLEAN, caps : SUBSET Capabilities,
             accepted : Versions \cup {NoBytes}]
CopySet == [Plugins -> EntrySet \cup {NoEntry}]
OpSet == {"install", "accept", "grant", "deny"}
ChangeSet == [step : {"check", "write", "apply"}, op : OpSet, plugin : Plugins,
              entry : EntrySet, copy : CopySet]
ReloadSet == [step : {"apply"}, copy : CopySet]
MountSet == [version : Versions, caps : SUBSET Capabilities]
Deciders == Commands \cup Consoles

ConsentTypes ==
  /\ deployment \in CopySet
  /\ call \in [Actors -> {Idle} \cup ChangeSet \cup ReloadSet]
  /\ \A a \in Deciders : call[a] = Idle \/ call[a] \in ChangeSet
  /\ \A a \in Reloads : call[a] = Idle \/ call[a] \in ReloadSet
  /\ \A a \in Commands : call[a].step # "apply"
  /\ running \in [Plugins -> MountSet \cup {Down}]
  /\ stated \in CopySet
  /\ mu \in Consoles \cup {NoOne}

Exclusive == \A a \in Consoles : call[a] # Idle <=> mu = a

UpToDate ==
  /\ deployment = stated
  /\ \A a \in Deciders : call[a].step = "write" /\ a \notin raced => call[a].copy = deployment

\* What is enabled was decided, what is accepted was accepted.
Sound(c) == \A p \in Plugins :
  /\ Enabled(c[p]) => <<p, c[p].version, c[p].caps>> \in decided
  /\ IsEntry(c[p]) /\ c[p].accepted # NoBytes => <<p, c[p].accepted>> \in accepted

CopiesSound ==
  /\ Sound(deployment)
  /\ \A a \in Actors : call[a] # Idle => Sound(call[a].copy)

EntrySound(a) ==
  /\ call[a].op = "deny" => ~call[a].entry.enabled
  /\ call[a].entry.accepted # NoBytes =>
       \/ call[a].op = "accept" /\ call[a].entry.accepted = call[a].entry.version
       \/ <<call[a].plugin, call[a].entry.accepted>> \in accepted
  /\ call[a].step = "apply" => call[a].copy[call[a].plugin] = call[a].entry
EntriesSound == \A a \in Deciders : call[a] # Idle => EntrySound(a)

\* What may run for a plugin.
Rightful(p, m) ==
  m # Down =>
    /\ \E d \in decided : d[1] = p /\ d[2] = m.version /\ m.caps \subseteq d[3]
    /\ requireSignature /\ m.version \notin Endorsed => <<p, m.version>> \in accepted
RunningSound == \A p \in Plugins : Rightful(p, running[p])

DeniedSound == \A p \in denied :
  /\ p \in Plugins /\ running[p] = Down /\ ~Enabled(deployment[p])
  /\ \A a \in Consoles \cup Reloads : call[a].step = "apply" => ~Enabled(call[a].copy[p])

ConsentInv ==
  ConsentTypes /\ Exclusive /\ UpToDate /\ CopiesSound /\ EntriesSound /\ RunningSound /\ DeniedSound

LEMMA IdleIs == Idle.step = "idle" /\ Idle \notin ChangeSet /\ Idle \notin ReloadSet
<1>1. Idle.step = "idle"
  BY DEF Idle
<1>2. \A c \in ChangeSet : c.step # "idle"
  BY DEF ChangeSet
<1>3. \A c \in ReloadSet : c.step # "idle"
  BY DEF ReloadSet
<1> QED
  BY <1>1, <1>2, <1>3

LEMMA ActorsAre ==
  ASSUME NEW a \in Actors
  PROVE  /\ a \in Deciders \/ a \in Reloads
         /\ ~(a \in Deciders /\ a \in Reloads)
         /\ ~(a \in Commands /\ a \in Consoles)
  BY ConsentAssumption DEF Actors, Deciders

\* What a decider asks for leaves an entry that its operation speaks for.
EntryAsked(op, p, e) ==
  /\ op \in OpSet /\ e \in EntrySet
  /\ op = "deny" => ~e.enabled
  /\ e.accepted # NoBytes =>
       \/ op = "accept" /\ e.accepted = e.version
       \/ IsEntry(deployment[p]) /\ e.accepted = deployment[p].accepted

Asking(a, p) ==
  \/ \E v \in Versions, caps \in Lists \cup {{}}, accept \in BOOLEAN : runPluginsInstall(a, p, v, caps, accept)
  \/ \E caps \in Lists : runPluginsGrant(a, p, caps) \/ Grant(a, p, caps)
  \/ runPluginsDeny(a, p) \/ Deny(a, p)

LEMMA AskingIs ==
  ASSUME ConsentTypes, NEW a \in Actors, NEW p \in Plugins, Asking(a, p)
  PROVE  /\ a \in Deciders
         /\ \E op \in OpSet, e \in EntrySet : EntryAsked(op, p, e) /\ ReadDeployment(a, op, p, e)
<1>0. \A caps \in Lists \cup {{}} : caps \subseteq Capabilities
  BY ConsentAssumption DEF Lists
<1>e. IsEntry(deployment[p]) => deployment[p] \in EntrySet
  BY DEF ConsentTypes, CopySet, IsEntry
<1>1. ASSUME NEW v \in Versions, NEW caps \in Lists \cup {{}}, NEW accept \in BOOLEAN,
             runPluginsInstall(a, p, v, caps, accept)
      PROVE  a \in Deciders /\ \E op \in OpSet, e \in EntrySet : EntryAsked(op, p, e) /\ ReadDeployment(a, op, p, e)
  <2>1. PICK e : e = DraftEntry(v, caps)
    OBVIOUS
  <2>2. PICK op : op = IF accept /\ v \notin Endorsed THEN "accept" ELSE "install"
    OBVIOUS
  <2>3. e \in EntrySet /\ (e.accepted # NoBytes => v \notin Endorsed) /\ e.version = v
        /\ (e.accepted # NoBytes => e.accepted = v)
    BY <1>0, <2>1 DEF DraftEntry, EntrySet
  <2>4. op \in OpSet /\ op # "deny"
    BY <2>2 DEF OpSet
  <2>5. v \notin Endorsed => op = "accept"
    BY <1>1, <2>2 DEF runPluginsInstall, admitInstalledProvenance
  <2>6. EntryAsked(op, p, e)
    BY <2>3, <2>4, <2>5 DEF EntryAsked
  <2>7. ReadDeployment(a, op, p, e) /\ a \in Deciders
    BY <1>1, <2>1, <2>2 DEF runPluginsInstall, Deciders
  <2> QED
    BY <2>3, <2>4, <2>6, <2>7
<1>2. ASSUME NEW caps \in Lists, IsEntry(deployment[p]), a \in Deciders,
             ReadDeployment(a, "grant", p, Granted(deployment[p], caps))
      PROVE  a \in Deciders /\ \E op \in OpSet, e \in EntrySet : EntryAsked(op, p, e) /\ ReadDeployment(a, op, p, e)
  <2>1. PICK e : e = Granted(deployment[p], caps)
    OBVIOUS
  <2>2. e \in EntrySet /\ e.accepted = deployment[p].accepted
    BY <1>0, <1>2, <1>e, <2>1 DEF Granted, EntrySet
  <2>3. EntryAsked("grant", p, e)
    BY <1>2, <2>2 DEF EntryAsked, OpSet
  <2> QED
    BY <1>2, <2>1, <2>2, <2>3 DEF OpSet
<1>3. ASSUME IsEntry(deployment[p]), a \in Deciders, ReadDeployment(a, "deny", p, Denied(deployment[p]))
      PROVE  a \in Deciders /\ \E op \in OpSet, e \in EntrySet : EntryAsked(op, p, e) /\ ReadDeployment(a, op, p, e)
  <2>1. PICK e : e = Denied(deployment[p])
    OBVIOUS
  <2>2. e \in EntrySet /\ e.accepted = deployment[p].accepted /\ ~e.enabled
    BY <1>3, <1>e, <2>1 DEF Denied, EntrySet
  <2>3. EntryAsked("deny", p, e)
    BY <1>3, <2>2 DEF EntryAsked, OpSet
  <2> QED
    BY <1>3, <2>1, <2>2, <2>3 DEF OpSet
<1>4. CASE \E caps \in Lists : runPluginsGrant(a, p, caps) \/ Grant(a, p, caps)
  BY <1>2, <1>4 DEF runPluginsGrant, Grant, Deciders
<1>5. CASE runPluginsDeny(a, p) \/ Deny(a, p)
  BY <1>3, <1>5 DEF runPluginsDeny, Deny, Deciders
<1> QED
  BY <1>1, <1>4, <1>5 DEF Asking

\* A call under way begins with the file as it is.
Reads(a, op, p, e) ==
  /\ call[a] = Idle
  /\ call'[a] = [step |-> "check", op |-> op, plugin |-> p, entry |-> e, copy |-> deployment]
  /\ \A b \in Actors : b # a => call'[b] = call[b]
  /\ call' \in [Actors -> {Idle} \cup ChangeSet \cup ReloadSet]
  /\ lock(a)
  /\ UNCHANGED <<deployment, running, ghosts>>

LEMMA ReadsIs ==
  ASSUME ConsentTypes, NEW a \in Actors, NEW p \in Plugins, NEW op \in OpSet, NEW e \in EntrySet,
         ReadDeployment(a, op, p, e)
  PROVE  Reads(a, op, p, e)
<1>1. [step |-> "check", op |-> op, plugin |-> p, entry |-> e, copy |-> deployment] \in ChangeSet
  BY DEF ConsentTypes, ChangeSet
<1> QED
  BY <1>1 DEF ReadDeployment, Reads, ConsentTypes

Ended(a) ==
  /\ call'[a] = Idle
  /\ \A b \in Actors : b # a => call'[b] = call[b]

LEMMA EndedIs ==
  ASSUME ConsentTypes, NEW a \in Actors, call' = [call EXCEPT ![a] = Idle]
  PROVE  Ended(a) /\ call' \in [Actors -> {Idle} \cup ChangeSet \cup ReloadSet]
  BY DEF ConsentTypes, Ended

\* A call has a copy, an entry and a step of its own.
LEMMA InCall ==
  ASSUME ConsentTypes, NEW a \in Actors, call[a].step # "idle"
  PROVE  /\ call[a] # Idle
         /\ a \in Deciders => call[a] \in ChangeSet
         /\ a \in Reloads => call[a] \in ReloadSet
         /\ call[a].copy \in CopySet
<1>1. call[a] # Idle
  BY IdleIs
<1>2. (a \in Deciders => call[a] \in ChangeSet) /\ (a \in Reloads => call[a] \in ReloadSet)
  BY <1>1 DEF ConsentTypes
<1>3. a \in Deciders \/ a \in Reloads
  BY ActorsAre
<1> QED
  BY <1>1, <1>2, <1>3 DEF ChangeSet, ReloadSet

LEMMA Deciding ==
  ASSUME ConsentTypes, NEW a \in Actors, call[a].step \in {"check", "write"}
  PROVE  a \in Deciders /\ call[a] \in ChangeSet /\ call[a] # Idle
<1>1. a \in Reloads => call[a] \in ReloadSet
  BY InCall
<1>2. a \notin Reloads
  BY <1>1 DEF ReloadSet
<1> QED
  BY <1>2, InCall, ActorsAre

\* The comparison: on with the write, or the end.
LEMMA ComparingIs ==
  ASSUME ConsentTypes, NEW a \in Actors, RefuseDeploymentChanged(a)
  PROVE  /\ a \in Deciders /\ call[a] \in ChangeSet /\ call[a].step = "check"
         /\ call' \in [Actors -> {Idle} \cup ChangeSet \cup ReloadSet]
         /\ \A b \in Actors : b # a => call'[b] = call[b]
         /\ \/ /\ deployment = call[a].copy /\ mu' = mu
               /\ call'[a] \in ChangeSet /\ call'[a].step = "write"
               /\ call'[a].op = call[a].op /\ call'[a].plugin = call[a].plugin
               /\ call'[a].entry = call[a].entry /\ call'[a].copy = call[a].copy
            \/ Ended(a) /\ unlock(a)
         /\ UNCHANGED <<deployment, running, ghosts>>
<1>1. call[a].step = "check" /\ UNCHANGED <<deployment, running, ghosts>>
  BY DEF RefuseDeploymentChanged
<1>2. a \in Deciders /\ call[a] \in ChangeSet
  BY <1>1, Deciding
<1>3. CASE Unchanged(call[a].copy)
  <2>1. call' = [call EXCEPT ![a].step = "write"] /\ mu' = mu /\ deployment = call[a].copy
    BY <1>3 DEF RefuseDeploymentChanged, Unchanged
  <2>2. call'[a] = [call[a] EXCEPT !.step = "write"]
    BY <2>1 DEF ConsentTypes
  <2>3. /\ call'[a] \in ChangeSet /\ call'[a].step = "write"
        /\ call'[a].op = call[a].op /\ call'[a].plugin = call[a].plugin
        /\ call'[a].entry = call[a].entry /\ call'[a].copy = call[a].copy
    BY <1>2, <2>2 DEF ChangeSet
  <2> QED
    BY <1>1, <1>2, <2>1, <2>3 DEF ConsentTypes
<1>4. CASE ~Unchanged(call[a].copy)
  <2>1. call' = [call EXCEPT ![a] = Idle] /\ unlock(a)
    BY <1>4 DEF RefuseDeploymentChanged
  <2>2. Ended(a) /\ call' \in [Actors -> {Idle} \cup ChangeSet \cup ReloadSet]
    BY <2>1, EndedIs
  <2> QED
    BY <1>1, <1>2, <2>1, <2>2 DEF Ended
<1> QED
  BY <1>3, <1>4

\* The write: the entry on the copy, for everybody to see.
WritingCall(a) ==
  \/ a \notin Consoles /\ Ended(a)
  \/ /\ a \in Consoles /\ call'[a] \in ChangeSet /\ call'[a].step = "apply"
     /\ call'[a].op = call[a].op /\ call'[a].plugin = call[a].plugin
     /\ call'[a].entry = call[a].entry /\ call'[a].copy = deployment'
     /\ \A b \in Actors : b # a => call'[b] = call[b]

LEMMA WritingIs ==
  ASSUME ConsentTypes, NEW a \in Actors, WriteDeployment(a)
  PROVE  /\ a \in Deciders /\ call[a] \in ChangeSet /\ call[a].step = "write"
         /\ deployment' = [call[a].copy EXCEPT ![call[a].plugin] = call[a].entry]
         /\ deployment' \in CopySet /\ deployment'[call[a].plugin] = call[a].entry
         /\ \A q \in Plugins : q # call[a].plugin => deployment'[q] = call[a].copy[q]
         /\ call' \in [Actors -> {Idle} \cup ChangeSet \cup ReloadSet] /\ WritingCall(a)
         /\ UNCHANGED <<mu, running>>
<1>1. call[a].step = "write"
  BY DEF WriteDeployment
<1>2. a \in Deciders /\ call[a] \in ChangeSet
  BY <1>1, Deciding
<1>3. /\ deployment' = [call[a].copy EXCEPT ![call[a].plugin] = call[a].entry]
      /\ UNCHANGED <<mu, running>>
      /\ call' = [call EXCEPT ![a] = IF a \in Consoles
           THEN [@ EXCEPT !.step = "apply", !.copy = [call[a].copy EXCEPT ![call[a].plugin] = call[a].entry]]
           ELSE Idle]
  BY DEF WriteDeployment
<1>4. call[a].copy \in CopySet /\ call[a].entry \in EntrySet /\ call[a].plugin \in Plugins
  BY <1>2 DEF ChangeSet
<1>5. /\ deployment' \in CopySet /\ deployment'[call[a].plugin] = call[a].entry
      /\ \A q \in Plugins : q # call[a].plugin => deployment'[q] = call[a].copy[q]
  BY <1>3, <1>4 DEF CopySet
<1>6. CASE a \notin Consoles
  <2>1. call' = [call EXCEPT ![a] = Idle]
    BY <1>3, <1>6
  <2> QED
    BY <1>1, <1>2, <1>3, <1>5, <1>6, <2>1, EndedIs DEF WritingCall
<1>7. CASE a \in Consoles
  <2>1. call' = [call EXCEPT ![a] = [call[a] EXCEPT !.step = "apply", !.copy = deployment']]
    BY <1>3, <1>7
  <2>2. call'[a] = [call[a] EXCEPT !.step = "apply", !.copy = deployment']
        /\ \A b \in Actors : b # a => call'[b] = call[b]
    BY <2>1 DEF ConsentTypes
  <2>3. /\ call'[a] \in ChangeSet /\ call'[a].step = "apply"
        /\ call'[a].op = call[a].op /\ call'[a].plugin = call[a].plugin
        /\ call'[a].entry = call[a].entry /\ call'[a].copy = deployment'
    BY <1>2, <1>5, <2>2 DEF ChangeSet
  <2>4. WritingCall(a)
    BY <1>7, <2>2, <2>3 DEF WritingCall
  <2>5. call' \in [Actors -> {Idle} \cup ChangeSet \cup ReloadSet]
    BY <2>1, <2>2, <2>3 DEF ConsentTypes
  <2> QED
    BY <1>1, <1>2, <1>3, <1>5, <2>4, <2>5
<1> QED
  BY <1>6, <1>7

Leaving(a) == Fail(a) \/ Pending(a)

LEMMA LeavingIs ==
  ASSUME ConsentTypes, NEW a \in Actors, Leaving(a)
  PROVE  /\ call[a].step # "idle" /\ Ended(a) /\ unlock(a)
         /\ call' \in [Actors -> {Idle} \cup ChangeSet \cup ReloadSet]
         /\ UNCHANGED <<deployment, running, decided, accepted, stated, denied>>
         /\ \A b \in Actors : b # a /\ b \in raced => b \in raced'
<1>1. CASE Fail(a)
  BY <1>1, EndedIs DEF Fail
<1>2. CASE Pending(a)
  BY <1>2, EndedIs DEF Pending, ghosts
<1> QED
  BY <1>1, <1>2 DEF Leaving

LEMMA ApplyingIs ==
  ASSUME ConsentTypes, NEW a \in Actors, applyAndReport(a)
  PROVE  /\ call[a].step = "apply" /\ Ended(a) /\ unlock(a)
         /\ a \in Consoles \cup Reloads
         /\ call' \in [Actors -> {Idle} \cup ChangeSet \cup ReloadSet]
         /\ running' \in Converge(call[a].copy, running)
         /\ denied' = denied \cup (IF a \notin Reloads /\ call[a].op = "deny" THEN
              {p \in {call[a].plugin} : ~Enabled(deployment[p]) /\ ~Recalled(p)} ELSE {})
         /\ UNCHANGED <<deployment, decided, accepted, stated, raced>>
<1>1. call[a].step = "apply"
  BY DEF applyAndReport
<1>2. a \notin Commands
  BY <1>1 DEF ConsentTypes
<1>3. Ended(a) /\ call' \in [Actors -> {Idle} \cup ChangeSet \cup ReloadSet]
  BY EndedIs DEF applyAndReport
<1> QED
  BY <1>1, <1>2, <1>3 DEF applyAndReport, Actors

LEMMA ReloadIs ==
  ASSUME ConsentTypes, NEW a \in Actors, Reload(a)
  PROVE  /\ a \in Reloads /\ call[a] = Idle
         /\ call'[a] \in ReloadSet /\ call'[a].step = "apply" /\ call'[a].copy = deployment
         /\ \A b \in Actors : b # a => call'[b] = call[b]
         /\ call' \in [Actors -> {Idle} \cup ChangeSet \cup ReloadSet]
         /\ denied' = StillDown(deployment)
         /\ UNCHANGED <<deployment, mu, running, decided, accepted, stated, raced>>
<1>1. [step |-> "apply", copy |-> deployment] \in ReloadSet
  BY DEF ReloadSet, ConsentTypes
<1> QED
  BY <1>1 DEF Reload, ConsentTypes

LEMMA AssemblingIs ==
  ASSUME ConsentTypes, assemblePlugins
  PROVE  /\ \A a \in Commands : call'[a] = call[a]
         /\ \A a \in Consoles \cup Reloads : call'[a] = Idle
         /\ call' \in [Actors -> {Idle} \cup ChangeSet \cup ReloadSet]
         /\ mu' = NoOne /\ raced' = raced \cap Commands
         /\ running' \in Converge(deployment, [p \in Plugins |-> Down])
         /\ UNCHANGED <<deployment, decided, accepted, stated, denied>>
<1>1. call' = [a \in Actors |-> IF a \in Commands THEN call[a] ELSE Idle]
  BY DEF assemblePlugins
<1>2. \A a \in Commands : call'[a] = call[a]
  BY <1>1 DEF Actors
<1>3. \A a \in Consoles \cup Reloads : call'[a] = Idle
  BY <1>1, ConsentAssumption DEF Actors
<1> QED
  BY <1>1, <1>2, <1>3 DEF assemblePlugins, ConsentTypes

\* An edit by hand leaves no entry, or another version under the same grant.
LEMMA EditingIs ==
  ASSUME ConsentTypes, NEW p \in Plugins, HandEdit(p)
  PROVE  /\ deployment' \in CopySet /\ stated' \in CopySet
         /\ deployment = stated => deployment' = stated'
         /\ \A q \in Plugins : q # p => deployment'[q] = deployment[q]
         /\ IsEntry(deployment'[p]) => IsEntry(deployment[p]) /\ deployment'[p].accepted = deployment[p].accepted
         /\ decided \subseteq decided'
         /\ Enabled(deployment'[p]) => <<p, deployment'[p].version, deployment'[p].caps>> \in decided'
         /\ raced' = raced \cup {b \in Deciders : call[b].step = "write"}
         /\ denied' = StillDown(deployment')
         /\ UNCHANGED <<call, mu, running, accepted>>
<1>1. PICK e \in {NoEntry} \cup {[deployment[p] EXCEPT !.version = v] : v \in Versions} :
        /\ deployment' = [deployment EXCEPT ![p] = e]
        /\ stated' = [stated EXCEPT ![p] = e]
        /\ decided' = decided \cup (IF Enabled(e) THEN {<<p, e.version, e.caps>>} ELSE {})
  BY DEF HandEdit
<1>2. IsEntry(deployment[p]) /\ deployment[p] \in EntrySet
  BY DEF HandEdit, ConsentTypes, CopySet, IsEntry
<1>3. e = NoEntry \/ (e \in EntrySet /\ e.accepted = deployment[p].accepted)
  BY <1>1, <1>2 DEF EntrySet
<1>4. deployment' \in CopySet /\ stated' \in CopySet /\ deployment'[p] = e
      /\ \A q \in Plugins : q # p => deployment'[q] = deployment[q]
  BY <1>1, <1>3 DEF ConsentTypes, CopySet
<1>5. Enabled(deployment'[p]) => <<p, deployment'[p].version, deployment'[p].caps>> \in decided'
  BY <1>1, <1>4
<1>6. deployment = stated => deployment' = stated'
  BY <1>1
<1>7. /\ raced' = raced \cup {b \in Deciders : call[b].step = "write"}
      /\ denied' = StillDown(deployment') /\ UNCHANGED <<call, mu, running, accepted>>
  BY DEF HandEdit, Deciders
<1> QED
  BY <1>1, <1>2, <1>3, <1>4, <1>5, <1>6, <1>7 DEF IsEntry

LEMMA ConsentCases ==
  ASSUME ConsentTypes, [ConsentNext]_consentVars
  PROVE  \/ \E a \in Deciders, p \in Plugins, op \in OpSet, e \in EntrySet :
              EntryAsked(op, p, e) /\ Reads(a, op, p, e)
         \/ \E a \in Actors : RefuseDeploymentChanged(a) \/ WriteDeployment(a) \/ applyAndReport(a)
                              \/ Leaving(a) \/ Reload(a)
         \/ assemblePlugins
         \/ \E p \in Plugins : HandEdit(p)
         \/ UNCHANGED consentVars
<1>1. ASSUME NEW a \in Actors, NEW p \in Plugins, Asking(a, p)
      PROVE  \E op \in OpSet, e \in EntrySet : a \in Deciders /\ EntryAsked(op, p, e) /\ Reads(a, op, p, e)
  BY <1>1, AskingIs, ReadsIs
<1>2. \/ \E a \in Actors, p \in Plugins : Asking(a, p)
      \/ \E a \in Actors : RefuseDeploymentChanged(a) \/ WriteDeployment(a) \/ applyAndReport(a)
                           \/ Leaving(a) \/ Reload(a)
      \/ assemblePlugins
      \/ \E p \in Plugins : HandEdit(p)
      \/ UNCHANGED consentVars
  BY DEF ConsentNext, Asking, Leaving
<1> QED
  BY <1>1, <1>2

LEMMA ConvergedTypes ==
  ASSUME NEW c \in CopySet, NEW r \in [Plugins -> MountSet \cup {Down}], NEW f \in Converge(c, r)
  PROVE  f \in [Plugins -> MountSet \cup {Down}] /\ \A p \in Plugins : f[p] \in Converged(c[p], r[p])
<1>1. f \in [Plugins -> UNION {Converged(c[p], r[p]) : p \in Plugins}]
      /\ \A p \in Plugins : f[p] \in Converged(c[p], r[p])
  BY DEF Converge
<1>2. ASSUME NEW p \in Plugins PROVE Converged(c[p], r[p]) \subseteq MountSet \cup {Down}
  <2>1. CASE ~Enabled(c[p])
    BY <2>1 DEF Converged
  <2>2. CASE Enabled(c[p])
    <3>1. c[p] \in EntrySet
      BY <2>2 DEF CopySet, Enabled
    <3>2. c[p].version \in Versions
      BY <3>1 DEF EntrySet
    <3>3. [version |-> c[p].version, caps |-> Declares[c[p].version]] \in MountSet
      BY <3>2, ConsentAssumption DEF MountSet
    <3> QED
      BY <2>2, <3>3 DEF Converged
  <2> QED
    BY <2>1, <2>2
<1> QED
  BY <1>1, <1>2

\* The calls' types follow from the change of one.
LEMMA CallsKept ==
  ASSUME ConsentTypes, NEW a \in Actors, \A b \in Actors : b # a => call'[b] = call[b],
         call'[a] = Idle \/ (a \in Deciders /\ call'[a] \in ChangeSet) \/ (a \in Reloads /\ call'[a] \in ReloadSet),
         a \in Commands => call'[a].step # "apply"
  PROVE  /\ \A b \in Deciders : call'[b] = Idle \/ call'[b] \in ChangeSet
         /\ \A b \in Reloads : call'[b] = Idle \/ call'[b] \in ReloadSet
         /\ \A b \in Commands : call'[b].step # "apply"
<1>1. Deciders \subseteq Actors /\ Reloads \subseteq Actors /\ Commands \subseteq Actors
  BY DEF Deciders, Actors
<1>2. ~(a \in Deciders /\ a \in Reloads)
  BY ActorsAre
<1> QED
  BY <1>1, <1>2 DEF ConsentTypes

LEMMA StepConsentTypes ==
  ASSUME ConsentInv, [ConsentNext]_consentVars
  PROVE  ConsentTypes'
<1>t. ConsentTypes
  BY DEF ConsentInv
<1>m. ASSUME NEW a \in Actors, unlock(a) PROVE mu' \in Consoles \cup {NoOne}
  BY <1>m, <1>t DEF unlock, ConsentTypes
<1>i. Idle.step # "apply" /\ Deciders \subseteq Actors
  BY IdleIs DEF Deciders, Actors
<1>1. ASSUME NEW a \in Deciders, NEW p \in Plugins, NEW op \in OpSet, NEW e \in EntrySet, Reads(a, op, p, e)
      PROVE  ConsentTypes'
  <2>0. a \in Actors
    BY <1>i
  <2>1. [step |-> "check", op |-> op, plugin |-> p, entry |-> e, copy |-> deployment] \in ChangeSet
    BY <1>t DEF ConsentTypes, ChangeSet
  <2>2. call'[a] \in ChangeSet /\ call'[a].step = "check" /\ \A b \in Actors : b # a => call'[b] = call[b]
    BY <1>1, <2>1 DEF Reads
  <2>3. /\ \A b \in Deciders : call'[b] = Idle \/ call'[b] \in ChangeSet
        /\ \A b \in Reloads : call'[b] = Idle \/ call'[b] \in ReloadSet
        /\ \A b \in Commands : call'[b].step # "apply"
    BY <1>t, <2>0, <2>2, CallsKept
  <2>4. mu' \in Consoles \cup {NoOne}
    BY <1>1, <1>t DEF Reads, lock, ConsentTypes
  <2>5. call' \in [Actors -> {Idle} \cup ChangeSet \cup ReloadSet]
    BY <1>1 DEF Reads
  <2> QED
    BY <1>1, <1>t, <2>3, <2>4, <2>5 DEF Reads, ConsentTypes, ghosts
<1>2. ASSUME NEW a \in Actors, RefuseDeploymentChanged(a) PROVE ConsentTypes'
  <2>1. /\ a \in Deciders /\ call' \in [Actors -> {Idle} \cup ChangeSet \cup ReloadSet]
        /\ \A b \in Actors : b # a => call'[b] = call[b]
        /\ call'[a] = Idle \/ (call'[a] \in ChangeSet /\ call'[a].step = "write")
        /\ mu' = mu \/ unlock(a)
        /\ UNCHANGED <<deployment, running, ghosts>>
    BY <1>2, <1>t, ComparingIs DEF Ended
  <2>2. /\ \A b \in Deciders : call'[b] = Idle \/ call'[b] \in ChangeSet
        /\ \A b \in Reloads : call'[b] = Idle \/ call'[b] \in ReloadSet
        /\ \A b \in Commands : call'[b].step # "apply"
    BY <1>i, <1>t, <2>1, CallsKept
  <2>3. mu' \in Consoles \cup {NoOne}
    BY <1>m, <1>t, <2>1 DEF ConsentTypes
  <2> QED
    BY <1>t, <2>1, <2>2, <2>3 DEF ConsentTypes, ghosts
<1>3. ASSUME NEW a \in Actors, WriteDeployment(a) PROVE ConsentTypes'
  <2>1. /\ a \in Deciders /\ call' \in [Actors -> {Idle} \cup ChangeSet \cup ReloadSet]
        /\ WritingCall(a) /\ deployment' \in CopySet /\ call[a] \in ChangeSet
        /\ UNCHANGED <<mu, running>>
    BY <1>3, <1>t, WritingIs
  <2>2. /\ \A b \in Deciders : call'[b] = Idle \/ call'[b] \in ChangeSet
        /\ \A b \in Reloads : call'[b] = Idle \/ call'[b] \in ReloadSet
        /\ \A b \in Commands : call'[b].step # "apply"
    <3>1. CASE a \notin Consoles /\ Ended(a)
      BY <1>i, <1>t, <3>1, CallsKept DEF Ended
    <3>2. CASE a \in Consoles /\ call'[a] \in ChangeSet /\ \A b \in Actors : b # a => call'[b] = call[b]
      <4>1. a \notin Commands
        BY <3>2, ActorsAre
      <4> QED
        BY <1>t, <2>1, <3>2, <4>1, CallsKept
    <3> QED
      BY <2>1, <3>1, <3>2 DEF WritingCall
  <2>3. stated' \in CopySet
    <3>1. stated' = IF a \in raced THEN deployment' ELSE [stated EXCEPT ![call[a].plugin] = call[a].entry]
      BY <1>3 DEF WriteDeployment
    <3>2. call[a].entry \in EntrySet
      BY <2>1 DEF ChangeSet
    <3> QED
      BY <1>t, <2>1, <3>1, <3>2 DEF ConsentTypes, CopySet
  <2> QED
    BY <1>t, <2>1, <2>2, <2>3 DEF ConsentTypes
<1>4. ASSUME NEW a \in Actors, applyAndReport(a) PROVE ConsentTypes'
  <2>1. /\ call[a].step = "apply" /\ Ended(a) /\ unlock(a)
        /\ call' \in [Actors -> {Idle} \cup ChangeSet \cup ReloadSet]
        /\ running' \in Converge(call[a].copy, running)
        /\ UNCHANGED <<deployment, stated>>
    BY <1>4, <1>t, ApplyingIs
  <2>2. /\ \A b \in Deciders : call'[b] = Idle \/ call'[b] \in ChangeSet
        /\ \A b \in Reloads : call'[b] = Idle \/ call'[b] \in ReloadSet
        /\ \A b \in Commands : call'[b].step # "apply"
    BY <1>i, <1>t, <2>1, CallsKept DEF Ended
  <2>3. mu' \in Consoles \cup {NoOne}
    BY <1>m, <2>1
  <2>4. call[a].copy \in CopySet
    BY <1>t, <2>1, InCall
  <2>5. running' \in [Plugins -> MountSet \cup {Down}]
    BY <1>t, <2>1, <2>4, ConvergedTypes DEF ConsentTypes
  <2> QED
    BY <1>t, <2>1, <2>2, <2>3, <2>5 DEF ConsentTypes
<1>5. ASSUME NEW a \in Actors, Leaving(a) PROVE ConsentTypes'
  <2>1. /\ Ended(a) /\ unlock(a)
        /\ call' \in [Actors -> {Idle} \cup ChangeSet \cup ReloadSet]
        /\ UNCHANGED <<deployment, running, stated>>
    BY <1>5, <1>t, LeavingIs
  <2>2. /\ \A b \in Deciders : call'[b] = Idle \/ call'[b] \in ChangeSet
        /\ \A b \in Reloads : call'[b] = Idle \/ call'[b] \in ReloadSet
        /\ \A b \in Commands : call'[b].step # "apply"
    BY <1>i, <1>t, <2>1, CallsKept DEF Ended
  <2>3. mu' \in Consoles \cup {NoOne}
    BY <1>m, <2>1
  <2> QED
    BY <1>t, <2>1, <2>2, <2>3 DEF ConsentTypes
<1>6. ASSUME NEW a \in Actors, Reload(a) PROVE ConsentTypes'
  <2>1. /\ a \in Reloads /\ call'[a] \in ReloadSet
        /\ \A b \in Actors : b # a => call'[b] = call[b]
        /\ call' \in [Actors -> {Idle} \cup ChangeSet \cup ReloadSet]
        /\ UNCHANGED <<deployment, mu, running, stated>>
    BY <1>6, <1>t, ReloadIs
  <2>2. a \notin Commands
    BY <2>1, ActorsAre DEF Deciders
  <2>3. /\ \A b \in Deciders : call'[b] = Idle \/ call'[b] \in ChangeSet
        /\ \A b \in Reloads : call'[b] = Idle \/ call'[b] \in ReloadSet
        /\ \A b \in Commands : call'[b].step # "apply"
    BY <1>t, <2>1, <2>2, CallsKept
  <2> QED
    BY <1>t, <2>1, <2>3 DEF ConsentTypes
<1>7. CASE assemblePlugins
  <2>1. running' \in [Plugins -> MountSet \cup {Down}]
    <3>1. [p \in Plugins |-> Down] \in [Plugins -> MountSet \cup {Down}]
      OBVIOUS
    <3>2. running' \in Converge(deployment, [p \in Plugins |-> Down])
      BY <1>7, <1>t, AssemblingIs
    <3> QED
      BY <1>t, <3>1, <3>2, ConvergedTypes DEF ConsentTypes
  <2>2. /\ \A a \in Commands : call'[a] = call[a]
        /\ \A a \in Consoles \cup Reloads : call'[a] = Idle
        /\ call' \in [Actors -> {Idle} \cup ChangeSet \cup ReloadSet]
        /\ mu' = NoOne /\ UNCHANGED <<deployment, stated>>
    BY <1>7, <1>t, AssemblingIs
  <2> QED
    BY <1>t, <2>1, <2>2 DEF ConsentTypes, Deciders
<1>8. ASSUME NEW p \in Plugins, HandEdit(p) PROVE ConsentTypes'
  BY <1>8, <1>t, EditingIs DEF ConsentTypes
<1>9. CASE UNCHANGED consentVars
  BY <1>9, <1>t DEF consentVars, ConsentTypes
<1> QED
  BY <1>1, <1>2, <1>3, <1>4, <1>5, <1>6, <1>7, <1>8, <1>9, <1>t, ConsentCases

LEMMA Apart ==
  /\ Deciders \subseteq Actors /\ Reloads \subseteq Actors /\ Consoles \subseteq Deciders
  /\ Deciders \cap Reloads = {} /\ Commands \cap Consoles = {}
  BY ConsentAssumption DEF Deciders, Actors

LEMMA StepExclusive ==
  ASSUME ConsentInv, [ConsentNext]_consentVars
  PROVE  Exclusive'
<1>t. ConsentTypes /\ Exclusive
  BY DEF ConsentInv
<1>n. NoOne \notin Consoles /\ mu \in Consoles \cup {NoOne}
  BY <1>t, ConsentAssumption DEF ConsentTypes
<1>e. ASSUME NEW a \in Actors, Ended(a), unlock(a), call[a] # Idle \/ a \notin Consoles PROVE Exclusive'
  BY <1>e, <1>n, <1>t, Apart DEF Exclusive, Ended, unlock
<1>1. ASSUME NEW a \in Deciders, NEW p \in Plugins, NEW op \in OpSet, NEW e \in EntrySet, Reads(a, op, p, e)
      PROVE  Exclusive'
  <2>1. call'[a] # Idle /\ \A b \in Actors : b # a => call'[b] = call[b]
    <3>1. call'[a].step = "check"
      BY <1>1 DEF Reads
    <3> QED
      BY <1>1, <3>1, IdleIs DEF Reads
  <2>2. CASE a \in Consoles
    <3>1. mu = NoOne /\ mu' = a
      BY <1>1, <2>2 DEF Reads, lock
    <3> QED
      BY <1>n, <1>t, <2>1, <3>1, Apart DEF Exclusive
  <2>3. CASE a \notin Consoles
    <3>1. mu' = mu
      BY <1>1, <2>3 DEF Reads, lock
    <3> QED
      BY <1>t, <2>1, <2>3, <3>1, Apart DEF Exclusive
  <2> QED
    BY <2>2, <2>3
<1>2. ASSUME NEW a \in Actors, RefuseDeploymentChanged(a) PROVE Exclusive'
  <2>1. call[a] # Idle
    BY <1>2, <1>t, ComparingIs, IdleIs
  <2>2. CASE Ended(a) /\ unlock(a)
    BY <1>e, <2>1, <2>2
  <2>3. CASE ~(Ended(a) /\ unlock(a))
    <3>1. call'[a] \in ChangeSet /\ mu' = mu /\ \A b \in Actors : b # a => call'[b] = call[b]
      BY <1>2, <1>t, <2>3, ComparingIs
    <3>2. call'[a] # Idle
      BY <3>1, IdleIs
    <3> QED
      BY <1>t, <2>1, <3>1, <3>2, Apart DEF Exclusive
  <2> QED
    BY <2>2, <2>3
<1>3. ASSUME NEW a \in Actors, WriteDeployment(a) PROVE Exclusive'
  <2>1. call[a] # Idle /\ mu' = mu /\ WritingCall(a)
    BY <1>3, <1>t, WritingIs, IdleIs
  <2>2. CASE a \notin Consoles /\ Ended(a)
    BY <1>t, <2>1, <2>2, Apart DEF Exclusive, Ended
  <2>3. CASE a \in Consoles /\ call'[a] \in ChangeSet /\ \A b \in Actors : b # a => call'[b] = call[b]
    <3>1. call'[a] # Idle
      BY <2>3, IdleIs
    <3> QED
      BY <1>t, <2>1, <2>3, <3>1, Apart DEF Exclusive
  <2> QED
    BY <2>1, <2>2, <2>3 DEF WritingCall
<1>4. ASSUME NEW a \in Actors, applyAndReport(a) \/ Leaving(a) PROVE Exclusive'
  BY <1>4, <1>e, <1>t, ApplyingIs, LeavingIs, IdleIs
<1>5. ASSUME NEW a \in Actors, Reload(a) PROVE Exclusive'
  <2>1. a \notin Consoles /\ mu' = mu /\ \A b \in Actors : b # a => call'[b] = call[b]
    BY <1>5, <1>t, ReloadIs, Apart
  <2> QED
    BY <1>t, <2>1, Apart DEF Exclusive
<1>6. CASE assemblePlugins
  <2>1. mu' = NoOne /\ \A a \in Consoles : call'[a] = Idle
    BY <1>6, <1>t, AssemblingIs
  <2> QED
    BY <1>n, <2>1 DEF Exclusive
<1>7. ASSUME NEW p \in Plugins, HandEdit(p) PROVE Exclusive'
  BY <1>7, <1>t, EditingIs DEF Exclusive
<1>8. CASE UNCHANGED consentVars
  BY <1>8, <1>t DEF consentVars, Exclusive
<1> QED
  BY <1>1, <1>2, <1>3, <1>4, <1>5, <1>6, <1>7, <1>8, <1>t, ConsentCases

LEMMA StepUpToDate ==
  ASSUME ConsentInv, [ConsentNext]_consentVars
  PROVE  UpToDate'
<1>t. ConsentTypes /\ UpToDate /\ Exclusive
  BY DEF ConsentInv
<1>i. Idle.step # "write"
  BY IdleIs
\* Nobody writes: a call ends, or goes on to another step than the write.
<1>a. ASSUME NEW a \in Actors, \A b \in Actors : b # a => call'[b] = call[b],
             call'[a].step # "write", UNCHANGED <<deployment, stated>>,
             \A b \in Actors : b # a /\ b \in raced => b \in raced'
      PROVE  UpToDate'
  BY <1>a, <1>t, Apart DEF UpToDate
<1>1. ASSUME NEW a \in Deciders, NEW p \in Plugins, NEW op \in OpSet, NEW e \in EntrySet, Reads(a, op, p, e)
      PROVE  UpToDate'
  <2>1. call'[a].step = "check"
    BY <1>1 DEF Reads
  <2> QED
    BY <1>1, <1>a, <2>1, Apart DEF Reads, ghosts
<1>2. ASSUME NEW a \in Actors, RefuseDeploymentChanged(a) PROVE UpToDate'
  <2>1. UNCHANGED <<deployment, stated, raced>> /\ \A b \in Actors : b # a => call'[b] = call[b]
    BY <1>2, <1>t, ComparingIs DEF ghosts
  <2>2. CASE Ended(a)
    BY <1>a, <1>i, <2>1, <2>2 DEF Ended
  <2>3. CASE ~Ended(a)
    <3>1. call'[a].copy = deployment
      BY <1>2, <1>t, <2>3, ComparingIs
    <3> QED
      BY <1>t, <2>1, <3>1, Apart DEF UpToDate
  <2> QED
    BY <2>2, <2>3
<1>3. ASSUME NEW a \in Actors, WriteDeployment(a) PROVE UpToDate'
  <2>1. /\ a \in Deciders /\ call[a] \in ChangeSet /\ call[a].step = "write" /\ WritingCall(a)
        /\ deployment' = [call[a].copy EXCEPT ![call[a].plugin] = call[a].entry]
    BY <1>3, <1>t, WritingIs
  <2>2. /\ stated' = IF a \in raced THEN deployment' ELSE [stated EXCEPT ![call[a].plugin] = call[a].entry]
        /\ raced' = (raced \ {a}) \cup Overtakes(a)
    BY <1>3 DEF WriteDeployment
  <2>3. deployment' = stated'
    BY <1>t, <2>1, <2>2 DEF UpToDate
  <2>4. call'[a].step # "write" /\ \A b \in Actors : b # a => call'[b] = call[b]
    BY <1>i, <2>1 DEF WritingCall, Ended
  <2>5. ASSUME NEW b \in Deciders, call'[b].step = "write" PROVE b \in raced'
    <3>1. b # a /\ call[b].step = "write" /\ b \in Actors
      BY <2>4, <2>5, Apart
    <3>2. ~({a, b} \subseteq Consoles)
      BY <1>t, <2>1, <3>1, IdleIs DEF Exclusive
    <3>3. b \in Overtakes(a)
      BY <2>5, <3>1, <3>2 DEF Overtakes, Deciders
    <3> QED
      BY <2>2, <3>3
  <2> QED
    BY <2>3, <2>5 DEF UpToDate
<1>4. ASSUME NEW a \in Actors, applyAndReport(a) PROVE UpToDate'
  BY <1>4, <1>a, <1>i, <1>t, ApplyingIs DEF Ended
<1>5. ASSUME NEW a \in Actors, Leaving(a) PROVE UpToDate'
  BY <1>5, <1>a, <1>i, <1>t, LeavingIs DEF Ended
<1>6. ASSUME NEW a \in Actors, Reload(a) PROVE UpToDate'
  BY <1>6, <1>a, <1>t, ReloadIs
<1>7. CASE assemblePlugins
  <2>1. /\ \A a \in Commands : call'[a] = call[a]
        /\ \A a \in Consoles : call'[a] = Idle
        /\ raced' = raced \cap Commands /\ UNCHANGED <<deployment, stated>>
    BY <1>7, <1>t, AssemblingIs
  <2> QED
    BY <1>i, <1>t, <2>1 DEF UpToDate, Deciders
<1>8. ASSUME NEW p \in Plugins, HandEdit(p) PROVE UpToDate'
  BY <1>8, <1>t, EditingIs DEF UpToDate
<1>9. CASE UNCHANGED consentVars
  BY <1>9, <1>t DEF consentVars, UpToDate
<1> QED
  BY <1>1, <1>2, <1>3, <1>4, <1>5, <1>6, <1>7, <1>8, <1>9, <1>t, ConsentCases

\* What was decided or accepted once stays so.
LEMMA GhostsGrow ==
  ASSUME ConsentTypes, [ConsentNext]_consentVars
  PROVE  decided \subseteq decided' /\ accepted \subseteq accepted'
<1>1. ASSUME NEW a \in Actors, WriteDeployment(a) PROVE decided \subseteq decided' /\ accepted \subseteq accepted'
  BY <1>1 DEF WriteDeployment
<1>2. ASSUME NEW a \in Actors, RefuseDeploymentChanged(a) \/ applyAndReport(a) \/ Leaving(a) \/ Reload(a)
      PROVE  UNCHANGED <<decided, accepted>>
  BY <1>2, ComparingIs, ApplyingIs, LeavingIs, ReloadIs DEF ghosts
<1> QED
  BY <1>1, <1>2, ConsentCases, EditingIs, AssemblingIs DEF Reads, ghosts, consentVars

LEMMA SoundStays ==
  ASSUME NEW c, Sound(c), decided \subseteq decided', accepted \subseteq accepted'
  PROVE  Sound(c)'
  BY DEF Sound

LEMMA StepCopiesSound ==
  ASSUME ConsentInv, [ConsentNext]_consentVars
  PROVE  CopiesSound'
<1>t. ConsentTypes /\ CopiesSound /\ EntriesSound
  BY DEF ConsentInv
<1>g. decided \subseteq decided' /\ accepted \subseteq accepted'
  BY <1>t, GhostsGrow
<1>f. ASSUME UNCHANGED deployment PROVE Sound(deployment)'
  <2>1. PICK c : c = deployment
    OBVIOUS
  <2>2. Sound(c)'
    BY <1>g, <1>t, <2>1, SoundStays DEF CopiesSound
  <2> QED
    BY <1>f, <2>1, <2>2 DEF Sound
<1>o. ASSUME NEW a \in Actors, call'[a] # Idle, Sound(deployment)',
             \/ call'[a] = call[a] \/ call'[a].copy = deployment' \/ call'[a].copy = deployment
             \/ (call[a] # Idle /\ call'[a].copy = call[a].copy)
      PROVE  Sound(call[a].copy)'
  <2>1. PICK c : c = call'[a].copy
    OBVIOUS
  <2>2. Sound(c)'
    <3>1. CASE c = deployment'
      BY <1>o, <3>1 DEF Sound
    <3>2. CASE Sound(c)
      BY <1>g, <3>2, SoundStays
    <3> QED
      BY <1>o, <1>t, <2>1, <3>1, <3>2 DEF CopiesSound
  <2> QED
    BY <2>1, <2>2 DEF Sound
\* Somebody but the writer of the file.
<1>u. ASSUME UNCHANGED deployment,
             \A a \in Actors : \/ call'[a] = Idle \/ call'[a] = call[a] \/ call'[a].copy = deployment
                               \/ (call[a] # Idle /\ call'[a].copy = call[a].copy)
      PROVE  CopiesSound'
  BY <1>f, <1>o, <1>u DEF CopiesSound
<1>1. ASSUME NEW a \in Deciders, NEW p \in Plugins, NEW op \in OpSet, NEW e \in EntrySet, Reads(a, op, p, e)
      PROVE  CopiesSound'
  <2>1. call'[a].copy = deployment
    BY <1>1 DEF Reads
  <2> QED
    BY <1>1, <1>u, <2>1 DEF Reads
<1>2. ASSUME NEW a \in Actors, RefuseDeploymentChanged(a) PROVE CopiesSound'
  <2>1. call[a] # Idle
    BY <1>2, <1>t, ComparingIs, IdleIs
  <2> QED
    BY <1>2, <1>t, <1>u, <2>1, ComparingIs DEF Ended
<1>3. ASSUME NEW a \in Actors, WriteDeployment(a) PROVE CopiesSound'
  <2>1. /\ a \in Deciders /\ call[a] \in ChangeSet /\ call[a].step = "write" /\ WritingCall(a)
        /\ deployment' \in CopySet /\ deployment'[call[a].plugin] = call[a].entry
        /\ \A q \in Plugins : q # call[a].plugin => deployment'[q] = call[a].copy[q]
    BY <1>3, <1>t, WritingIs
  <2>2. call[a] # Idle /\ a \in Actors
    BY <2>1, IdleIs
  <2>3. Sound(call[a].copy) /\ EntrySound(a)
    BY <1>t, <2>1, <2>2 DEF CopiesSound, EntriesSound
  <2>p. PICK p : p = call[a].plugin
    OBVIOUS
  <2>e. PICK e : e = call[a].entry
    OBVIOUS
  <2>4. /\ decided' = decided \cup (IF e.enabled /\ call[a].op # "deny" THEN {<<p, e.version, e.caps>>} ELSE {})
        /\ accepted' = accepted \cup (IF call[a].op = "accept" THEN {<<p, e.version>>} ELSE {})
    BY <1>3, <2>p, <2>e DEF WriteDeployment
  <2>5. Enabled(e) => <<p, e.version, e.caps>> \in decided'
    BY <2>3, <2>4, <2>e DEF Enabled, EntrySound
  <2>6. e.accepted # NoBytes => <<p, e.accepted>> \in accepted'
    BY <2>3, <2>4, <2>e, <2>p DEF EntrySound
  <2>7. ASSUME NEW q \in Plugins
        PROVE  /\ Enabled(deployment'[q]) => <<q, deployment'[q].version, deployment'[q].caps>> \in decided'
               /\ IsEntry(deployment'[q]) /\ deployment'[q].accepted # NoBytes =>
                    <<q, deployment'[q].accepted>> \in accepted'
    <3>1. CASE q = p
      <4>1. deployment'[q] = e
        BY <2>1, <2>e, <2>p, <3>1
      <4> QED
        BY <2>5, <2>6, <3>1, <4>1
    <3>2. CASE q # p
      <4>1. deployment'[q] = call[a].copy[q]
        BY <2>1, <2>p, <3>2
      <4> QED
        BY <1>g, <2>3, <4>1 DEF Sound
    <3> QED
      BY <3>1, <3>2
  <2>8. Sound(deployment)'
    BY <2>7 DEF Sound, Enabled, IsEntry
  <2>9. \A b \in Actors : call'[b] = Idle \/ call'[b] = call[b] \/ call'[b].copy = deployment'
    BY <2>1 DEF WritingCall, Ended
  <2> QED
    BY <1>o, <2>8, <2>9 DEF CopiesSound
<1>4. ASSUME NEW a \in Actors, applyAndReport(a) PROVE CopiesSound'
  BY <1>4, <1>t, <1>u, ApplyingIs DEF Ended
<1>5. ASSUME NEW a \in Actors, Leaving(a) PROVE CopiesSound'
  BY <1>5, <1>t, <1>u, LeavingIs DEF Ended
<1>6. ASSUME NEW a \in Actors, Reload(a) PROVE CopiesSound'
  BY <1>6, <1>t, <1>u, ReloadIs
<1>7. CASE assemblePlugins
  BY <1>7, <1>t, <1>u, AssemblingIs DEF Actors
<1>8. ASSUME NEW p \in Plugins, HandEdit(p) PROVE CopiesSound'
  <2>1. /\ \A q \in Plugins : q # p => deployment'[q] = deployment[q]
        /\ IsEntry(deployment'[p]) => IsEntry(deployment[p]) /\ deployment'[p].accepted = deployment[p].accepted
        /\ Enabled(deployment'[p]) => <<p, deployment'[p].version, deployment'[p].caps>> \in decided'
        /\ call' = call
    BY <1>8, <1>t, EditingIs
  <2>2. ASSUME NEW q \in Plugins
        PROVE  /\ Enabled(deployment'[q]) => <<q, deployment'[q].version, deployment'[q].caps>> \in decided'
               /\ IsEntry(deployment'[q]) /\ deployment'[q].accepted # NoBytes =>
                    <<q, deployment'[q].accepted>> \in accepted'
    <3>1. CASE q = p
      BY <1>g, <1>t, <2>1, <3>1 DEF CopiesSound, Sound
    <3>2. CASE q # p
      BY <1>g, <1>t, <2>1, <3>2 DEF CopiesSound, Sound
    <3> QED
      BY <3>1, <3>2
  <2>3. Sound(deployment)'
    BY <2>2 DEF Sound, Enabled, IsEntry
  <2> QED
    BY <1>o, <2>1, <2>3 DEF CopiesSound
<1>9. CASE UNCHANGED consentVars
  BY <1>9, <1>u DEF consentVars
<1> QED
  BY <1>1, <1>2, <1>3, <1>4, <1>5, <1>6, <1>7, <1>8, <1>9, <1>t, ConsentCases

LEMMA StepEntriesSound ==
  ASSUME ConsentInv, [ConsentNext]_consentVars
  PROVE  EntriesSound'
<1>t. ConsentTypes /\ EntriesSound /\ CopiesSound
  BY DEF ConsentInv
<1>g. decided \subseteq decided' /\ accepted \subseteq accepted'
  BY <1>t, GhostsGrow
<1>0. SUFFICES ASSUME NEW b \in Deciders, call'[b] # Idle PROVE EntrySound(b)'
  BY DEF EntriesSound
<1>b. b \in Actors
  BY Apart
\* A call that goes on with its entry, to no application.
<1>s. ASSUME call[b] # Idle, call'[b].op = call[b].op, call'[b].plugin = call[b].plugin,
             call'[b].entry = call[b].entry,
             call'[b].step = "apply" => call'[b].copy[call'[b].plugin] = call'[b].entry
      PROVE  EntrySound(b)'
  <2>1. EntrySound(b)
    BY <1>s, <1>t DEF EntriesSound
  <2> QED
    BY <1>g, <1>s, <2>1 DEF EntrySound
<1>u. ASSUME call'[b] = call[b] PROVE EntrySound(b)'
  <2>1. call[b] # Idle
    BY <1>0, <1>u
  <2>2. EntrySound(b)
    BY <1>t, <2>1 DEF EntriesSound
  <2> QED
    BY <1>g, <1>u, <2>2 DEF EntrySound
<1>1. ASSUME NEW a \in Deciders, NEW p \in Plugins, NEW op \in OpSet, NEW e \in EntrySet,
             EntryAsked(op, p, e), Reads(a, op, p, e)
      PROVE  EntrySound(b)'
  <2>1. CASE a = b
    <3>1. /\ call'[b].op = op /\ call'[b].plugin = p /\ call'[b].entry = e /\ call'[b].step = "check"
      BY <1>1, <2>1 DEF Reads
    <3>2. e.accepted # NoBytes =>
            \/ op = "accept" /\ e.accepted = e.version
            \/ <<p, e.accepted>> \in accepted
      BY <1>1, <1>t DEF EntryAsked, CopiesSound, Sound
    <3>3. op = "deny" => ~e.enabled
      BY <1>1 DEF EntryAsked
    <3> QED
      BY <1>g, <3>1, <3>2, <3>3 DEF EntrySound
  <2>2. CASE a # b
    BY <1>1, <1>b, <1>u, <2>2 DEF Reads
  <2> QED
    BY <2>1, <2>2
<1>2. ASSUME NEW a \in Actors, RefuseDeploymentChanged(a) PROVE EntrySound(b)'
  <2>1. CASE a = b
    <3>1. ~Ended(a)
      BY <1>0, <2>1 DEF Ended
    <3>2. call[a] # Idle
      BY <1>2, <1>t, ComparingIs, IdleIs
    <3> QED
      BY <1>2, <1>s, <1>t, <2>1, <3>1, <3>2, ComparingIs
  <2>2. CASE a # b
    BY <1>2, <1>b, <1>t, <1>u, <2>2, ComparingIs
  <2> QED
    BY <2>1, <2>2
<1>3. ASSUME NEW a \in Actors, WriteDeployment(a) PROVE EntrySound(b)'
  <2>0. WritingCall(a) /\ call[a] # Idle /\ deployment'[call[a].plugin] = call[a].entry
    BY <1>3, <1>t, WritingIs, IdleIs
  <2>1. CASE a = b
    <3>1. ~Ended(a)
      BY <1>0, <2>1 DEF Ended
    <3> QED
      BY <1>s, <2>0, <2>1, <3>1 DEF WritingCall
  <2>2. CASE a # b
    BY <1>b, <1>u, <2>0, <2>2 DEF WritingCall, Ended
  <2> QED
    BY <2>1, <2>2
<1>4. ASSUME NEW a \in Actors, applyAndReport(a) \/ Leaving(a) PROVE EntrySound(b)'
  <2>1. Ended(a)
    BY <1>4, <1>t, ApplyingIs, LeavingIs
  <2> QED
    BY <1>0, <1>b, <1>u, <2>1 DEF Ended
<1>5. ASSUME NEW a \in Actors, Reload(a) PROVE EntrySound(b)'
  <2>1. a # b
    BY <1>5, <1>t, Apart, ReloadIs
  <2> QED
    BY <1>5, <1>b, <1>t, <1>u, <2>1, ReloadIs
<1>6. CASE assemblePlugins
  BY <1>0, <1>6, <1>t, <1>u, AssemblingIs DEF Deciders
<1>7. ASSUME NEW p \in Plugins, HandEdit(p) PROVE EntrySound(b)'
  BY <1>7, <1>t, <1>u, EditingIs
<1>8. CASE UNCHANGED consentVars
  BY <1>8, <1>u DEF consentVars
<1> QED
  BY <1>1, <1>2, <1>3, <1>4, <1>5, <1>6, <1>7, <1>8, <1>t, ConsentCases

\* A convergence to a sound copy mounts only what is rightful.
LEMMA ConvergedRightful ==
  ASSUME NEW c \in CopySet, Sound(c), NEW p \in Plugins, NEW now, Rightful(p, now),
         NEW m \in Converged(c[p], now)
  PROVE  Rightful(p, m)
<1>1. CASE m = now
  BY <1>1
<1>2. CASE m = Down
  BY <1>2 DEF Rightful
<1>3. CASE m # now /\ m # Down
  <2>1. /\ Enabled(c[p]) /\ admit(c[p]) /\ reconcileCapabilities(c[p])
        /\ m = [version |-> c[p].version, caps |-> Declares[c[p].version]]
    BY <1>3 DEF Converged
  <2>2. c[p] \in EntrySet /\ IsEntry(c[p])
    BY <2>1 DEF CopySet, Enabled, IsEntry
  <2>3. c[p].version \in Versions /\ c[p].version # NoBytes
    BY <2>2, ConsentAssumption DEF EntrySet
  <2>4. m.version = c[p].version /\ m.caps = Declares[c[p].version]
    BY <2>1
  <2>5. <<p, c[p].version, c[p].caps>> \in decided /\ m.caps \subseteq c[p].caps
    BY <2>1, <2>4 DEF Sound, reconcileCapabilities
  <2>6. \E d \in decided : d[1] = p /\ d[2] = m.version /\ m.caps \subseteq d[3]
    <3>1. PICK d \in decided : d = <<p, c[p].version, c[p].caps>>
      BY <2>5
    <3>2. d[1] = p /\ d[2] = c[p].version /\ d[3] = c[p].caps
      BY <3>1
    <3> QED
      BY <2>4, <2>5, <3>2
  <2>7. requireSignature /\ m.version \notin Endorsed => <<p, m.version>> \in accepted
    BY <2>1, <2>2, <2>3, <2>4 DEF admit, Sound
  <2> QED
    BY <2>6, <2>7 DEF Rightful
<1> QED
  BY <1>1, <1>2, <1>3

LEMMA RightfulStays ==
  ASSUME NEW p, NEW m, Rightful(p, m), decided \subseteq decided', accepted \subseteq accepted'
  PROVE  Rightful(p, m)'
  BY DEF Rightful

LEMMA StepRunningSound ==
  ASSUME ConsentInv, [ConsentNext]_consentVars
  PROVE  RunningSound'
<1>t. ConsentTypes /\ RunningSound /\ CopiesSound
  BY DEF ConsentInv
<1>g. decided \subseteq decided' /\ accepted \subseteq accepted'
  BY <1>t, GhostsGrow
<1>r. ASSUME \A p \in Plugins : Rightful(p, running'[p]) PROVE RunningSound'
  <2>1. SUFFICES ASSUME NEW p \in Plugins PROVE Rightful(p, running[p])'
    BY DEF RunningSound
  <2>2. PICK m : m = running'[p]
    OBVIOUS
  <2>3. Rightful(p, m)'
    BY <1>g, <1>r, <2>2, RightfulStays
  <2> QED
    BY <2>2, <2>3 DEF Rightful
<1>u. ASSUME UNCHANGED running PROVE RunningSound'
  BY <1>r, <1>t, <1>u DEF RunningSound
<1>1. ASSUME NEW a \in Actors, applyAndReport(a) PROVE RunningSound'
  <2>1. call[a].step = "apply" /\ running' \in Converge(call[a].copy, running)
    BY <1>1, <1>t, ApplyingIs
  <2>2. call[a].copy \in CopySet /\ Sound(call[a].copy)
    BY <1>t, <2>1, InCall, IdleIs DEF CopiesSound
  <2>3. \A p \in Plugins : running'[p] \in Converged(call[a].copy[p], running[p])
    BY <1>t, <2>1, <2>2, ConvergedTypes DEF ConsentTypes
  <2>4. \A p \in Plugins : Rightful(p, running'[p])
    BY <1>t, <2>2, <2>3, ConvergedRightful DEF RunningSound
  <2> QED
    BY <1>r, <2>4
<1>2. CASE assemblePlugins
  <2>1. running' \in Converge(deployment, [p \in Plugins |-> Down])
    BY <1>2, <1>t, AssemblingIs
  <2>2. [p \in Plugins |-> Down] \in [Plugins -> MountSet \cup {Down}]
    OBVIOUS
  <2>3. \A p \in Plugins : running'[p] \in Converged(deployment[p], Down)
    <3>1. \A p \in Plugins : running'[p] \in Converged(deployment[p], [q \in Plugins |-> Down][p])
      BY <1>t, <2>1, <2>2, ConvergedTypes DEF ConsentTypes
    <3> QED
      BY <3>1
  <2>4. \A p \in Plugins : Rightful(p, Down)
    BY DEF Rightful
  <2>5. \A p \in Plugins : Rightful(p, running'[p])
    BY <1>t, <2>3, <2>4, ConvergedRightful DEF CopiesSound, ConsentTypes
  <2> QED
    BY <1>r, <2>5
<1>3. ASSUME NEW a \in Actors, RefuseDeploymentChanged(a) \/ WriteDeployment(a) \/ Leaving(a) \/ Reload(a)
      PROVE  UNCHANGED running
  BY <1>3, <1>t, ComparingIs, WritingIs, LeavingIs, ReloadIs
<1>4. (\E p \in Plugins : HandEdit(p)) \/ UNCHANGED consentVars => UNCHANGED running
  BY <1>t, EditingIs DEF consentVars
<1> QED
  BY <1>1, <1>2, <1>3, <1>4, <1>u, <1>t, ConsentCases DEF Reads

LEMMA ConvergedDown ==
  ASSUME NEW e, NEW now, ~Enabled(e)
  PROVE  Converged(e, now) = {Down}
  BY DEF Converged

LEMMA StepDeniedSound ==
  ASSUME ConsentInv, [ConsentNext]_consentVars
  PROVE  DeniedSound'
<1>t. ConsentTypes /\ DeniedSound /\ EntriesSound /\ Exclusive
  BY DEF ConsentInv
<1>i. Idle.step # "apply" /\ Consoles \cup Reloads \subseteq Actors
  BY IdleIs, Apart
<1>0. SUFFICES ASSUME NEW p \in denied'
               PROVE  /\ p \in Plugins /\ running'[p] = Down /\ ~Enabled(deployment'[p])
                      /\ \A a \in Consoles \cup Reloads : call'[a].step = "apply" => ~Enabled(call'[a].copy[p])
  BY DEF DeniedSound, Enabled
<1> DEFINE Goal == /\ p \in Plugins /\ running'[p] = Down /\ ~Enabled(deployment'[p])
                   /\ \A a \in Consoles \cup Reloads : call'[a].step = "apply" => ~Enabled(call'[a].copy[p])
<1>d. ASSUME p \in denied
      PROVE  /\ p \in Plugins /\ running[p] = Down /\ ~Enabled(deployment[p])
             /\ \A a \in Consoles \cup Reloads : call[a].step = "apply" => ~Enabled(call[a].copy[p])
  BY <1>d, <1>t DEF DeniedSound
\* Nobody comes to apply, and nothing else changes.
<1>u. ASSUME p \in denied, UNCHANGED <<deployment, running>>,
             \A a \in Actors : call'[a] = call[a] \/ call'[a].step # "apply"
                               \/ call'[a].copy = deployment
      PROVE  Goal
  BY <1>d, <1>i, <1>u
<1>1. ASSUME NEW a \in Deciders, NEW q \in Plugins, NEW op \in OpSet, NEW e \in EntrySet, Reads(a, op, q, e)
      PROVE  Goal
  <2>1. call'[a].step = "check"
    BY <1>1 DEF Reads
  <2> QED
    BY <1>1, <1>u, <2>1 DEF Reads, ghosts
<1>2. ASSUME NEW a \in Actors, RefuseDeploymentChanged(a) PROVE Goal
  <2>1. call'[a].step # "apply" /\ \A b \in Actors : b # a => call'[b] = call[b]
    BY <1>2, <1>i, <1>t, ComparingIs DEF Ended
  <2>2. UNCHANGED <<deployment, running, denied>>
    BY <1>2, <1>t, ComparingIs DEF ghosts
  <2> QED
    BY <1>u, <2>1, <2>2
<1>3. ASSUME NEW a \in Actors, WriteDeployment(a) PROVE Goal
  <2>1. WritingCall(a) /\ running' = running
        /\ deployment' = [call[a].copy EXCEPT ![call[a].plugin] = call[a].entry]
    BY <1>3, <1>t, WritingIs
  <2>2. denied' = StillDown(deployment')
    BY <1>3, <2>1 DEF WriteDeployment
  <2>3. p \in denied /\ ~Enabled(deployment'[p])
    BY <2>2 DEF StillDown
  <2>4. \A b \in Actors : call'[b] = call[b] \/ call'[b].step # "apply" \/ call'[b].copy = deployment'
    BY <1>i, <2>1 DEF WritingCall, Ended
  <2> QED
    BY <1>d, <1>i, <2>1, <2>3, <2>4
<1>4. ASSUME NEW a \in Actors, applyAndReport(a) PROVE Goal
  <2>1. /\ call[a].step = "apply" /\ Ended(a) /\ a \in Consoles \cup Reloads
        /\ running' \in Converge(call[a].copy, running)
        /\ denied' = denied \cup (IF a \notin Reloads /\ call[a].op = "deny" THEN
             {q \in {call[a].plugin} : ~Enabled(deployment[q]) /\ ~Recalled(q)} ELSE {})
        /\ deployment' = deployment
    BY <1>4, <1>t, ApplyingIs
  <2>2. call[a].copy \in CopySet /\ call[a] # Idle
    BY <1>t, <2>1, InCall, IdleIs
  <2>3. \A q \in Plugins : running'[q] \in Converged(call[a].copy[q], running[q])
    BY <1>t, <2>1, <2>2, ConvergedTypes DEF ConsentTypes
  <2>4. CASE p \in denied
    <3>1. ~Enabled(call[a].copy[p]) /\ p \in Plugins
      BY <1>d, <2>1, <2>4
    <3>2. running'[p] = Down
      BY <2>3, <3>1, ConvergedDown
    <3> QED
      BY <1>d, <1>i, <2>1, <2>4, <3>2 DEF Ended
  <2>5. CASE p \notin denied
    <3>1. /\ a \notin Reloads /\ call[a].op = "deny" /\ p = call[a].plugin
          /\ ~Enabled(deployment[p]) /\ ~Recalled(p)
      BY <2>1, <2>5
    <3>2. a \in Consoles /\ a \in Deciders
      BY <2>1, <3>1, Apart
    <3>3. call[a] \in ChangeSet
      BY <1>t, <2>2, <3>2 DEF ConsentTypes
    <3>4. EntrySound(a)
      BY <1>t, <2>2, <3>2 DEF EntriesSound
    <3>5. ~Enabled(call[a].copy[p])
      BY <2>1, <3>1, <3>4 DEF EntrySound, Enabled
    <3>6. p \in Plugins
      BY <3>1, <3>3 DEF ChangeSet
    <3>7. running'[p] = Down
      BY <2>3, <3>5, <3>6, ConvergedDown
    <3>8. ASSUME NEW b \in Consoles \cup Reloads, call'[b].step = "apply" PROVE ~Enabled(call'[b].copy[p])
      <4>1. b # a /\ call'[b] = call[b]
        BY <1>i, <2>1, <3>8 DEF Ended
      <4>2. CASE b \in Reloads
        BY <3>1, <3>8, <4>1, <4>2 DEF Recalled
      <4>3. CASE b \in Consoles
        <5>1. call[b] # Idle
          BY <1>i, <3>8, <4>1
        <5>2. mu = a /\ mu = b
          BY <1>t, <2>2, <3>2, <4>3, <5>1 DEF Exclusive
        <5> QED
          BY <4>1, <5>2
      <4> QED
        BY <4>2, <4>3
    <3> QED
      BY <2>1, <3>1, <3>6, <3>7, <3>8
  <2> QED
    BY <2>4, <2>5
<1>5. ASSUME NEW a \in Actors, Leaving(a) PROVE Goal
  BY <1>5, <1>i, <1>t, <1>u, LeavingIs DEF Ended
<1>6. ASSUME NEW a \in Actors, Reload(a) PROVE Goal
  <2>1. p \in denied /\ UNCHANGED <<deployment, running>>
    BY <1>6, <1>t, ReloadIs DEF StillDown
  <2> QED
    BY <1>6, <1>t, <1>u, <2>1, ReloadIs
<1>7. CASE assemblePlugins
  <2>1. /\ \A a \in Consoles \cup Reloads : call'[a] = Idle
        /\ running' \in Converge(deployment, [q \in Plugins |-> Down])
        /\ UNCHANGED <<deployment, denied>>
    BY <1>7, <1>t, AssemblingIs
  <2>2. p \in Plugins /\ ~Enabled(deployment[p])
    BY <1>d, <2>1
  <2>3. [q \in Plugins |-> Down] \in [Plugins -> MountSet \cup {Down}]
    OBVIOUS
  <2>4. running'[p] \in Converged(deployment[p], [q \in Plugins |-> Down][p])
    BY <1>t, <2>1, <2>2, <2>3, ConvergedTypes DEF ConsentTypes
  <2>5. running'[p] = Down
    BY <2>2, <2>4, ConvergedDown
  <2> QED
    BY <1>i, <2>1, <2>2, <2>5
<1>8. ASSUME NEW q \in Plugins, HandEdit(q) PROVE Goal
  <2>1. denied' = StillDown(deployment') /\ UNCHANGED <<call, running>>
    BY <1>8, <1>t, EditingIs
  <2>2. p \in denied /\ ~Enabled(deployment'[p])
    BY <2>1 DEF StillDown
  <2> QED
    BY <1>d, <2>1, <2>2
<1>9. CASE UNCHANGED consentVars
  BY <1>9, <1>u DEF consentVars
<1> QED
  BY <1>1, <1>2, <1>3, <1>4, <1>5, <1>6, <1>7, <1>8, <1>9, <1>t, ConsentCases

LEMMA ConsentInitInv == ConsentInit => ConsentInv
<1> SUFFICES ASSUME ConsentInit PROVE ConsentInv
  OBVIOUS
<1>0. call = [a \in Actors |-> Idle] /\ mu = NoOne /\ accepted = {} /\ stated = deployment
      /\ raced = {} /\ denied = {}
  BY DEF ConsentInit
<1>a. ASSUME NEW v \in Versions PROVE Open(v) \in EntrySet
  BY <1>a, ConsentAssumption DEF Open, EntrySet
<1>1. deployment \in CopySet
  <2>1. CASE deployment = [p \in Plugins |-> NoEntry]
    BY <2>1 DEF CopySet
  <2>2. ASSUME NEW v \in Endorsed, deployment = [p \in Plugins |-> Open(v)] PROVE deployment \in CopySet
    BY <1>a, <2>2, ConsentAssumption DEF CopySet
  <2> QED
    BY <2>1, <2>2 DEF ConsentInit
<1>2. \A p \in Plugins : IsEntry(deployment[p]) =>
        /\ deployment[p] \in EntrySet /\ deployment[p].version \in Endorsed
        /\ deployment[p].caps = Declares[deployment[p].version] /\ deployment[p].accepted = NoBytes
  <2>1. CASE deployment = [p \in Plugins |-> NoEntry]
    BY <2>1 DEF IsEntry
  <2>2. ASSUME NEW v \in Endorsed, deployment = [p \in Plugins |-> Open(v)], NEW p \in Plugins
        PROVE  /\ deployment[p] \in EntrySet /\ deployment[p].version \in Endorsed
               /\ deployment[p].caps = Declares[deployment[p].version] /\ deployment[p].accepted = NoBytes
    <3>1. deployment[p] = Open(v) /\ v \in Versions
      BY <2>2, ConsentAssumption
    <3> QED
      BY <1>a, <2>2, <3>1 DEF Open
  <2> QED
    BY <2>1, <2>2 DEF ConsentInit
<1>3. /\ running = [p \in Plugins |-> IF IsEntry(deployment[p])
             THEN [version |-> deployment[p].version, caps |-> Declares[deployment[p].version]] ELSE Down]
      /\ decided = {<<p, deployment[p].version, deployment[p].caps>> : p \in {q \in Plugins : IsEntry(deployment[q])}}
  BY DEF ConsentInit
<1>4. running \in [Plugins -> MountSet \cup {Down}]
  <2>1. ASSUME NEW p \in Plugins, IsEntry(deployment[p])
        PROVE  [version |-> deployment[p].version, caps |-> Declares[deployment[p].version]] \in MountSet
    BY <1>2, <2>1, ConsentAssumption DEF MountSet, EntrySet
  <2> QED
    BY <1>3, <2>1
<1>5. ConsentTypes
  BY <1>0, <1>1, <1>4, IdleIs, Apart DEF ConsentTypes, Deciders, Actors
<1>6. Exclusive /\ UpToDate /\ EntriesSound /\ DeniedSound
  BY <1>0, IdleIs, Apart, ConsentAssumption DEF Exclusive, UpToDate, EntriesSound, DeniedSound
<1>7. Sound(deployment)
  BY <1>2, <1>3 DEF Sound, Enabled, IsEntry
<1>8. CopiesSound
  BY <1>0, <1>7 DEF CopiesSound
<1>9. RunningSound
  <2>1. ASSUME NEW p \in Plugins, running[p] # Down PROVE Rightful(p, running[p])
    <3>1. IsEntry(deployment[p])
          /\ running[p] = [version |-> deployment[p].version, caps |-> Declares[deployment[p].version]]
      BY <1>3, <2>1
    <3>2. PICK d \in decided : d = <<p, deployment[p].version, deployment[p].caps>>
      BY <1>3, <3>1
    <3>3. d[1] = p /\ d[2] = deployment[p].version /\ d[3] = deployment[p].caps
      BY <3>2
    <3>4. running[p].version = deployment[p].version /\ running[p].caps = deployment[p].caps
      BY <1>2, <3>1
    <3> QED
      BY <1>2, <3>1, <3>3, <3>4 DEF Rightful
  <2> QED
    BY <2>1 DEF RunningSound, Rightful
<1> QED
  BY <1>5, <1>6, <1>8, <1>9 DEF ConsentInv

LEMMA ConsentStepInv == ConsentInv /\ [ConsentNext]_consentVars => ConsentInv'
  BY StepConsentTypes, StepExclusive, StepUpToDate, StepCopiesSound, StepEntriesSound,
     StepRunningSound, StepDeniedSound DEF ConsentInv

LEMMA ConsentInvImplies ==
  ConsentInv => ConsentTypeOK /\ DecisionsStand /\ OnlyAuthorized /\ UnsignedWasAccepted /\ DenialHolds
<1> SUFFICES ASSUME ConsentInv
             PROVE  ConsentTypeOK /\ DecisionsStand /\ OnlyAuthorized /\ UnsignedWasAccepted /\ DenialHolds
  OBVIOUS
<1>1. ConsentTypeOK
  <2>1. ASSUME NEW p \in Plugins, IsEntry(deployment[p])
        PROVE  deployment[p].version \in Versions /\ deployment[p].caps \subseteq Capabilities
    <3>1. deployment[p] \in EntrySet
      BY <2>1 DEF ConsentInv, ConsentTypes, CopySet, IsEntry
    <3> QED
      BY <3>1 DEF EntrySet
  <2>2. ASSUME NEW p \in Plugins, running[p] # Down PROVE running[p].version \in Versions
    <3>1. running[p] \in MountSet
      BY <2>2 DEF ConsentInv, ConsentTypes
    <3> QED
      BY <3>1 DEF MountSet
  <2> QED
    BY <2>1, <2>2 DEF ConsentInv, Exclusive, ConsentTypeOK
<1>2. DecisionsStand
  BY DEF ConsentInv, UpToDate, DecisionsStand
<1>3. OnlyAuthorized /\ UnsignedWasAccepted
  BY DEF ConsentInv, RunningSound, Rightful, OnlyAuthorized, UnsignedWasAccepted
<1>4. DenialHolds
  BY DEF ConsentInv, DeniedSound, DenialHolds
<1> QED
  BY <1>1, <1>2, <1>3, <1>4

\* Any number of plugins, commands, console requests and reloads, any bounds:
\* no decision is taken back by another's write, nothing runs that nobody
\* authorised or that, unsigned, nobody accepted, and a denial that was answered
\* as converged holds.
THEOREM ConsentIsSafe == ConsentSpec => ConsentSafe
  BY ConsentInitInv, ConsentStepInv, ConsentInvImplies, PTL DEF ConsentSpec, ConsentSafe
=============================================================================
