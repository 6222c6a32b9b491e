----------------------------- MODULE PluginPool -----------------------------
(***************************************************************************)
(* The wasm instances of one mounted plugin (internal/plugin/host/pool.go) *)
(* under the tool calls that use them, and the plugin's health             *)
(* (loader.go): enough faults in a row and the call that saw the last one  *)
(* unloads the plugin, on its own goroutine.                               *)
(*                                                                         *)
(* A guest may call tools of the host while it holds an instance           *)
(* (hostcall.go), its own plugin's among them: calls nest.  An instance is *)
(* named after the call it was built for.                                  *)
(***************************************************************************)
EXTENDS Integers, Sequences, FiniteSets

CONSTANTS
  Calls,      \* tool calls that reach this plugin
  Size,       \* slots: MaxInstances
  MaxFaults,  \* the deployment's max_consecutive_faults
  DepthCap,   \* callToolDepthCap
  MaxBroken,  \* bound: instances whose Close reports an error
  Empty,      \* a slot with no instance in it
  NoSlot      \* nothing in hand

ASSUME PoolAssumption ==
  /\ Size \in Nat \ {0} /\ MaxFaults \in Nat \ {0} /\ DepthCap \in Nat /\ MaxBroken \in Nat
  /\ IsFiniteSet(Calls)
  /\ Empty \notin Calls /\ NoSlot \notin Calls /\ Empty # NoSlot

VARIABLES
  free,       \* the channel of slots
  closing,    \* no call is let in any more
  inflight,   \* calls counted in
  at,         \* where each call is
  hand,       \* the slot it has taken
  above,      \* the calls whose guests wait for it
  expired,    \* calls whose context is done
  outcome,    \* what the call came to
  guest,      \* instances, by what has become of each
  mounted,    \* the loader lists the plugin
  faults,     \* in a row
  failed,     \* instances whose Close reported an error
  untold,     \* those no drain has returned yet (disposeErrs)
  told,       \* those a drain returned
  gaveUp      \* a drain ran out of time

callVars == <<at, hand, above, expired, outcome>>
reportVars == <<failed, untold, told, gaveUp>>
poolVars == <<free, closing, inflight, callVars, guest, mounted, faults, reportVars>>

Slots == Calls \cup {Empty}
\* "doomed": its call has returned, and wazero, which saw that call's context end, is still to close
\* the module; "shut": closed so, which no call has been told; "spent": handed out after that; "dead":
\* a call failed on it; "closed": disposed of.
States == {"unborn", "live", "doomed", "shut", "spent", "dead", "closed"}
\* Instance.Dead, asked by release only: not of a module that is still to be closed.
Dead(i) == guest[i] \notin {"live", "doomed"}
Ways == {"out", "resolved", "select", "build", "call", "back", "send", "leave",
         "answer", "unload", "drain", "wait", "runtime", "done"}

Drained(c) == at[c] \in {"wait", "runtime"}
Unfinished(c) == at[c] \notin {"out", "done"}
Counted(c) == at[c] \in {"select", "build", "call", "back", "send", "leave"}
Waited(c) == \E d \in Calls : c \in above[d] /\ Unfinished(d)

\* Instances of S whose Close may report an error.
MayFail(S) == {B \in SUBSET S : Cardinality(failed \cup B) <= MaxBroken}

PoolInit ==
  /\ free = [n \in 1..Size |-> Empty] /\ closing = FALSE /\ inflight = 0
  /\ at = [c \in Calls |-> "out"] /\ hand = [c \in Calls |-> NoSlot]
  /\ above = [c \in Calls |-> {}] /\ expired = {} /\ outcome = [c \in Calls |-> "none"]
  /\ guest = [c \in Calls |-> "unborn"]
  /\ mounted = TRUE /\ faults = 0
  /\ failed = {} /\ untold = {} /\ told = {} /\ gaveUp = FALSE

\* The handler returns; nobody asks the call's context or outcome any more.
Answered(c) ==
  /\ at' = [at EXCEPT ![c] = "done"]
  /\ outcome' = [outcome EXCEPT ![c] = "none"] /\ above' = [above EXCEPT ![c] = {}]
  /\ expired' = expired \ {c}

(***************************************************************************)
(* A call resolves its tool, from a task or from a guest inside a call.    *)
(***************************************************************************)
Resolve(c, over) ==
  /\ at[c] = "out" /\ ~closing
  /\ at' = [at EXCEPT ![c] = "resolved"]
  /\ above' = [above EXCEPT ![c] = over]
  /\ expired' = IF over \cap expired = {} THEN expired ELSE expired \cup {c}
  /\ UNCHANGED <<free, closing, inflight, hand, outcome, guest, mounted, faults, reportVars>>

ResolveTask(c) == Resolve(c, {})

callTool(c, p) ==
  /\ at[p] = "call" /\ ~Waited(p) /\ Cardinality(above[p]) < DepthCap
  /\ Resolve(c, above[p] \cup {p})

\* The timeout of its descriptor, or the task's end; calls below share it.
Expire(c) ==
  /\ at[c] \in {"select", "call"} /\ c \notin expired
  /\ expired' = expired \cup {c} \cup {d \in Calls : c \in above[d] /\ Unfinished(d)}
  /\ UNCHANGED <<free, closing, inflight, at, hand, above, outcome, guest, mounted, faults, reportVars>>

\* pool.enter: the test and the count are one step.
enter(c) ==
  /\ at[c] = "resolved"
  /\ IF closing
       THEN /\ at' = [at EXCEPT ![c] = "answer"]
            /\ outcome' = [outcome EXCEPT ![c] = "fault"] /\ UNCHANGED inflight
       ELSE /\ inflight' = inflight + 1
            /\ at' = [at EXCEPT ![c] = "select"] /\ UNCHANGED outcome
  /\ UNCHANGED <<free, closing, hand, above, expired, guest, mounted, faults, reportVars>>

\* acquire does not ask Dead: one that died in the channel is handed out.
Awaken(i) == guest' = [j \in Calls |-> IF j = i /\ guest[j] = "shut" THEN "spent" ELSE guest[j]]
\* A slip of Take: an instance is handed out and stays in the channel.
Bug_Take(c) ==
  /\ at[c] = "select" /\ free # <<>>
  /\ hand' = [hand EXCEPT ![c] = Head(free)]
  /\ free' = IF Head(free) = Empty THEN Tail(free) ELSE free
  /\ at' = [at EXCEPT ![c] = IF Head(free) = Empty THEN "build" ELSE "call"]
  /\ Awaken(Head(free))
  /\ UNCHANGED <<closing, inflight, above, expired, outcome, mounted, faults, reportVars>>

\* pool.acquire's select, whichever of its cases is ready.
Take(c) ==
  /\ at[c] = "select" /\ free # <<>>
  /\ hand' = [hand EXCEPT ![c] = Head(free)]
  /\ free' = Tail(free)
  /\ at' = [at EXCEPT ![c] = IF Head(free) = Empty THEN "build" ELSE "call"]
  /\ Awaken(Head(free))
  /\ UNCHANGED <<closing, inflight, above, expired, outcome, mounted, faults, reportVars>>

\* A slip of TurnBack: who waits for a slot does not watch its context.
Bug_TurnBack(c) ==
  /\ at[c] = "select" /\ closing
  /\ inflight' = inflight - 1
  /\ at' = [at EXCEPT ![c] = "answer"]
  /\ outcome' = [outcome EXCEPT ![c] = "fault"]
  /\ UNCHANGED <<free, closing, hand, above, expired, guest, mounted, faults, reportVars>>

TurnBack(c) ==
  /\ at[c] = "select" /\ (closing \/ c \in expired)
  /\ inflight' = inflight - 1
  /\ at' = [at EXCEPT ![c] = "answer"]
  /\ \E o \in {"fault", "cancelled"} :
       /\ o = "cancelled" => c \in expired
       /\ outcome' = [outcome EXCEPT ![c] = o]
  /\ UNCHANGED <<free, closing, hand, above, expired, guest, mounted, faults, reportVars>>

\* The factory; a failure puts the slot back empty.
Build(c) ==
  /\ at[c] = "build"
  /\ \/ /\ guest' = [guest EXCEPT ![c] = "live"]
        /\ hand' = [hand EXCEPT ![c] = c]
        /\ at' = [at EXCEPT ![c] = "call"] /\ UNCHANGED <<free, outcome>>
     \/ /\ free' = Append(free, Empty) /\ hand' = [hand EXCEPT ![c] = NoSlot]
        /\ at' = [at EXCEPT ![c] = "leave"]
        /\ outcome' = [outcome EXCEPT ![c] = "fault"] /\ UNCHANGED guest
  /\ UNCHANGED <<closing, inflight, above, expired, mounted, faults, reportVars>>

\* Instance.Invoke returns: with an answer, or after a trap, a broken ABI or
\* the interrupt of a context that is done, which leave the instance dead. An
\* answer that comes as the context ends may have its module closed behind it.
\* Whoever was handed a closed module has no answer.
Invoke(c) ==
  LET i == hand[c]
      Died == guest' = [guest EXCEPT ![i] = IF @ \in {"live", "doomed", "shut"} THEN "dead" ELSE @]
  IN
  /\ at[c] = "call" /\ ~Waited(c)
  /\ at' = [at EXCEPT ![c] = "back"]
  /\ \/ /\ guest[i] \in {"live", "doomed", "shut"}
        /\ outcome' = [outcome EXCEPT ![c] = "ok"]
        /\ \/ UNCHANGED guest
           \/ c \in expired /\ guest[i] = "live" /\ guest' = [guest EXCEPT ![i] = "doomed"]
     \/ outcome' = [outcome EXCEPT ![c] = "fault"] /\ (Died \/ UNCHANGED guest)
     \/ c \in expired /\ outcome' = [outcome EXCEPT ![c] = "cancelled"] /\ Died
  /\ UNCHANGED <<free, closing, inflight, hand, above, expired, mounted, faults, reportVars>>

\* wazero closes the module of a call whose context was done as it returned, wherever the instance is by now.
ClosesLate(i) ==
  /\ guest[i] = "doomed"
  /\ guest' = [guest EXCEPT ![i] = "shut"]
  /\ UNCHANGED <<free, closing, inflight, callVars, mounted, faults, reportVars>>

\* pool.release, first half: a dead instance is closed and its slot emptied.
release(c) ==
  /\ at[c] = "back"
  /\ at' = [at EXCEPT ![c] = "send"]
  /\ \/ /\ ~Dead(hand[c]) /\ UNCHANGED <<hand, guest, failed, untold>>
     \/ /\ Dead(hand[c])
        /\ hand' = [hand EXCEPT ![c] = Empty]
        /\ guest' = [guest EXCEPT ![hand[c]] = "closed"]
        /\ \E broken \in MayFail({hand[c]}) :
             failed' = failed \cup broken /\ untold' = untold \cup broken
  /\ UNCHANGED <<free, closing, inflight, above, expired, outcome, mounted, faults, told, gaveUp>>

\* pool.release, second half: the slot first, then the count.
giveBack(c) ==
  /\ at[c] = "send"
  /\ free' = Append(free, hand[c]) /\ hand' = [hand EXCEPT ![c] = NoSlot]
  /\ at' = [at EXCEPT ![c] = "leave"]
  /\ UNCHANGED <<closing, inflight, above, expired, outcome, guest, mounted, faults, reportVars>>

inflightDone(c) ==
  /\ at[c] = "leave"
  /\ inflight' = inflight - 1
  /\ at' = [at EXCEPT ![c] = "answer"]
  /\ UNCHANGED <<free, closing, hand, above, expired, outcome, guest, mounted, faults, reportVars>>

(***************************************************************************)
(* What the handler tells the loader (contribute.go, loader.go).           *)
(***************************************************************************)
recordSuccess(c) ==
  /\ at[c] = "answer" /\ outcome[c] = "ok"
  /\ faults' = IF mounted THEN 0 ELSE faults
  /\ Answered(c)
  /\ UNCHANGED <<free, closing, inflight, hand, guest, mounted, reportVars>>

recordFault(c) ==
  /\ at[c] = "answer" /\ outcome[c] = "fault"
  /\ faults' = IF mounted THEN faults + 1 ELSE faults
  /\ IF mounted /\ faults' >= MaxFaults
       THEN at' = [at EXCEPT ![c] = "unload"] /\ UNCHANGED <<outcome, above, expired>>
       ELSE Answered(c)
  /\ UNCHANGED <<free, closing, inflight, hand, guest, mounted, reportVars>>

\* ClassifyCallFault: a caller's own cancellation is no fault.
Pardon(c) ==
  /\ at[c] = "answer" /\ outcome[c] = "cancelled"
  /\ Answered(c)
  /\ UNCHANGED <<free, closing, inflight, hand, guest, mounted, faults, reportVars>>

unloadUnhealthy(c) ==
  /\ at[c] = "unload"
  /\ mounted' = FALSE
  /\ IF mounted THEN at' = [at EXCEPT ![c] = "drain"] /\ UNCHANGED <<outcome, above, expired>>
       ELSE Answered(c)
  /\ UNCHANGED <<free, closing, inflight, hand, guest, faults, reportVars>>

(***************************************************************************)
(* pool.drain and the close of the runtime, as the ledger disposes them.   *)
(***************************************************************************)

drain(c) ==
  /\ at[c] = "drain"
  /\ closing' = TRUE
  /\ at' = [at EXCEPT ![c] = IF closing THEN "runtime" ELSE "wait"]
  /\ UNCHANGED <<free, inflight, hand, above, expired, outcome, guest, mounted, faults, reportVars>>

Pooled == {free[n] : n \in 1..Len(free)} \ {Empty}

Collect(c) ==
  /\ at[c] = "wait" /\ inflight = 0
  /\ guest' = [i \in Calls |-> IF i \in Pooled THEN "closed" ELSE guest[i]]
  /\ \E broken \in MayFail(Pooled) :
       /\ failed' = failed \cup broken
       /\ told' = told \cup untold \cup broken
  /\ untold' = {} /\ free' = <<>>
  /\ at' = [at EXCEPT ![c] = "runtime"]
  /\ UNCHANGED <<closing, inflight, hand, above, expired, outcome, mounted, faults, gaveUp>>

\* The wait is longer than any call's timeout, with a grace in which every
\* call moves that can: what is left waits for this very drain.
RunOut(c) ==
  /\ at[c] = "wait" /\ inflight > 0
  /\ \A d \in Calls : Counted(d) => d \in expired /\ d \in above[c]
  /\ gaveUp' = TRUE
  /\ told' = told \cup untold /\ untold' = {}
  /\ at' = [at EXCEPT ![c] = "runtime"]
  /\ UNCHANGED <<free, closing, inflight, hand, above, expired, outcome, guest, mounted, faults, failed>>

\* The runtime closes whatever modules are left.
CloseRuntime(c) ==
  /\ at[c] = "runtime"
  /\ guest' = [i \in Calls |-> IF guest[i] = "unborn" THEN "unborn" ELSE "closed"]
  /\ Answered(c)
  /\ UNCHANGED <<free, closing, inflight, hand, mounted, faults, reportVars>>

PoolStep(c) ==
  \/ enter(c) \/ Take(c) \/ TurnBack(c) \/ Build(c) \/ Invoke(c)
  \/ release(c) \/ giveBack(c) \/ inflightDone(c)
  \/ recordSuccess(c) \/ recordFault(c) \/ Pardon(c) \/ unloadUnhealthy(c)
  \/ drain(c) \/ Collect(c) \/ RunOut(c) \/ CloseRuntime(c)

PoolNext == \E c \in Calls :
  \/ ResolveTask(c) \/ (\E p \in Calls : callTool(c, p)) \/ Expire(c) \/ ClosesLate(c) \/ PoolStep(c)

PoolSpec == PoolInit /\ [][PoolNext]_poolVars

\* Go runs what can run; every descriptor has a timeout (validateSpec), and a
\* context that is done interrupts the guest.  The start of a module and
\* plugin_free, which run past the end of their context (activate.go:750,
\* instance.go:181), are taken to return.
PoolFairness == \A c \in Calls :
  WF_poolVars(Expire(c) \/ (PoolStep(c) /\ (at[c] = "call" => c \in expired)))

PoolFairSpec == PoolSpec /\ PoolFairness

(***************************************************************************)
(* Properties.                                                             *)
(***************************************************************************)
PoolTypeOK ==
  /\ free \in Seq(Slots) /\ Len(free) <= Size /\ closing \in BOOLEAN /\ inflight \in Nat
  /\ at \in [Calls -> Ways] /\ hand \in [Calls -> Slots \cup {NoSlot}]
  /\ above \in [Calls -> SUBSET Calls] /\ expired \subseteq Calls
  /\ outcome \in [Calls -> {"none", "ok", "fault", "cancelled"}]
  /\ guest \in [Calls -> States]
  /\ mounted \in BOOLEAN /\ faults \in Nat
  /\ failed \subseteq Calls /\ untold \subseteq Calls /\ told \subseteq Calls /\ gaveUp \in BOOLEAN

\* A slot is in the channel or in one call's hand until a drain collects them
\* all, so that release never finds the channel full and a drain that counts
\* nobody finds every slot: neither of the pool's two panics can happen.
SlotsConserved ==
  \/ Len(free) + Cardinality({c \in Calls : hand[c] # NoSlot}) = Size
  \/ closing /\ free = <<>> /\ inflight = 0

\* An instance serves one call at a time: it is in one hand, or in the channel
\* once, and never both.
OneHolder ==
  /\ \A c, d \in Calls : c # d /\ hand[c] \in Calls => hand[c] # hand[d]
  /\ \A n \in 1..Len(free) : free[n] \in Calls =>
       /\ \A c \in Calls : hand[c] # free[n]
       /\ \A k \in 1..Len(free) : k # n => free[k] # free[n]

\* A trapped or interrupted instance is never handed out again.  One whose
\* module was closed behind a call that had returned may be, once: the call it
\* is handed to has no answer, and it does not come back to the channel.
DeadServeOnce == ~gaveUp =>
  /\ \A n \in 1..Len(free) : free[n] \in Calls => guest[free[n]] \in {"live", "doomed", "shut"}
  /\ \A c \in Calls : hand[c] \in Calls /\ guest[hand[c]] = "spent" => outcome[c] # "ok"

\* A module is closed under a call that is using it only after a drain has
\* run out of time.
NonePulledAway == \A c \in Calls :
  at[c] = "call" /\ guest[hand[c]] = "closed" => gaveUp

\* Once a drain has converged, every instance that would not close is in its
\* error: the close is recorded before its call stops being counted.
EveryFailureTold ==
  ~gaveUp /\ (\E c \in Calls : at[c] = "runtime") => failed = told

\* One unload per mount: however many calls see the limit reached, one drains.
DrainedOnce == Cardinality({c \in Calls : at[c] \in {"drain", "wait", "runtime"}}) <= 1

\* A plugin that has failed too often in a row is on its way out.
UnhealthyGoes == mounted /\ faults >= MaxFaults => \E c \in Calls : at[c] = "unload"

\* Every call is answered, whoever holds the slots and whoever drains: a call
\* that waits for an instance its own caller holds included.
CallsEnd == \A c \in Calls : at[c] = "select" ~> at[c] = "done"

\* A drain converges: the calls it waits for have timeouts shorter than its
\* own, and activate.go:75 takes nothing else to keep a call in.
DrainsConverge == ~gaveUp

(* Slots are conserved and instances are in one hand at a time, one that failed
   is never handed out again and one that died idle serves nobody, no module is
   closed under a running call but by its own context, and one drain ends an
   unhealthy mount with every failed close in its error. *)
PoolSafe ==
  /\ [](PoolTypeOK /\ OneHolder /\ SlotsConserved /\ DeadServeOnce /\
       NonePulledAway /\ EveryFailureTold /\ DrainedOnce /\ UnhealthyGoes)
===============================================================================
