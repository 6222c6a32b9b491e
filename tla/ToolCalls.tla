------------------------------ MODULE ToolCalls ------------------------------
(***************************************************************************)
(* One round of tool calls, from the gate at the round's boundary           *)
(* (internal/manualgate) through the registry that dispatches each call      *)
(* (internal/tool) to its audit entry, while the one plugin that contributes *)
(* a tool and a decider is unloaded for its faults at any time, or exchanged *)
(* while the task is suspended and holds no token of the task gate.          *)
(* A call is its position in the round.                                      *)
(***************************************************************************)
EXTENDS Naturals, Sequences, FiniteSets

CONSTANTS
  CallTool,      \* the tool each call of the round names, in order
  Wrapped,       \* calls that arrive inside a call_tool meta call
  Modes,         \* modes of a task
  DisabledSets,  \* an agent's disabled_tools
  MaxReloads     \* bound: plugin exchanges

HostTools == {"read", "write"}
Tools == HostTools \cup {"plug"}
Calls == 1 .. Len(CallTool)

\* A response without calls is no round: the loop over rounds ends there.
ASSUME ToolCallsAssumption == CallTool \in Seq(Tools) \ {<<>>} /\ Wrapped \subseteq Calls

VARIABLES
  mode, disabled,  \* of the task and of its agent
  plugin,          \* [mounted, sensitive, answer]: its tool's descriptor, its decider's word
  reloads,
  round,           \* "start", "asks", "sensitive", "dispatch", "suspended", "over", "failed"
  at,              \* the call it is at
  need,            \* the gate wants the round suspended
  allow,           \* the names the run's view admits
  step,            \* of the call being dispatched
  verdict,         \* what the deciders answered for it
  ticket,          \* ticket id -> "none", "pending", "approved", "denied"
  asked,           \* calls a plugin had a ticket opened for
  suspends,
  ran, audited, observed,  \* call -> what happened to it
  outcome          \* call -> "none", "ok", "failed", "refused", "unapproved"

task == <<mode, disabled>>
gateVars == <<at, need, ticket, asked, suspends>>
callVars == <<step, verdict, ran, audited, observed, outcome>>
toolVars == <<task, plugin, reloads, round, allow, gateVars, callVars>>

Ids == Calls \X {"outer", "inner"}

\* UnwrapLazyCall: the id the registry will see a call under.
UnwrapLazyCall(c) == <<c, IF c \in Wrapped THEN "inner" ELSE "outer">>

Sensitive(t) == t = "write" \/ (t = "plug" /\ plugin.sensitive)
Registered(t) == t \in HostTools \/ plugin.mounted

\* A view admits what its filters admit, and resolves through its parent.
resolve(t) == t \in allow /\ Registered(t)
Narrowed == mode = "plan" \/ disabled # {}

ToolCallsInit ==
  /\ mode \in Modes /\ disabled \in DisabledSets
  /\ plugin \in [mounted : {TRUE}, sensitive : BOOLEAN, answer : {"allow", "ask", "deny"}]
  /\ reloads = 0 /\ round = "start" /\ at = 1 /\ need = FALSE /\ allow = {}
  /\ step = "gate" /\ verdict = "allow" /\ ticket = [k \in Ids |-> "none"] /\ asked = {} /\ suspends = 0
  /\ ran = [c \in Calls |-> FALSE] /\ audited = [c \in Calls |-> "none"]
  /\ observed = [c \in Calls |-> FALSE] /\ outcome = [c \in Calls |-> "none"]

-----------------------------------------------------------------------------
(* The round.                                                              *)

\* The view is built anew for each leg of the run.
SafeToolNames == {t \in Tools : Registered(t) /\ ~Sensitive(t)}
effectiveTools ==
  /\ round = "start" /\ round' = "asks" /\ at' = 1 /\ need' = FALSE
  /\ allow' = (IF mode = "plan" THEN SafeToolNames ELSE Tools) \ disabled
  /\ UNCHANGED <<task, plugin, reloads, ticket, asked, suspends, callVars>>

\* Deciders are consulted on the view and on its parents; a consultation that
\* fails is a refusal.
consultDeciders == IF plugin.mounted THEN {plugin.answer, "deny"} ELSE {"allow"}

NextCall(next) == IF at < Len(CallTool) THEN at' = at + 1 /\ UNCHANGED round ELSE at' = 1 /\ round' = next

\* Open leaves a ticket that exists as it is; an answered one is not asked again.
AskTicket(k) ==
  /\ ticket' = [ticket EXCEPT ![k] = IF @ = "none" THEN "pending" ELSE @]
  /\ need' = (need \/ ticket[k] \in {"none", "pending"})

\* In every mode.
suspendForPluginAsks ==
  /\ round = "asks" /\ NextCall("sensitive")
  /\ \E answer \in consultDeciders :
       IF answer = "ask" THEN AskTicket(UnwrapLazyCall(at)) /\ asked' = asked \cup {at}
                         ELSE UNCHANGED <<ticket, need, asked>>
  /\ UNCHANGED <<task, plugin, reloads, allow, suspends, callVars>>

\* The host's own rule is Manual mode's.
ShouldSuspend ==
  /\ round = "sensitive" /\ NextCall("decide")
  /\ IF mode = "manual" /\ resolve(CallTool[at]) /\ Sensitive(CallTool[at])
       THEN AskTicket(<<at, "outer">>) ELSE UNCHANGED <<ticket, need>>
  /\ UNCHANGED <<task, plugin, reloads, allow, asked, suspends, callVars>>

checkSuspend ==
  /\ round = "decide"
  /\ round' = (IF need THEN "suspended" ELSE "dispatch") /\ suspends' = suspends + (IF need THEN 1 ELSE 0)
  /\ UNCHANGED <<task, plugin, reloads, allow, at, need, ticket, asked, callVars>>

\* Tickets are decided as soon as they are open.
Decide(k, status) ==
  /\ ticket[k] = "pending" /\ ticket' = [ticket EXCEPT ![k] = status]
  /\ UNCHANGED <<task, plugin, reloads, round, allow, at, need, asked, suspends, callVars>>

Resumed ==
  /\ round = "suspended" /\ round' = "start"
  /\ \A k \in Ids : ticket[k] # "pending"
  /\ UNCHANGED <<task, plugin, reloads, allow, gateVars, callVars>>

\* Faults unload a plugin at any time; a new one is mounted at a task boundary.
Unload ==
  /\ plugin.mounted /\ plugin' = [plugin EXCEPT !.mounted = FALSE]
  /\ UNCHANGED <<task, reloads, round, allow, gateVars, callVars>>
Reload ==
  /\ round = "suspended" /\ reloads < MaxReloads /\ reloads' = reloads + 1
  /\ plugin' \in [mounted : {TRUE}, sensitive : BOOLEAN, answer : {"allow", "ask", "deny"}]
  /\ UNCHANGED <<task, round, allow, gateVars, callVars>>

-----------------------------------------------------------------------------
(* Dispatch of the call at hand.                                           *)

Ends(how) ==
  /\ outcome' = [outcome EXCEPT ![at] = how] /\ step' = "gate" /\ NextCall("over")
Goes(next) == step' = next /\ UNCHANGED <<outcome, at, round>>
Dispatching(s) == round = "dispatch" /\ step = s
calm == <<task, plugin, reloads, allow, need, ticket, asked, suspends>>

\* Resolve: a sensitive call of Manual mode needs its ticket approved.
\* A slip of the gate: what is not denied goes on.
Bug_Resolve ==
  /\ Dispatching("gate") /\ Goes("resolve")
  /\ UNCHANGED <<calm, verdict, ran, audited, observed>>
Resolve ==
  /\ Dispatching("gate")
  /\ IF mode = "manual" /\ resolve(CallTool[at]) /\ Sensitive(CallTool[at]) /\ ticket[<<at, "outer">>] # "approved"
       THEN Ends("refused") ELSE Goes("resolve")
  /\ UNCHANGED <<calm, verdict, ran, audited, observed>>

\* The handler found here is the one that will run, unloaded or not.
Lookup ==
  /\ Dispatching("resolve") /\ IF resolve(CallTool[at]) THEN Goes("enforce") ELSE Ends("failed")
  /\ UNCHANGED <<calm, verdict, ran, audited, observed>>

\* A plugin's tool is allowed because the plugin registry has it.
Check ==
  /\ Dispatching("enforce") /\ IF Registered(CallTool[at]) THEN Goes("consult") ELSE Ends("refused")
  /\ UNCHANGED <<calm, verdict, ran, audited, observed>>

Consult ==
  /\ Dispatching("consult") /\ verdict' \in consultDeciders
  /\ IF verdict' = "deny" THEN Ends("refused") ELSE Goes("verdict")
  /\ UNCHANGED <<calm, ran, audited, observed>>

\* An ask needs an approval; a registry without an arbiter has none to give,
\* and a view has none.
resolveVerdict ==
  /\ Dispatching("verdict")
  /\ IF verdict = "ask" /\ (Narrowed \/ ticket[UnwrapLazyCall(at)] # "approved") THEN Ends("unapproved") ELSE Goes("handle")
  /\ UNCHANGED <<calm, verdict, ran, audited, observed>>

\* Guards and the handler: a handler whose plugin is gone fails before it does
\* anything.
Handle ==
  /\ Dispatching("handle")
  /\ \/ Registered(CallTool[at]) /\ ran' = [ran EXCEPT ![at] = TRUE] /\ Goes("executed")
     \/ ran' \in {ran, [ran EXCEPT ![at] = Registered(CallTool[at])]} /\ Goes("fails")
     \/ Ends("failed") /\ UNCHANGED ran
  /\ UNCHANGED <<calm, verdict, audited, observed>>

\* An entry that cannot be written turns a success into a failure.
appendAudit ==
  /\ \/ Dispatching("executed") /\ audited' = [audited EXCEPT ![at] = "tool_executed"] /\ Goes("observe")
     \/ Dispatching("executed") /\ Ends("failed") /\ UNCHANGED audited
     \/ Dispatching("fails") /\ audited' \in {audited, [audited EXCEPT ![at] = "tool_failed"]} /\ Ends("failed")
  /\ UNCHANGED <<calm, verdict, ran, observed>>

notifyObservers ==
  /\ Dispatching("observe") /\ observed' = [observed EXCEPT ![at] = plugin.mounted] /\ Ends("ok")
  /\ UNCHANGED <<calm, verdict, ran, audited>>

-----------------------------------------------------------------------------
Execute == Resolve \/ Lookup \/ Check \/ Consult \/ resolveVerdict \/ Handle \/ appendAudit \/ notifyObservers

ToolCallsNext ==
  \/ effectiveTools \/ suspendForPluginAsks \/ ShouldSuspend \/ checkSuspend
  \/ \E k \in Ids, status \in {"approved", "denied"} : Decide(k, status)
  \/ Resumed \/ Unload \/ Reload \/ Execute

ToolCallsSpec == ToolCallsInit /\ [][ToolCallsNext]_toolVars

-----------------------------------------------------------------------------
(* Properties.                                                             *)

ToolCallsTypeOK ==
  /\ round \in {"start", "asks", "sensitive", "decide", "suspended", "dispatch", "over"} /\ at \in Calls
  /\ allow \subseteq Tools /\ step \in {"gate", "resolve", "enforce", "consult", "verdict", "handle", "executed", "fails", "observe"}
  /\ asked \subseteq Calls /\ \A c \in Calls : (outcome[c] # "none") = (round = "over" \/ (round = "dispatch" /\ c < at))

\* The gate asks about nothing twice: it suspends a run no more often than it
\* has opened tickets, so a run whose tickets are answered gets on, whatever
\* is loaded meanwhile.
SuspendsForAQuestion == suspends <= Cardinality({k \in Ids : ticket[k] # "none"})

\* A plugin's ask holds in every mode: a call its decider asked about at
\* dispatch runs only once a human approved that very call.
AskIsAnswered == [][\A c \in Calls : ~ran[c] /\ ran'[c] /\ verdict = "ask" => ticket[UnwrapLazyCall(c)] = "approved"]_toolVars

\* In Manual mode a sensitive tool of the host runs only when its own ticket was
\* approved, wrapped or not.
SensitiveIsApproved == \A c \in Calls : mode = "manual" /\ CallTool[c] = "write" /\ ran[c] => ticket[<<c, "outer">>] = "approved"

\* A planning run causes no side effect: no tool that is sensitive when it runs,
\* though the plugin behind its name was exchanged while the task waited.
PlanHasNoEffects == [][\A c \in Calls : mode = "plan" /\ ~ran[c] /\ ran'[c] => ~Sensitive(CallTool[c])]_toolVars

\* No success without its entry in the audit log, and nothing an observer saw
\* that is not a success.
SuccessIsAudited ==
  \A c \in Calls : (outcome[c] = "ok" \/ observed[c]) => audited[c] = "tool_executed" /\ ran[c]

\* A call whose question a human approved is not refused for want of an approval
\* (with a registry that no view narrows).
AnswerIsFound ==
  ~Narrowed => \A c \in Calls \cap asked : ticket[UnwrapLazyCall(c)] \in {"approved", "none"} => outcome[c] # "unapproved"

(* A sensitive call runs only with its own approval, a planning run has no
   effects, a plugin's ask is heeded in every mode, a success is on the audit
   log, and a run is not suspended twice for one question, although tools are
   unloaded and exchanged while it waits. *)
ToolCallsSafe ==
  /\ [](ToolCallsTypeOK /\ SuspendsForAQuestion /\ SensitiveIsApproved /\
       SuccessIsAudited /\ AnswerIsFound)
  /\ AskIsAnswered
  /\ PlanHasNoEffects
===============================================================================
