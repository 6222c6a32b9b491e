------------------------------- MODULE Scopes -------------------------------
(***************************************************************************)
(* Which tools a delegated run may use and under whose name it runs           *)
(* (internal/runtime: delegation.go, delegation_tool.go, agent_resolver.go).  *)
(* A node is a runtime: the root of a task, a clone of the root, or a          *)
(* configured agent's own. The delegate_task tool is registered once, on the   *)
(* root's registry, so whoever calls it is served by the ROOT: its handler,    *)
(* its depth, its role and its tools, only the caller's task id is the         *)
(* caller's own. A plugin's tool may come and go between the checks and the    *)
(* start of an entry.                                                          *)
(***************************************************************************)
EXTENDS Naturals, Sequences, FiniteSets

CONSTANTS
  DefaultTools, WorkerTools,  \* of the default runner and of a configured agent
  Agents,          \* agent -> [denied, sound]: its deny-list; whether its configuration resolves
  RootDenied,      \* the default runner's deny-list
  MaxSpawnDepth,
  Batches,         \* what a model asks for: sequences of specs [agent, role, toolsets]
  MaxNodes, MaxCalls  \* bounds

None == "none"
AllTools == DefaultTools \cup WorkerTools \cup {"plug", "delegate_task"}

ASSUME ScopesAssumption ==
  /\ MaxSpawnDepth \in Nat \ {0} /\ MaxNodes \in Nat \ {0} /\ MaxCalls \in Nat
  /\ WorkerTools \subseteq DefaultTools /\ "delegate_task" \notin DefaultTools
  /\ None \notin DOMAIN Agents   \* no agent is configured under the empty name
  /\ \A b \in Batches : b \in Seq({b[i] : i \in DOMAIN b})

VARIABLES
  tree,    \* the runtimes, the root first
  calls,   \* delegate_task calls: [caller, specs, refused, left]
  plug     \* the plugin's tool is mounted

scopeVars == <<tree, calls, plug>>

Nodes == DOMAIN tree

\* Registry.Descriptors: what a node's registry exposes now, views included.
OwnTools(n) == IF tree[n].agent = None THEN DefaultTools \cup {"delegate_task"} ELSE WorkerTools
Descriptors(n) == (OwnTools(n) \cup (IF plug THEN {"plug"} ELSE {})) \cap tree[n].allow
Offered(n) == Descriptors(n) \ tree[n].denied

NewRuntime(agent, denied) ==
  [agent |-> agent, depth |-> 0, role |-> "orchestrator", allow |-> AllTools, denied |-> denied,
   waits |-> TRUE, call |-> 0, parent |-> 0, asker |-> 0]

\* A deny-list may only name tools that exist now: a plugin's tool is one only
\* while the plugin contributes it.
Resolves(a) == Agents[a].sound /\ ("plug" \in Agents[a].denied => plug)

\* The default runner's task, or the task of a configured agent.
ScopesInit ==
  /\ plug \in BOOLEAN /\ calls = <<>>
  /\ \/ tree = <<NewRuntime(None, RootDenied)>>
     \/ \E a \in DOMAIN Agents : Resolves(a) /\ tree = <<NewRuntime(a, Agents[a].denied)>>

-----------------------------------------------------------------------------
(* One request, judged and served by the root.                             *)

canDelegate == tree[1].depth < MaxSpawnDepth /\ tree[1].role = "orchestrator"

validateSubTaskSpec(s) ==
  /\ tree[1].depth + 1 <= MaxSpawnDepth
  /\ s.toolsets \subseteq Descriptors(1)
  /\ s.agent # None => s.role # "orchestrator" /\ s.agent \in DOMAIN Agents

Narrow(s) == IF s.toolsets = {} THEN AllTools ELSE s.toolsets
RoleOf(s) == IF s.role = "" THEN "leaf" ELSE s.role

\* A child answers a call, for the node that made it.
Child(agent, role, allow, denied, k, c, asker) ==
  [agent |-> agent, depth |-> tree[1].depth + 1, role |-> role, allow |-> allow, denied |-> denied,
   waits |-> FALSE, call |-> k, parent |-> c, asker |-> asker]

\* A slip: the deny-list is not carried over.
Bug_newSubRuntime(s, k, c) == Child(None, RoleOf(s), tree[1].allow \cap Narrow(s), {}, k, c, 0)
newSubRuntime(s, k, c) ==
  Child(tree[1].agent, RoleOf(s), tree[1].allow \cap Narrow(s), tree[1].denied, k, c, tree[1].asker)

buildAgentRuntime(s, k, c, asker) == Child(s.agent, RoleOf(s), Narrow(s), Agents[s.agent].denied, k, c, asker)

ResolveDelegate(s) == Resolves(s.agent) /\ s.role # "orchestrator"

\* A clone cannot fail. A named agent that resolves is audited; the audit may
\* fail, the child starts all the same.
Asker(c) == c
childFor(s, k, c) ==
  IF s.agent = None THEN {newSubRuntime(s, k, c)}
  ELSE IF ResolveDelegate(s) THEN {buildAgentRuntime(s, k, c, a) : a \in {0, Asker(c)}}
       ELSE {}

Spawn(s, k, c) ==
  /\ Len(tree) < MaxNodes
  /\ \E child \in childFor(s, k, c) : tree' = Append(tree, child)

Call(n, specs, refused, left) ==
  [caller |-> n, specs |-> specs, refused |-> refused, left |-> left]
Busy(n) == \E k \in DOMAIN calls : calls[k].caller = n /\ calls[k].left # {}

\* delegate_task for one goal, in the foreground or in the background.
RunSubTask(n, s) ==
  LET k == Len(calls) + 1
      can == validateSubTaskSpec(s) /\ canDelegate
  IN /\ k <= MaxCalls /\ "delegate_task" \in Offered(n) /\ ~Busy(n)
     /\ calls' = Append(calls, Call(n, <<s>>, ~can, {}))
     /\ (IF can /\ childFor(s, k, n) # {} THEN Spawn(s, k, n) ELSE UNCHANGED tree)
     /\ UNCHANGED plug

\* A batch is judged whole before any of it starts.
RunSubTasks(n, specs) ==
  LET k == Len(calls) + 1
      can == canDelegate /\ \A i \in DOMAIN specs : validateSubTaskSpec(specs[i])
  IN /\ k <= MaxCalls /\ "delegate_task" \in Offered(n) /\ ~Busy(n)
     /\ calls' = Append(calls, Call(n, specs, ~can, IF can THEN DOMAIN specs ELSE {}))
     /\ UNCHANGED <<tree, plug>>

\* An entry of a batch, in any order; what it meets now is reported as its error.
StartEntry(k, i) ==
  LET s == calls[k].specs[i]
      can == validateSubTaskSpec(s) /\ canDelegate /\ childFor(s, k, calls[k].caller) # {}
  IN /\ i \in calls[k].left
     /\ calls' = [calls EXCEPT ![k].left = @ \ {i}]
     /\ (IF can THEN Spawn(s, k, calls[k].caller) ELSE UNCHANGED tree)
     /\ UNCHANGED plug

PluginChanges == plug' = ~plug /\ UNCHANGED <<tree, calls>>

ScopesNext ==
  \/ \E n \in Nodes, b \in Batches :
       \/ Len(b) = 1 /\ RunSubTask(n, b[1])
       \/ Len(b) > 1 /\ RunSubTasks(n, b)
  \/ \E k \in DOMAIN calls : \E i \in DOMAIN calls[k].specs : StartEntry(k, i)
  \/ PluginChanges
ScopesSpec == ScopesInit /\ [][ScopesNext]_scopeVars

-----------------------------------------------------------------------------
(* Properties.                                                             *)

Clones == {n \in Nodes : n > 1 /\ tree[n].agent = None}
Named == {n \in Nodes : n > 1 /\ tree[n].agent # None}

\* Every runtime below a root lies within the spawn ceiling, and none of them
\* can suspend: nothing outside holds the id its checkpoint would be kept under.
ScopesTypeOK ==
  /\ Len(tree) <= MaxNodes /\ plug \in BOOLEAN
  /\ \A n \in Nodes \ {1} : tree[n].depth \in 1 .. MaxSpawnDepth /\ ~tree[n].waits /\ tree[n].call \in DOMAIN calls

\* A clone is offered nothing the runtime it copies is not, whatever toolsets
\* were asked for and whatever plugin came since (newSubRuntime).
CloneWithin == \A n \in Clones : Offered(n) \subseteq Offered(1)

\* A child that runs under an agent's name has that agent's tools, its deny-list
\* and no way to delegate further (ResolveDelegate, buildAgentRuntime).
NamedIsItsAgent ==
  \A n \in Named :
    /\ tree[n].agent \in DOMAIN Agents /\ Agents[tree[n].agent].sound
    /\ Offered(n) \subseteq (WorkerTools \cup {"plug"}) \ Agents[tree[n].agent].denied

\* A refused request has started nothing, also when only its last entry was
\* wrong (RunSubTasks).
RefusedStartsNothing == \A n \in Nodes \ {1} : ~calls[tree[n].call].refused

\* The audit entry of a named delegation names the task that asked, also when it
\* was the task of another child (childFor).
AnswersWhoAsked == \A n \in Named : tree[n].asker \in {0, calls[tree[n].call].caller}

(* A delegated runtime has no more tools than it may, a named agent's child has
   that agent's, a refused request has started nothing, and an audit entry
   names the task that asked, however deep delegations nest. *)
ScopesSafe ==
  /\ [](ScopesTypeOK /\ CloneWithin /\ NamedIsItsAgent /\
       RefusedStartsNothing /\ AnswersWhoAsked)
===============================================================================
