---------------------------- MODULE PluginConsent ----------------------------
(* plugins.json, the operator's decisions about plugins, and those who       *)
(* change it: `agent plugins install | grant | deny`, each a process of its  *)
(* own, and the console's requests, one at a time under PluginConsentService.mu. *)
(* Each reads the file, validates, compares the file with what it read and    *)
(* replaces it whole.  Console requests then converge the running plugins to  *)
(* their own copy; `agent plugins reload` does so with the copy it read.      *)
(* A package is its version: its bytes are pinned by the entry's digest.     *)
(* Revoked keys, tool names and dependencies are PluginLoader's.             *)
EXTENDS FiniteSets, Naturals

CONSTANTS
  Plugins, Versions, Capabilities,
  Declares,          \* version -> the capabilities its plugin.json declares
  Endorsed,          \* versions that carry a registered publisher's signature
  Commands,          \* processes that run install, grant and deny
  Consoles,          \* requests to POST /v1/plugins/{name}/grant and deny
  Reloads,           \* calls of reload in the serving process
  requireSignature,
  NoEntry, NoBytes, Down, NoOne,
  MaxCalls, MaxEdits, MaxStarts

ASSUME ConsentAssumption ==
  /\ Declares \in [Versions -> SUBSET Capabilities] /\ Endorsed \subseteq Versions
  /\ requireSignature \in BOOLEAN
  /\ Commands \cap Consoles = {} /\ Reloads \cap (Commands \cup Consoles) = {}
  /\ NoBytes \notin Versions /\ NoOne \notin Consoles

Actors == Commands \cup Consoles \cup Reloads

VARIABLES
  deployment,  \* plugin -> its entry in plugins.json
  call,        \* actor -> its step, the entry it will leave and its copy of the file
  mu,          \* the console request that holds the service's mutex
  running,     \* plugin -> what is mounted for it
  calls, edits, starts,
  decided,     \* ghost: <<plugin, version, capabilities>> somebody authorised
  accepted,    \* ghost: <<plugin, version>> somebody accepted without endorsement
  stated,      \* ghost: the entries as the decisions, in the order of their writes, leave them
  raced,       \* ghost: commands and requests overtaken between comparison and write
  denied       \* ghost: plugins whose denial was answered as converged
consentVars == <<deployment, call, mu, running, calls, edits, starts, decided, accepted, stated, raced, denied>>

Idle == [step |-> "idle"]

\* What an operator may name as the capabilities: the list some version declares.
Lists == {Declares[v] : v \in Versions}

Open(v) == [version |-> v, enabled |-> TRUE, caps |-> Declares[v], accepted |-> NoBytes]
IsEntry(e) == e # NoEntry
Enabled(e) == e # NoEntry /\ e.enabled

\* The operator starts from an empty file or from entries written by hand.
ConsentInit ==
  /\ deployment \in {[p \in Plugins |-> NoEntry]} \cup {[p \in Plugins |-> Open(v)] : v \in Endorsed}
  /\ call = [a \in Actors |-> Idle] /\ mu = NoOne
  /\ running = [p \in Plugins |-> IF IsEntry(deployment[p])
                  THEN [version |-> deployment[p].version, caps |-> Declares[deployment[p].version]] ELSE Down]
  /\ calls = 0 /\ edits = 0 /\ starts = 0
  /\ decided = {<<p, deployment[p].version, deployment[p].caps>> : p \in {q \in Plugins : IsEntry(deployment[q])}}
  /\ accepted = {} /\ stated = deployment /\ raced = {} /\ denied = {}

(***************************************************************************)
(* What a request may ask, and the entry it leaves.                        *)
(***************************************************************************)
\* ResolveCapabilities: all the plugin declares, and nothing else.
ResolveCapabilities(caps, v) == caps = Declares[v]

admitInstalledProvenance(v, accept) == v \in Endorsed \/ accept

\* resolveInstallGrants: the flag left out grants nothing and enables nothing.
resolveInstallGrants(caps, v) == caps = {} \/ ResolveCapabilities(caps, v)

\* DraftEntry with the flags of the command.
DraftEntry(v, caps) ==
  [version |-> v, enabled |-> caps # {}, caps |-> caps, accepted |-> IF v \in Endorsed THEN NoBytes ELSE v]

Granted(e, caps) == [e EXCEPT !.enabled = TRUE, !.caps = caps]
Denied(e) == [e EXCEPT !.enabled = FALSE, !.caps = {}]

(***************************************************************************)
(* Convergence to a copy of the file (PluginLoader has it in full).        *)
(***************************************************************************)

\* admit: endorsed, or accepted as exactly these bytes, or nobody asks.
admit(e) ==
  \/ e.version \in Endorsed
  \/ e.accepted = e.version
  \/ e.accepted = NoBytes /\ ~requireSignature

reconcileCapabilities(e) == Declares[e.version] \subseteq e.caps

\* A slip of Apply: an entry that is not enabled is passed over.
Bug_Converged(e, now) ==
  IF ~IsEntry(e) THEN {Down}
  ELSE LET new == [version |-> e.version, caps |-> Declares[e.version]]
       IN IF ~e.enabled \/ ~admit(e) \/ ~reconcileCapabilities(e) THEN {now}
          ELSE IF now = new THEN {now} ELSE {new, now, Down}

\* What a plugin may be after a convergence: unchanged when its entry is
\* refused or its package does not load, down or as before when it does not activate.
Converged(e, now) ==
  IF ~Enabled(e) THEN {Down}
  ELSE LET new == [version |-> e.version, caps |-> Declares[e.version]]
       IN IF ~admit(e) \/ ~reconcileCapabilities(e) THEN {now}
          ELSE IF now = new THEN {now} ELSE {new, now, Down}

Converge(dep, now) ==
  {f \in [Plugins -> UNION {Converged(dep[p], now[p]) : p \in Plugins}] :
     \A p \in Plugins : f[p] \in Converged(dep[p], now[p])}

(***************************************************************************)
(* Steps.                                                                  *)
(***************************************************************************)
ghosts == <<decided, accepted, stated, raced, denied>>

lock(a) == IF a \in Consoles THEN mu = NoOne /\ mu' = a ELSE mu' = mu

unlock(a) == mu' = IF mu = a THEN NoOne ELSE mu

\* A call reads the file, and validates on what it read alone: what validation
\* refuses ends here with nothing changed, so each call's guard stands for it.
\* The entry it means to leave is settled then.
ReadDeployment(a, op, p, entry) ==
  /\ call[a] = Idle /\ calls < MaxCalls /\ calls' = calls + 1
  /\ lock(a)
  /\ call' = [call EXCEPT ![a] = [step |-> "check", op |-> op, plugin |-> p, entry |-> entry, copy |-> deployment]]
  /\ UNCHANGED <<deployment, running, edits, starts, ghosts>>

runPluginsInstall(a, p, v, caps, accept) ==
  /\ a \in Commands
  /\ admitInstalledProvenance(v, accept) /\ resolveInstallGrants(caps, v)
  /\ ~IsEntry(deployment[p])  \* AddEntry, at the end, on this same copy
  /\ ReadDeployment(a, IF accept /\ v \notin Endorsed THEN "accept" ELSE "install", p, DraftEntry(v, caps))

runPluginsGrant(a, p, caps) ==
  /\ a \in Commands /\ IsEntry(deployment[p])
  /\ ResolveCapabilities(caps, deployment[p].version)
  /\ ReadDeployment(a, "grant", p, Granted(deployment[p], caps))

runPluginsDeny(a, p) ==
  /\ a \in Commands /\ IsEntry(deployment[p])
  /\ ReadDeployment(a, "deny", p, Denied(deployment[p]))

\* The console's requests: the same under the service's mutex, and an Apply.
Grant(a, p, caps) ==
  /\ a \in Consoles /\ IsEntry(deployment[p])
  /\ ResolveCapabilities(caps, deployment[p].version)
  /\ ReadDeployment(a, "grant", p, Granted(deployment[p], caps))

Deny(a, p) ==
  /\ a \in Consoles /\ IsEntry(deployment[p])
  /\ ReadDeployment(a, "deny", p, Denied(deployment[p]))

\* Fetching or loading the package fails, or the file cannot be written.
Fail(a) ==
  /\ call[a].step \in {"check", "write"} /\ unlock(a)
  /\ call' = [call EXCEPT ![a] = Idle] /\ raced' = raced \ {a}
  /\ UNCHANGED <<deployment, running, calls, edits, starts, decided, accepted, stated, denied>>

Unchanged(copy) == deployment = copy

\* RefuseDeploymentChanged, once the package is loaded and the request validated.
RefuseDeploymentChanged(a) ==
  /\ call[a].step = "check"
  /\ IF Unchanged(call[a].copy)
       THEN call' = [call EXCEPT ![a].step = "write"] /\ mu' = mu
       ELSE call' = [call EXCEPT ![a] = Idle] /\ unlock(a)
  /\ UNCHANGED <<deployment, running, calls, edits, starts, ghosts>>

\* Ghost: a write by another process overtakes whoever has compared already.
Overtakes(a) == {b \in Commands \cup Consoles :
  b # a /\ call[b].step = "write" /\ ~({a, b} \subseteq Consoles)}

StillDown(dep) == {p \in denied : ~Enabled(dep[p])}

\* UpdateEntry or AddEntry on the copy, and the rename over the file.
WriteDeployment(a) ==
  LET p == call[a].plugin
      e == call[a].entry
      dep == [call[a].copy EXCEPT ![p] = e]
  IN /\ call[a].step = "write"
     /\ deployment' = dep
     /\ call' = [call EXCEPT ![a] = IF a \in Consoles THEN [@ EXCEPT !.step = "apply", !.copy = dep] ELSE Idle]
     /\ stated' = IF a \in raced THEN dep ELSE [stated EXCEPT ![p] = e]
     /\ decided' = decided \cup (IF e.enabled /\ call[a].op # "deny" THEN {<<p, e.version, e.caps>>} ELSE {})
     /\ accepted' = accepted \cup (IF call[a].op = "accept" THEN {<<p, e.version>>} ELSE {})
     /\ raced' = (raced \ {a}) \cup Overtakes(a)
     /\ denied' = StillDown(dep)
     /\ UNCHANGED <<mu, running, calls, edits, starts>>

\* Ghost: a reload that read before the denial may still bring the plugin back.
Recalled(p) == \E a \in Reloads : call[a].step = "apply" /\ Enabled(call[a].copy[p])

\* applyAndReport, or the Apply of a reload.
applyAndReport(a) ==
  /\ call[a].step = "apply" /\ unlock(a)
  /\ call' = [call EXCEPT ![a] = Idle]
  /\ running' \in Converge(call[a].copy, running)
  /\ denied' = denied \cup (IF a \notin Reloads /\ call[a].op = "deny" THEN
       {p \in {call[a].plugin} : ~Enabled(deployment[p]) /\ ~Recalled(p)} ELSE {})
  /\ UNCHANGED <<deployment, calls, edits, starts, decided, accepted, stated, raced>>

\* ErrBoundaryNotReached, ErrApplyInProgress: answered as pending.
Pending(a) ==
  /\ call[a].step = "apply" /\ unlock(a)
  /\ call' = [call EXCEPT ![a] = Idle]
  /\ UNCHANGED <<deployment, running, calls, edits, starts, ghosts>>

Reload(a) ==
  /\ a \in Reloads /\ call[a] = Idle /\ calls < MaxCalls
  /\ call' = [call EXCEPT ![a] = [step |-> "apply", copy |-> deployment]]
  /\ calls' = calls + 1 /\ denied' = StillDown(deployment)
  /\ UNCHANGED <<deployment, mu, running, edits, starts, decided, accepted, stated, raced>>

\* drainPlugins, the process's end and assemblePlugins of the next one.
assemblePlugins ==
  /\ starts < MaxStarts /\ starts' = starts + 1
  /\ call' = [a \in Actors |-> IF a \in Commands THEN call[a] ELSE Idle]
  /\ mu' = NoOne /\ raced' = raced \cap Commands
  /\ running' \in Converge(deployment, [p \in Plugins |-> Down])
  /\ UNCHANGED <<deployment, calls, edits, decided, accepted, stated, denied>>

\* The operator edits the file: another version under the same grant, or no entry.
HandEdit(p) ==
  /\ edits < MaxEdits /\ edits' = edits + 1
  /\ IsEntry(deployment[p])
  /\ \E e \in {NoEntry} \cup {[deployment[p] EXCEPT !.version = v] : v \in Versions} :
       /\ deployment' = [deployment EXCEPT ![p] = e]
       /\ stated' = [stated EXCEPT ![p] = e]
       /\ decided' = decided \cup (IF Enabled(e) THEN {<<p, e.version, e.caps>>} ELSE {})
  /\ raced' = raced \cup {b \in Commands \cup Consoles : call[b].step = "write"}
  /\ denied' = StillDown(deployment')
  /\ UNCHANGED <<call, mu, running, calls, starts, accepted>>

ConsentNext ==
  \/ \E a \in Actors, p \in Plugins :
       \/ \E v \in Versions, caps \in Lists \cup {{}}, accept \in BOOLEAN : runPluginsInstall(a, p, v, caps, accept)
       \/ \E caps \in Lists : runPluginsGrant(a, p, caps) \/ Grant(a, p, caps)
       \/ runPluginsDeny(a, p) \/ Deny(a, p)
  \/ \E a \in Actors : \/ Fail(a) \/ RefuseDeploymentChanged(a) \/ WriteDeployment(a)
                       \/ applyAndReport(a) \/ Pending(a) \/ Reload(a)
  \/ assemblePlugins
  \/ \E p \in Plugins : HandEdit(p)

ConsentSpec == ConsentInit /\ [][ConsentNext]_consentVars

(***************************************************************************)
(* Properties.                                                             *)
(***************************************************************************)
\* Entries, calls and mounts have their types; a console request is inside
\* exactly while it holds the mutex.
ConsentTypeOK ==
  /\ \A p \in Plugins : /\ IsEntry(deployment[p]) => /\ deployment[p].version \in Versions
                                                     /\ deployment[p].caps \subseteq Capabilities
                        /\ running[p] # Down => running[p].version \in Versions
  /\ \A a \in Consoles : call[a] # Idle <=> mu = a

\* plugins.json is what the decisions made of it, each on its own entry: no
\* write takes back another's, whichever plugins they are about and whoever
\* makes them.  Exempt is the window the service's comment concedes, a write by
\* another process between comparison and rename.
DecisionsStand == deployment = stated

\* Nothing runs with a capability nobody granted this plugin in this version,
\* through upgrades by hand, refused convergences and restarts.
OnlyAuthorized == \A p \in Plugins : running[p] # Down =>
  \E d \in decided : d[1] = p /\ d[2] = running[p].version /\ running[p].caps \subseteq d[3]

\* Where signatures are required, what runs without one was accepted as these
\* very bytes, by an install of this plugin.
UnsignedWasAccepted == requireSignature =>
  \A p \in Plugins : running[p] # Down /\ running[p].version \notin Endorsed
                       => <<p, running[p].version>> \in accepted

\* A plugin whose denial was answered as converged is down until the file
\* enables it again, unless a reload had read the file before the denial.
DenialHolds == \A p \in denied : running[p] = Down

(* The deployment file is what the decisions of consoles and hand edits made of
   it, and what runs was granted its capabilities and, unsigned, accepted as
   these bytes; a denial that converged holds. Consoles, reloads and restarts
   interleave. *)
ConsentSafe ==
  /\ [](ConsentTypeOK /\ DecisionsStand /\ OnlyAuthorized /\
       UnsignedWasAccepted /\ DenialHolds)
===============================================================================
