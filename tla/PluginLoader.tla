---------------------------- MODULE PluginLoader ----------------------------
(***************************************************************************)
(* The plugin loader (internal/plugin/loader): one convergence of what is  *)
(* mounted on what a deployment asks for, inside one boundary of the task  *)
(* gate, and the unloads a plugin's faults force in between, which run in  *)
(* a task and so never beside a convergence.                               *)
(*                                                                         *)
(* A package stands for a version with all it declares.  Its tools and its *)
(* services are names; a plugin requires names.  A convergence is a step:  *)
(* it holds the loader's lock and no task runs.                            *)
(***************************************************************************)
EXTENDS Integers, Sequences, FiniteSets

CONSTANTS
  Order,      \* the plugins' names, in the order a deployment lists them
  Packages,   \* packages there are to mount
  NameOf,     \* the plugin a package is a version of
  ToolsOf,    \* tools it contributes
  ServicesOf, \* services it provides
  Requires,   \* names it requires
  KeyOf,      \* the key that endorses it
  HostTools,  \* tools the host registers itself
  Tasks,      \* tasks whose calls may report a fault
  Absent,        \* no package: not listed, or not enabled
  Host        \* the host as a contributor of tools

Names == {Order[i] : i \in 1..Len(Order)}
Keys == {KeyOf[p] : p \in Packages}
Tools == HostTools \cup UNION {ToolsOf[p] : p \in Packages}
Provides(p) == ToolsOf[p] \cup ServicesOf[p]

\* A deployment lists a name once.  In the graph of dependencies services carry
\* a prefix (serviceNames), so that none is a tool.
ASSUME LoaderAssumption ==
  /\ Len(Order) \in Nat
  /\ \A i, j \in 1..Len(Order) : Order[i] = Order[j] => i = j
  /\ \A p \in Packages : NameOf[p] \in Names /\ ServicesOf[p] \cap Tools = {}
  /\ Absent \notin Packages /\ Host \notin Names

VARIABLES
  instances,   \* the package each name is mounted from, or Absent
  suspended,   \* mounted plugins whose contributions are withdrawn
  registry,    \* <<contributor, tool>>
  ledger,      \* packages whose owner holds entries
  failures,    \* names with a failure record
  unconfirmed, \* those whose record says a revoked instance may still run
  noted,       \* mounted plugins with a LastError
  target,      \* the deployment applied last
  revoked,     \* keys the trust set revokes
  judged,      \* ... when a convergence last read it
  unresolved,  \* the last convergence could not resolve the dependencies
  upset,       \* a plugin was unloaded since, for its faults
  unloading    \* where the unload in each task is

mountVars == <<instances, suspended, registry, ledger, failures, unconfirmed, noted>>
loaderVars == <<mountVars, target, revoked, judged, unresolved, upset, unloading>>

\* What a convergence works on: the variables of mountVars in a record.
Mount == [inst: [Names -> Packages \cup {Absent}], susp: SUBSET Names, reg: SUBSET ((Names \cup {Host}) \X Tools),
          led: SUBSET Packages, fail: SUBSET Names, unconf: SUBSET Names, note: SUBSET Names]
Now == [inst |-> instances, susp |-> suspended, reg |-> registry, led |-> ledger,
        fail |-> failures, unconf |-> unconfirmed, note |-> noted]

IsMounted(m, n) == m.inst[n] # Absent
Up(m) == {n \in Names : IsMounted(m, n)}
Registered(m) == {e[2] : e \in m.reg}

\* What the operator is shown: a row for what is mounted and for what failed.
Status(m) == {<<n, IF n \in m.susp THEN "suspended" ELSE "loaded">> : n \in Up(m)}
             \cup {<<n, "failed">> : n \in m.fail}

\* Who answers for a service now: a suspended provider does not.
ResolveService(m, s) == {n \in Up(m) \ m.susp : s \in ServicesOf[m.inst[n]]}

LoaderInit ==
  /\ instances = [n \in Names |-> Absent] /\ suspended = {}
  /\ registry = {Host} \X HostTools /\ ledger = {}
  /\ failures = {} /\ unconfirmed = {} /\ noted = {}
  /\ target = [n \in Names |-> Absent] /\ revoked = {} /\ judged = {}
  /\ unresolved = FALSE /\ upset = FALSE
  /\ unloading = [t \in Tasks |-> <<"idle">>]

(***************************************************************************)
(* Activation and unload.  w is what a convergence meets: the deployment   *)
(* dep; whether the trust set is readable, and the keys it revokes, bad;   *)
(* packages that do not load, lost, or not activate, inert; and plugins    *)
(* whose unload reports an error, leaky.                                   *)
(***************************************************************************)
toolNameConflicts(m, p) == ToolsOf[p] \cap Registered(m) # {}

serviceHeldBy(m, p) ==
  \E n \in Names \ {NameOf[p]} : IsMounted(m, n) /\ ServicesOf[m.inst[n]] \cap ServicesOf[p] # {}

\* host.Activate: its owner must hold nothing yet; what it filed before a
\* failure is rolled back.
Activates(m, p, w) == p \notin w.inert /\ p \notin m.led

Activate(m, p) ==
  [m EXCEPT !.inst[NameOf[p]] = p, !.susp = @ \ {NameOf[p]}, !.led = @ \cup {p},
            !.reg = @ \cup {NameOf[p]} \X ToolsOf[p], !.fail = @ \ {NameOf[p]}]

\* The ledger disposes what the owners of the plugins of S filed.
Withdrawn(m, S) == {e \in m.reg : e[1] \notin S}

\* A slip of unload: the owner's entries stay when a disposer fails.
Bug_unload(m, S) ==
  [m EXCEPT !.inst = [n \in Names |-> IF n \in S THEN Absent ELSE @[n]],
            !.susp = @ \ S, !.note = @ \ S, !.reg = Withdrawn(m, S)]

\* unload, of instances that have left the map: the ledger forgets an owner
\* whatever its disposers say.
unload(m, S) ==
  [m EXCEPT !.inst = [n \in Names |-> IF n \in S THEN Absent ELSE @[n]],
            !.susp = @ \ S, !.note = @ \ S,
            !.led = @ \ {m.inst[n] : n \in S}, !.reg = Withdrawn(m, S)]

\* Their records, with what the unloads reported.
recordRevokedUnload(m, S, w) ==
  [m EXCEPT !.fail = @ \cup S, !.unconf = (@ \ S) \cup (S \cap w.leaky)]

revokedEndorsementOf(p, w) == KeyOf[p] \in w.bad

\* restore: the former instance comes back unless its key is revoked, its
\* tools are taken or it will not activate.
restores(m, prev, w) ==
  /\ ~revokedEndorsementOf(prev, w)
  /\ ~toolNameConflicts(m, prev) /\ Activates(m, prev, w)

\* fail: a running instance keeps the failure on itself, another gets a record.
fail(m, n, prev, w) ==
  IF prev # Absent /\ restores(m, prev, w)
    THEN [Activate(m, prev) EXCEPT !.note = @ \cup {n}, !.unconf = @ \ {n}]
  ELSE IF IsMounted(m, n) THEN [m EXCEPT !.note = @ \cup {n}]
  ELSE [m EXCEPT !.fail = @ \cup {n},
                 !.unconf = IF prev # Absent /\ revokedEndorsementOf(prev, w) /\ n \in w.leaky
                              THEN @ \cup {n} ELSE @]

(***************************************************************************)
(* The passes of a convergence.  The first two judge each plugin by itself *)
(* and are written for all of them at once.                                *)
(***************************************************************************)
Refuses(p, w) == ~w.readable \/ p \in w.lost \/ revokedEndorsementOf(p, w)

Planned(m, n, w) == w.dep[n] # Absent /\ ~Refuses(w.dep[n], w) /\ m.inst[n] # w.dep[n]

\* Pass 1, prepare: what is no longer asked for has no failure to report, what
\* is refused gets one, what is unchanged and works has its own cleared.
Prepare(m, w) ==
  LET gone    == {n \in Names : w.dep[n] = Absent}
      refused == {n \in Names \ gone : Refuses(w.dep[n], w)}
      same    == {n \in Names \ (gone \cup refused) : m.inst[n] = w.dep[n] /\ n \notin m.susp}
  IN [m EXCEPT !.fail = (@ \ gone) \cup (refused \ Up(m)),
               !.unconf = @ \ gone,
               !.note = (@ \cup (refused \cap Up(m))) \ same]

Goes(m, n, w) ==
  /\ IsMounted(m, n)
  /\ \/ w.dep[n] = Absent
     \/ revokedEndorsementOf(m.inst[n], w)
     \/ Planned(m, n, w)

\* Pass 2: what is revoked, replaced or no longer wanted goes down.  What goes
\* for its key alone leaves a record.
TakeDown(m, w) ==
  LET down == {n \in Names : Goes(m, n, w)}
  IN recordRevokedUnload(unload(m, down), {n \in down : w.dep[n] # Absent /\ ~Planned(m, n, w)}, w)

\* Pass 3, activate.
BringUp(m, n, prev, w) ==
  LET p == w.dep[n]
      leaked == prev # Absent /\ n \in w.leaky
  IN IF toolNameConflicts(m, p) \/ serviceHeldBy(m, p) \/ ~Activates(m, p, w)
       THEN fail(m, n, prev, w)
       ELSE [Activate(m, p) EXCEPT !.note = IF leaked \/ n \in m.unconf THEN @ \cup {n} ELSE @ \ {n},
                                   !.unconf = @ \ {n}]

converge(m, w) ==
  LET pass[i \in 0..Len(Order)] ==
        IF i = 0 THEN TakeDown(Prepare(m, w), w)
        ELSE IF Planned(m, Order[i], w) THEN BringUp(pass[i - 1], Order[i], m.inst[Order[i]], w)
        ELSE pass[i - 1]
  IN pass[Len(Order)]

(***************************************************************************)
(* Dependencies (suspend.go, depgraph.go).                                 *)
(***************************************************************************)
ProviderOf(m, r) == {n \in Up(m) : r \in Provides(m.inst[n])}
External(m) == Registered(m) \ UNION {ToolsOf[m.inst[n]] : n \in Up(m)}

\* What n requires is met outside the plugins or by those of S.
requirementsSatisfied(m, n, S) ==
  \A r \in Requires[m.inst[n]] : r \in External(m) \/ ProviderOf(m, r) \cap S # {}

\* resolveStates: suspension cascades until nothing more falls, which leaves
\* the largest set that sustains itself.
resolveStates(m) == UNION {S \in SUBSET Up(m) : \A n \in S : requirementsSatisfied(m, n, S)}

\* Plugins that come round to themselves by way of providers.
Cyclic(m) == \E S \in SUBSET Up(m) \ {{}} :
  \A n \in S : \E r \in Requires[m.inst[n]] : ProviderOf(m, r) \cap S # {}

Unresolvable(m) == Cyclic(m) \/ \E n \in Up(m) : \E r \in Provides(m.inst[n]) : ProviderOf(m, r) # {n}

suspend(m, S) == [m EXCEPT !.susp = @ \cup S, !.reg = Withdrawn(m, S)]

unregisteredRequires(m, n) == (Requires[m.inst[n]] \cap Tools) \ Registered(m)
takenToolNames(m, n) == ToolsOf[m.inst[n]] \cap Registered(m)

\* Plugin.Resume files the contributions again.
Refiled(m, n) == [m EXCEPT !.susp = @ \ {n}, !.reg = @ \cup {n} \X ToolsOf[m.inst[n]]]

resume(m, n) ==
  IF unregisteredRequires(m, n) = {} /\ takenToolNames(m, n) = {}
    THEN Refiled(m, n)
    ELSE [m EXCEPT !.note = @ \cup {n}]

\* Providers before the plugins that require them.
dependencyOrder(m, S) == CHOOSE o \in [1..Cardinality(S) -> S] :
  /\ \A i, j \in DOMAIN o : o[i] = o[j] => i = j
  /\ \A i, j \in DOMAIN o : (\E r \in Requires[m.inst[o[j]]] : o[i] \in ProviderOf(m, r)) => i < j

\* A graph that cannot be resolved changes nothing.
convergeDependencies(m) ==
  IF Unresolvable(m) THEN m
  ELSE LET good  == resolveStates(m)
           low   == suspend(m, (Up(m) \ good) \ m.susp)
           back  == good \cap m.susp
           order == dependencyOrder(m, back)
           raised[i \in 0..Cardinality(back)] ==
             IF i = 0 THEN low ELSE resume(raised[i - 1], order[i])
       IN raised[Cardinality(back)]

(***************************************************************************)
(* Steps.                                                                  *)
(***************************************************************************)

\* Entries are named after the plugin they install (prepare refuses others).
Deployments == {d \in [Names -> Packages \cup {Absent}] : \A n \in Names : d[n] # Absent => NameOf[d[n]] = n}

\* The task gate: an unload in progress is a task in flight.
AtBoundary == \A t \in Tasks : unloading[t] = <<"idle">>

Adopt(m) ==
  /\ instances' = m.inst /\ suspended' = m.susp /\ registry' = m.reg /\ ledger' = m.led
  /\ failures' = m.fail /\ unconfirmed' = m.unconf /\ noted' = m.note

\* One reading of the trust set for a whole convergence: one that failed
\* judges no mounted instance.
Met(dep, readable, lost, inert, leaky) ==
  [dep |-> dep, readable |-> readable, bad |-> IF readable THEN revoked ELSE {},
   lost |-> lost, inert |-> inert, leaky |-> leaky]

Apply(w) ==
  /\ AtBoundary
  /\ LET settled == converge(Now, w)
     IN /\ Adopt(convergeDependencies(settled))
        /\ unresolved' = Unresolvable(settled)
  /\ target' = w.dep /\ upset' = FALSE
  /\ judged' = IF w.readable THEN revoked ELSE judged
  /\ UNCHANGED <<revoked, unloading>>

\* The trust set changes under the loader: a key is revoked, or trusted again.
Revoke(k) ==
  /\ revoked' = IF k \in revoked THEN revoked \ {k} ELSE revoked \cup {k}
  /\ UNCHANGED <<mountVars, target, judged, unresolved, upset, unloading>>

\* unloadUnhealthy, first lock: whoever finds the plugin gone leaves it.
Forsake(t, n) ==
  /\ unloading[t] = <<"idle">>
  /\ IsMounted(Now, n) /\ n \notin suspended
  /\ instances' = [instances EXCEPT ![n] = Absent]
  /\ noted' = noted \ {n}
  /\ unloading' = [unloading EXCEPT ![t] = <<"dispose", n, instances[n]>>]
  /\ upset' = TRUE
  /\ UNCHANGED <<suspended, registry, ledger, failures, unconfirmed, target, revoked, judged, unresolved>>

\* Between the locks the ledger disposes what the instance filed.
Dispose(t) ==
  /\ unloading[t][1] = "dispose"
  /\ registry' = Withdrawn(Now, {unloading[t][2]})
  /\ ledger' = ledger \ {unloading[t][3]}
  /\ unloading' = [unloading EXCEPT ![t] = <<"record", unloading[t][2]>>]
  /\ UNCHANGED <<instances, suspended, failures, unconfirmed, noted, target, revoked, judged, unresolved, upset>>

\* Second lock.
RecordUnload(t) ==
  /\ unloading[t][1] = "record"
  /\ failures' = failures \cup {unloading[t][2]} /\ unconfirmed' = unconfirmed \ {unloading[t][2]}
  /\ unloading' = [unloading EXCEPT ![t] = <<"idle">>]
  /\ UNCHANGED <<instances, suspended, registry, ledger, noted, target, revoked, judged, unresolved, upset>>

AtMostOne(S) == {{}} \cup {{x} : x \in S}

\* Bound: at most one package fails in a convergence, to load or to activate,
\* and one unload reports an error.
AnApply == \E dep \in Deployments, leaky \in AtMostOne(Up(Now)) :
  LET named == {dep[n] : n \in Names} \ {Absent}
  IN \/ leaky = {} /\ Apply(Met(dep, FALSE, {}, {}, {}))
     \/ \E lost \in AtMostOne(named) : Apply(Met(dep, TRUE, lost, {}, leaky))
     \/ \E p \in named \cup {instances[n] : n \in Up(Now)} : Apply(Met(dep, TRUE, {}, {p}, leaky))

LoaderNext ==
  \/ AnApply
  \/ \E k \in Keys : Revoke(k)
  \/ \E t \in Tasks, n \in Names : Forsake(t, n)
  \/ \E t \in Tasks : Dispose(t) \/ RecordUnload(t)

LoaderSpec == LoaderInit /\ [][LoaderNext]_loaderVars

(***************************************************************************)
(* Properties.                                                             *)
(***************************************************************************)
LoaderTypeOK ==
  /\ Now \in Mount
  /\ \A n \in Names : target[n] # Absent => target[n] \in Packages /\ NameOf[target[n]] = n
  /\ revoked \subseteq Keys /\ judged \subseteq Keys
  /\ unresolved \in BOOLEAN /\ upset \in BOOLEAN

InProgress == {unloading[t][2] : t \in {u \in Tasks : unloading[u] # <<"idle">>}}

\* Status has one row per name: a plugin with a failure record is not mounted,
\* however it failed, came back or was unloaded.
OneRow == \A r, s \in Status(Now) : r[1] = s[1] => r = s

\* What a key the last reading revokes endorses is not mounted: it is refused,
\* taken down, and not put back by a rollback.
RevokedIsDown == \A n \in Up(Now) : KeyOf[instances[n]] \notin judged

\* A plugin the deployment asks for is mounted or has a record that says why
\* it is not, unless a task is just unloading it.
NeverSilentlyGone == \A n \in Names :
  target[n] # Absent => IsMounted(Now, n) \/ n \in failures \/ n \in InProgress

\* The ledger holds what the mounted plugins filed and nothing of those that
\* are gone, so that no activation finds its owner taken.
LedgerMatches ==
  ledger = {instances[n] : n \in Up(Now)} \cup {unloading[t][3] : t \in {u \in Tasks : unloading[u][1] = "dispose"}}

\* One name is one tool: no tool has two contributors, the host included.
OneTool == \A e, f \in registry : e[2] = f[2] => e = f

\* The registry shows the tools of a plugin when it is mounted and not
\* suspended, all of them, and only then.
ContributesWhenUp == \A n \in Names \ InProgress :
  {e[2] : e \in {f \in registry : f[1] = n}} =
    IF IsMounted(Now, n) /\ n \notin suspended THEN ToolsOf[instances[n]] ELSE {}

\* After a convergence that could resolve the graph, a plugin works exactly
\* when all it requires does: what is up has its providers up, and what is
\* suspended waits for something.
Works(r) == r \in Registered(Now) \/ ResolveService(Now, r) # {}
ConvergedIsServed == ~unresolved /\ ~upset =>
  \A n \in Up(Now) : n \notin suspended <=> \A r \in Requires[instances[n]] : Works(r)

\* That a revoked instance was never confirmed released stays on the status of
\* a plugin the deployment asks for, through failed attempts to mount it and
\* onto the instance that comes back.
UnconfirmedKept == [][\A n \in unconfirmed :
  target'[n] # Absent => n \in unconfirmed' \/ n \in noted']_loaderVars

(* The mounted plugins, their failure records, the ownership ledger and the
   tool registry agree after every mount, unload, suspension, revocation and
   failed convergence, and no plugin that was asked for disappears without a
   record. *)
LoaderSafe ==
  /\ [](LoaderTypeOK /\ OneRow /\ RevokedIsDown /\ NeverSilentlyGone /\
       LedgerMatches /\ OneTool /\ ContributesWhenUp /\ ConvergedIsServed)
  /\ UnconfirmedKept
===============================================================================
