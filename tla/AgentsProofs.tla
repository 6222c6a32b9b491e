----------------------------- MODULE AgentsProofs -----------------------------
(* What an agent is given to work with, proved safe for any configuration of  *)
(* agents and tools, any requests, any skills and any order of what happens    *)
(* to them; and its exchange with the model, whatever the model asks for.      *)
EXTENDS Scopes, Conversation, Skills, FiniteSetTheorems, FunctionTheorems, WellFoundedInduction, TLAPS

LEMMA AppendedTo ==
  ASSUME NEW S, NEW s \in Seq(S), NEW x \in S
  PROVE  /\ Append(s, x) \in Seq(S) /\ Len(Append(s, x)) = Len(s) + 1 /\ Len(s) \in Nat
         /\ DOMAIN s = 1 .. Len(s) /\ DOMAIN Append(s, x) = (DOMAIN s) \cup {Len(s) + 1}
         /\ Append(s, x)[Len(s) + 1] = x /\ \A i \in DOMAIN s : Append(s, x)[i] = s[i]
  OBVIOUS

-----------------------------------------------------------------------------
(* Delegated scopes.                                                         *)

LEMMA ScopeConstants ==
  /\ MaxSpawnDepth \in Nat \ {0} /\ MaxNodes \in Nat \ {0} /\ MaxCalls \in Nat
  /\ WorkerTools \subseteq DefaultTools /\ "delegate_task" \notin DefaultTools /\ None \notin DOMAIN Agents
  BY ScopesAssumption

Specs == UNION {{b[i] : i \in DOMAIN b} : b \in Batches}
Requests == Batches \cup {<<s>> : s \in Specs}
Roles == {RoleOf(s) : s \in Specs} \cup {"orchestrator"}
Denials == {Agents[a].denied : a \in DOMAIN Agents} \cup {RootDenied}

Runtimes == [agent : DOMAIN Agents \cup {None}, depth : 0 .. MaxSpawnDepth, role : Roles,
             allow : SUBSET AllTools, denied : Denials, waits : BOOLEAN, call : Nat, parent : Nat, asker : Nat]
DelegateCalls == [caller : Nat, specs : Requests, refused : BOOLEAN, left : SUBSET (UNION {DOMAIN b : b \in Batches})]

ScopeTypes ==
  /\ tree \in Seq(Runtimes) /\ calls \in Seq(DelegateCalls) /\ plug \in BOOLEAN
  /\ Len(tree) \in 1 .. MaxNodes

\* The root is a task of the default runner or of an agent that resolved.
Rooted == tree[1].depth = 0 /\ tree[1].asker = 0

\* What a node may do comes from the root it was copied from or from the agent
\* whose name it has.
Derived(n) ==
  IF tree[n].agent = None
  THEN tree[1].agent = None /\ tree[n].denied = tree[1].denied /\ tree[n].allow \subseteq tree[1].allow
  ELSE Agents[tree[n].agent].sound /\ tree[n].denied = Agents[tree[n].agent].denied

\* Who started it, and that it had been judged first.
Started(n) ==
  /\ tree[n].depth \in 1 .. MaxSpawnDepth /\ ~tree[n].waits /\ tree[n].call \in DOMAIN calls
  /\ ~calls[tree[n].call].refused
  /\ tree[n].asker \in {0, calls[tree[n].call].caller}

Judged == \A k \in DOMAIN calls : calls[k].left # {} => ~calls[k].refused

ScopesInv ==
  /\ ScopeTypes /\ Rooted /\ Judged
  /\ \A n \in Nodes : Derived(n)
  /\ \A n \in Nodes \ {1} : Started(n)

Runtime(a, d, r, l, n, k, c, q) ==
  [agent |-> a, depth |-> d, role |-> r, allow |-> l, denied |-> n, waits |-> FALSE, call |-> k, parent |-> c, asker |-> q]

LEMMA RuntimeFields ==
  ASSUME NEW a, NEW d, NEW r, NEW l, NEW n, NEW k, NEW c, NEW q
  PROVE  LET x == Runtime(a, d, r, l, n, k, c, q) IN
         /\ x.depth = d /\ ~x.waits /\ x.call = k /\ x.asker = q /\ x.agent = a /\ x.denied = n /\ x.allow = l
         /\ a \in DOMAIN Agents \cup {None} /\ d \in 0 .. MaxSpawnDepth /\ r \in Roles /\ l \in SUBSET AllTools /\ n \in Denials
              /\ k \in Nat /\ c \in Nat /\ q \in Nat => x \in Runtimes
  BY DEF Runtime, Runtimes

\* A child is a clone of the root or an agent's own runtime.
LEMMA ChildIsDerived ==
  ASSUME ScopesInv, NEW s \in Specs, validateSubTaskSpec(s), NEW c \in Nat, NEW k \in Nat, NEW x \in childFor(s, k, c)
  PROVE  /\ x \in Runtimes /\ x.depth \in 1 .. MaxSpawnDepth /\ ~x.waits /\ x.call = k /\ x.asker \in {0, c}
         /\ IF x.agent = None
            THEN tree[1].agent = None /\ x.denied = tree[1].denied /\ x.allow \subseteq tree[1].allow
            ELSE Agents[x.agent].sound /\ x.denied = Agents[x.agent].denied
<1> USE ScopeConstants
<1>1. tree[1] \in Runtimes /\ 1 \in Nodes
  BY DEF ScopesInv, ScopeTypes, Nodes
<1>2. RoleOf(s) \in Roles
  BY DEF Roles
<1>3. Narrow(s) \in SUBSET AllTools
  BY <1>1 DEF Narrow, validateSubTaskSpec, Descriptors, Runtimes
<1>4. tree[1].depth + 1 \in 1 .. MaxSpawnDepth
  BY DEF ScopesInv, Rooted, validateSubTaskSpec
<1>5. CASE s.agent = None
  <2>1. x = Runtime(tree[1].agent, tree[1].depth + 1, RoleOf(s), tree[1].allow \cap Narrow(s), tree[1].denied, k, c, tree[1].asker)
    BY <1>5 DEF childFor, newSubRuntime, Child, Runtime
  <2>2. /\ tree[1].agent \in DOMAIN Agents \cup {None} /\ tree[1].denied \in Denials
        /\ tree[1].allow \cap Narrow(s) \in SUBSET AllTools /\ tree[1].asker = 0
    BY <1>1, <1>3 DEF Runtimes, ScopesInv, Rooted
  <2>3. /\ x \in Runtimes /\ x.depth = tree[1].depth + 1 /\ ~x.waits /\ x.call = k /\ x.asker = 0
        /\ x.agent = tree[1].agent /\ x.denied = tree[1].denied /\ x.allow = tree[1].allow \cap Narrow(s)
    BY <1>2, <1>4, <2>1, <2>2, RuntimeFields
  <2>4. Derived(1)
    BY <1>1 DEF ScopesInv
  <2> QED
    BY <1>4, <2>3, <2>4 DEF Derived
<1>6. CASE s.agent # None
  <2>1. PICK a \in {0, c} : x = buildAgentRuntime(s, k, c, a) /\ Resolves(s.agent)
    BY <1>6 DEF childFor, Asker, ResolveDelegate
  <2>2. x = Runtime(s.agent, tree[1].depth + 1, RoleOf(s), Narrow(s), Agents[s.agent].denied, k, c, a)
    BY <2>1 DEF buildAgentRuntime, Child, Runtime
  <2>3. s.agent \in DOMAIN Agents /\ Agents[s.agent].denied \in Denials /\ Agents[s.agent].sound
    BY <1>6, <2>1 DEF validateSubTaskSpec, Denials, Resolves
  <2>4. /\ x \in Runtimes /\ x.depth = tree[1].depth + 1 /\ ~x.waits /\ x.call = k /\ x.asker = a
        /\ x.agent = s.agent /\ x.denied = Agents[s.agent].denied
    BY <1>2, <1>3, <1>4, <2>2, <2>3, RuntimeFields
  <2> QED
    BY <1>4, <1>6, <2>3, <2>4
<1> QED
  BY <1>5, <1>6

LEMMA ScopesInitInv == ScopesInit => ScopesInv
<1> SUFFICES ASSUME ScopesInit PROVE ScopesInv
  OBVIOUS
<1> USE ScopeConstants
<1>1. PICK a \in DOMAIN Agents \cup {None}, d \in Denials :
        /\ tree = <<NewRuntime(a, d)>> /\ (a = None => d = RootDenied)
        /\ (a # None => Agents[a].sound /\ d = Agents[a].denied)
  BY DEF ScopesInit, Resolves, Denials
<1>2. NewRuntime(a, d) \in Runtimes
  BY DEF NewRuntime, Runtimes, Roles
<1>3. tree \in Seq(Runtimes) /\ Len(tree) = 1 /\ tree[1] = NewRuntime(a, d) /\ Nodes = {1}
  BY <1>1, <1>2 DEF Nodes
<1>4. calls \in Seq(DelegateCalls) /\ DOMAIN calls = {}
  BY DEF ScopesInit
<1> QED
  BY <1>1, <1>3, <1>4 DEF ScopesInv, ScopeTypes, Rooted, Judged, Derived, Started, NewRuntime, ScopesInit

\* A call is noted, and what it starts, if anything, is a child of the caller's.
Begun(k, c) ==
  \/ tree' = tree
  \/ /\ Len(tree) < MaxNodes
     /\ \E s \in Specs : validateSubTaskSpec(s) /\
          \E child \in childFor(s, k, c) : tree' = Append(tree, child)

LEMMA BegunKeeps ==
  ASSUME ScopesInv, NEW k \in Nat, NEW c \in Nat, Begun(k, c),
         calls' \in Seq(DelegateCalls), plug' \in BOOLEAN, Judged',
         DOMAIN calls \subseteq DOMAIN calls',
         \A j \in DOMAIN calls : calls'[j].caller = calls[j].caller /\ calls'[j].refused = calls[j].refused,
         tree' # tree => k \in DOMAIN calls' /\ ~calls'[k].refused /\ calls'[k].caller = c
  PROVE  ScopesInv'
<1> USE ScopeConstants
<1>1. CASE tree' = tree
  <2>1. Nodes' = Nodes /\ \A n \in Nodes : Derived(n)'
    BY <1>1 DEF Nodes, ScopesInv, Derived
  <2>2. \A n \in Nodes \ {1} : Started(n)'
    BY <1>1 DEF ScopesInv, Started
  <2> QED
    BY <1>1, <2>1, <2>2 DEF ScopesInv, ScopeTypes, Rooted
<1>2. CASE tree' # tree
  <2>0. PICK s \in Specs : /\ validateSubTaskSpec(s) /\ Len(tree) < MaxNodes
                           /\ \E child \in childFor(s, k, c) : tree' = Append(tree, child)
    BY <1>2 DEF Begun
  <2>1. PICK x \in childFor(s, k, c) : tree' = Append(tree, x)
    BY <2>0
  <2>2. /\ x \in Runtimes /\ x.depth \in 1 .. MaxSpawnDepth /\ ~x.waits /\ x.call = k /\ x.asker \in {0, c}
        /\ IF x.agent = None
           THEN tree[1].agent = None /\ x.denied = tree[1].denied /\ x.allow \subseteq tree[1].allow
           ELSE Agents[x.agent].sound /\ x.denied = Agents[x.agent].denied
    BY <2>0, ChildIsDerived
  <2>3. tree \in Seq(Runtimes) /\ Len(tree) \in Nat \ {0} /\ DOMAIN tree = 1 .. Len(tree)
    BY DEF ScopesInv, ScopeTypes
  <2>4. /\ tree' \in Seq(Runtimes) /\ Len(tree') = Len(tree) + 1 /\ tree'[Len(tree) + 1] = x
        /\ \A n \in Nodes : tree'[n] = tree[n]
        /\ Nodes' = Nodes \cup {Len(tree) + 1} /\ 1 \in Nodes /\ Len(tree) + 1 # 1
    <3>1. /\ tree' \in Seq(Runtimes) /\ Len(tree') = Len(tree) + 1 /\ tree'[Len(tree) + 1] = x
          /\ DOMAIN tree' = (DOMAIN tree) \cup {Len(tree) + 1} /\ \A n \in DOMAIN tree : tree'[n] = tree[n]
      <4>1. tree \in Seq(Runtimes) /\ x \in Runtimes
        BY <2>2, <2>3
      <4> DEFINE longer == Append(tree, x)
      <4>2. /\ longer \in Seq(Runtimes) /\ Len(longer) = Len(tree) + 1 /\ longer[Len(tree) + 1] = x
            /\ DOMAIN longer = (DOMAIN tree) \cup {Len(tree) + 1} /\ \A n \in DOMAIN tree : longer[n] = tree[n]
        BY <4>1, AppendedTo
      <4>3. tree' = longer
        BY <2>1
      <4> HIDE DEF longer
      <4> QED
        BY <4>2, <4>3
    <3> QED
      BY <2>3, <3>1 DEF Nodes
  <2>5. ASSUME NEW n \in Nodes' PROVE Derived(n)'
    <3>1. CASE n \in Nodes
      BY <2>4, <3>1 DEF ScopesInv, Derived
    <3>2. CASE n = Len(tree) + 1
      BY <2>2, <2>4, <3>2 DEF Derived
    <3> QED
      BY <2>4, <2>5, <3>1, <3>2
  <2>6. ASSUME NEW n \in Nodes' \ {1} PROVE Started(n)'
    <3>1. CASE n \in Nodes
      BY <2>4, <2>6, <3>1 DEF ScopesInv, Started
    <3>2. CASE n = Len(tree) + 1
      BY <1>2, <2>2, <2>4, <3>2 DEF Started
    <3> QED
      BY <2>4, <2>6, <3>1, <3>2
  <2>7. ScopeTypes' /\ Rooted'
    <3>1. Len(tree') \in 1 .. MaxNodes /\ tree'[1] = tree[1]
      <4>1. Len(tree) < MaxNodes
        BY <2>0, Zenon
      <4>2. 1 <= Len(tree)
        BY <2>3
      <4> QED
        BY <2>3, <2>4, <4>1, <4>2
    <3> QED
      BY <2>4, <3>1 DEF ScopesInv, ScopeTypes, Rooted
  <2> QED
    BY <2>5, <2>6, <2>7 DEF ScopesInv
<1> QED
  BY <1>1, <1>2

LEMMA ScopesStep == ScopesInv /\ [ScopesNext]_scopeVars => ScopesInv'
<1> SUFFICES ASSUME ScopesInv, [ScopesNext]_scopeVars PROVE ScopesInv'
  OBVIOUS
<1> USE ScopeConstants
<1>0. /\ calls \in Seq(DelegateCalls) /\ Len(calls) \in Nat /\ DOMAIN calls = 1 .. Len(calls) /\ plug \in BOOLEAN
      /\ Nodes \subseteq Nat /\ Judged
  BY DEF ScopesInv, ScopeTypes, Nodes
<1> DEFINE k == Len(calls) + 1
<1>1. ASSUME UNCHANGED <<tree, calls>>, plug' \in BOOLEAN PROVE ScopesInv'
  BY <1>0, <1>1, BegunKeeps DEF Begun, Judged
\* A call noted at the end of the calls.
<1>2. ASSUME NEW n \in Nodes, NEW r \in DelegateCalls, calls' = Append(calls, r), r.caller = n, r.left # {} => ~r.refused,
             Begun(k, n), plug' = plug, tree' # tree => ~r.refused
      PROVE  ScopesInv'
  <2>1. /\ calls' \in Seq(DelegateCalls) /\ DOMAIN calls' = DOMAIN calls \cup {k} /\ calls'[k] = r
        /\ \A j \in DOMAIN calls : calls'[j] = calls[j]
    BY <1>0, <1>2
  <2>2. Judged'
    BY <1>0, <1>2, <2>1 DEF Judged
  <2>3. k \in Nat /\ n \in Nat
    BY <1>0
  <2> HIDE DEF k
  <2> QED
    BY <1>0, <1>2, <2>1, <2>2, <2>3, BegunKeeps
<1>3. ASSUME NEW n \in Nodes, NEW b \in Batches, Len(b) = 1, RunSubTask(n, b[1]) PROVE ScopesInv'
  <2> DEFINE s == b[1]
             can == validateSubTaskSpec(s) /\ canDelegate
             r == Call(n, <<s>>, ~can, {})
  <2>1. s \in Specs
    BY <1>3, ScopesAssumption DEF Specs
  <2>2. r \in DelegateCalls /\ r.caller = n /\ r.left = {} /\ r.refused = ~can
    BY <1>0, <2>1 DEF Call, DelegateCalls, Requests
  <2>3. calls' = Append(calls, r) /\ plug' = plug /\ (IF can /\ childFor(s, k, n) # {} THEN Spawn(s, k, n) ELSE UNCHANGED tree)
    BY <1>3 DEF RunSubTask
  <2>4. Begun(k, n) /\ (tree' # tree => can)
    BY <2>1, <2>3 DEF Begun, Spawn
  <2> HIDE DEF r, can, s, k
  <2> QED
    BY <1>2, <2>2, <2>3, <2>4
<1>4. ASSUME NEW n \in Nodes, NEW b \in Batches, RunSubTasks(n, b) PROVE ScopesInv'
  <2> DEFINE can == canDelegate /\ \A i \in DOMAIN b : validateSubTaskSpec(b[i])
             r == Call(n, b, ~can, IF can THEN DOMAIN b ELSE {})
  <2>1. r \in DelegateCalls /\ r.caller = n /\ (r.left # {} => ~r.refused)
    BY <1>0 DEF Call, DelegateCalls, Requests
  <2>2. calls' = Append(calls, r) /\ plug' = plug /\ tree' = tree
    BY <1>4 DEF RunSubTasks
  <2> HIDE DEF r, can, k
  <2> QED
    BY <1>2, <2>1, <2>2 DEF Begun
<1>5. ASSUME NEW j \in DOMAIN calls, NEW i \in DOMAIN calls[j].specs, StartEntry(j, i) PROVE ScopesInv'
  <2> DEFINE s == calls[j].specs[i]
             c == calls[j].caller
             can == validateSubTaskSpec(s) /\ canDelegate /\ childFor(s, j, c) # {}
  <2>1. calls[j] \in DelegateCalls /\ i \in calls[j].left
    BY <1>0, <1>5 DEF StartEntry
  <2>2. s \in Specs /\ c \in Nat
    BY <2>1 DEF Specs, Requests, DelegateCalls
  <2>3. calls' = [calls EXCEPT ![j].left = @ \ {i}] /\ plug' = plug /\ (IF can THEN Spawn(s, j, c) ELSE UNCHANGED tree)
    BY <1>5 DEF StartEntry
  <2>4. Begun(j, c)
    BY <2>2, <2>3 DEF Begun, Spawn
  <2>5. [calls[j] EXCEPT !.left = @ \ {i}] \in DelegateCalls
    BY <2>1 DEF DelegateCalls
  <2>6. calls' \in Seq(DelegateCalls) /\ DOMAIN calls' = DOMAIN calls
    BY <1>0, <2>3, <2>5
  <2>7. \A l \in DOMAIN calls : /\ calls'[l].caller = calls[l].caller /\ calls'[l].refused = calls[l].refused
                                /\ calls'[l].left \subseteq calls[l].left
    BY <1>0, <2>1, <2>3 DEF DelegateCalls
  <2>8. Judged' /\ ~calls[j].refused
    BY <1>0, <2>1, <2>6, <2>7 DEF Judged
  <2>9. j \in Nat /\ j \in DOMAIN calls'
    BY <1>0, <2>6
  <2> HIDE DEF s, c, can
  <2> QED
    BY <1>0, <2>2, <2>3, <2>4, <2>6, <2>7, <2>8, <2>9, BegunKeeps DEF c
<1>6. CASE PluginChanges
  BY <1>0, <1>1, <1>6 DEF PluginChanges
<1>7. CASE UNCHANGED scopeVars
  BY <1>0, <1>1, <1>7 DEF scopeVars
<1> QED
  BY <1>3, <1>4, <1>5, <1>6, <1>7 DEF ScopesNext

LEMMA ScopesImplies ==
  ScopesInv => ScopesTypeOK /\ CloneWithin /\ NamedIsItsAgent /\ RefusedStartsNothing /\ AnswersWhoAsked
<1> SUFFICES ASSUME ScopesInv
             PROVE  ScopesTypeOK /\ CloneWithin /\ NamedIsItsAgent /\ RefusedStartsNothing /\ AnswersWhoAsked
  OBVIOUS
<1> USE ScopeConstants
<1>1. ScopesTypeOK
  BY DEF ScopesInv, ScopeTypes, ScopesTypeOK, Started
<1>2. 1 \in Nodes /\ \A n \in Nodes : tree[n] \in Runtimes
  BY DEF ScopesInv, ScopeTypes, Nodes
<1>3. ASSUME NEW n \in Clones PROVE Offered(n) \subseteq Offered(1)
  <2>1. n \in Nodes /\ tree[n].agent = None /\ Derived(n)
    BY DEF ScopesInv, Clones
  <2>2. tree[1].agent = None /\ tree[n].denied = tree[1].denied /\ tree[n].allow \subseteq tree[1].allow
    BY <2>1 DEF Derived
  <2>3. OwnTools(n) = OwnTools(1)
    BY <2>1, <2>2 DEF OwnTools
  <2> HIDE DEF OwnTools
  <2> QED
    BY <2>2, <2>3 DEF Offered, Descriptors
<1>4. ASSUME NEW n \in Named
      PROVE  /\ tree[n].agent \in DOMAIN Agents /\ Agents[tree[n].agent].sound
             /\ Offered(n) \subseteq (WorkerTools \cup {"plug"}) \ Agents[tree[n].agent].denied
  <2>1. n \in Nodes /\ tree[n].agent # None /\ Derived(n) /\ tree[n].agent \in DOMAIN Agents
    BY <1>2 DEF ScopesInv, Named, Runtimes
  <2>2. OwnTools(n) = WorkerTools
    BY <2>1 DEF OwnTools
  <2> QED
    BY <2>1, <2>2 DEF Derived, Offered, Descriptors
<1>5. RefusedStartsNothing
  BY DEF ScopesInv, Started, RefusedStartsNothing
<1>6. AnswersWhoAsked
  BY DEF ScopesInv, Started, AnswersWhoAsked, Named
<1> QED
  BY <1>1, <1>3, <1>4, <1>5, <1>6 DEF CloneWithin, NamedIsItsAgent

(* However delegations nest and batches interleave, with a plugin's tool that  *)
(* comes and goes between a request's checks and the start of its entries: a   *)
(* clone is offered nothing the task's own runtime is not, a child under an     *)
(* agent's name has that agent's tools and denials, a refused request has      *)
(* started nothing, and every child lies within the spawn ceiling.             *)
THEOREM ScopesAreSafe == ScopesSpec => ScopesSafe
<1>1. ScopesInv => ScopesTypeOK /\ CloneWithin /\ NamedIsItsAgent /\ RefusedStartsNothing /\ AnswersWhoAsked
  BY ScopesImplies
<1> QED
  BY <1>1, ScopesInitInv, ScopesStep, PTL DEF ScopesSpec, ScopesSafe

-----------------------------------------------------------------------------
(* Skills.                                                                   *)

SyncPcs == {"idle", "fetch", "quarantine", "auditQ", "mkdir", "truncate", "write", "row", "auditI"}
\* The steps of a sync after its scan found the item safe.
PastScan == {"mkdir", "truncate", "write", "row", "auditI"}
Listed == SUBSET (1 .. Len(Index))
Syncs == [pc : SyncPcs, at : 0 .. Len(Index), on : BOOLEAN, installed : Listed, quarantined : Listed, failed : Listed]
SkillRows == [hash : (DOMAIN Packages) \cup {Absent}, source : {"registry", "workspace", Absent},
              status : Statuses \cup {Absent}, risk : {"safe", "critical", Absent}]
Uses == [known : BOOLEAN, last : Nat, pinned : BOOLEAN]
Installs == [pc : {"truncate", "write", "source"}, dir : Dir, pkg : DOMAIN Packages, source : DOMAIN Sources,
             on : BOOLEAN, left : {{}}]
Removes == [pc : {"remove"}, dir : Dir, pkg : {Absent}, source : {Absent}, on : {FALSE}, left : SUBSET {"SKILL.md", ".source"}]
Idles == [pc : {"idle"}, dir : {Absent}, pkg : {Absent}, source : {Absent}, on : {FALSE}, left : {{}}]
Disks == Installs \cup Removes \cup Idles
Changes == [op : {"enabled", "disabled", "archived"}, key : Keys, row : SkillRows]
Ages == [key : Keys \cup {<<>>}, idle : Nat, status : Statuses \cup {Absent}, pinned : BOOLEAN]
Sweeps == [pc : {"idle", "look"}, list : SUBSET (Keys \X SkillRows), now : Nat, aged : Ages]

SkillTypes ==
  /\ file \in [Dir -> DOMAIN Packages \cup {Absent, "empty"}] /\ src \in [Dir -> DOMAIN Sources \cup {Absent}]
  /\ dirs \subseteq Dir /\ removed \subseteq Dir
  /\ row \in [Keys -> SkillRows] /\ sync \in Syncs /\ disk \in [Handlers -> Disks]
  /\ life \in Changes \cup {NoLife} /\ now \in 1 .. MaxNow /\ usage \in [Ids -> Uses]
  /\ sweep \in Sweeps

\* The risk in a row is what the scanner says of the package it is about.
RiskIsScanned(r) == r.hash # Absent => r.risk = ScanRisk(r.hash)
CriticalIsOff(r) == r.status = "enabled" /\ r.hash # Absent => ScanRisk(r.hash) = "safe"
RowsAreJudged ==
  /\ \A k \in Keys : RiskIsScanned(row[k]) /\ CriticalIsOff(row[k])
  /\ RiskIsScanned(life.row) /\ (life.op = "enabled" => life.row.risk # "critical")
  /\ \A e \in sweep.list : RiskIsScanned(e[2])

\* A sync stands at an item, and goes past the scan with a safe one only.
SyncIsJudged ==
  /\ sync.pc # "idle" => sync.at \in 1 .. Len(Index)
  /\ sync.pc \in PastScan => ScanRisk(Item.pkg) = "safe"
  /\ sync.pc \in {"quarantine", "auditQ"} => ScanRisk(Item.pkg) = "critical"

\* Nothing was used, and no sweep began, later than now.
Past == sweep.now <= now /\ \A i \in Ids : usage[i].last <= now

\* An installation past its first write left a file there, unless a removal took it since.
Written == \A h \in Handlers : disk[h].pc \in {"write", "source"} => file[disk[h].dir] # Absent \/ disk[h].dir \in removed

SkillsInv ==
  /\ SkillTypes /\ RowsAreJudged /\ SyncIsJudged /\ CountsAddUp /\ Past /\ AgedWasIdle
  /\ Written /\ SourceHasFile /\ ListedIsWhole

LEMMA IdleIs == Idle \in Disks
  BY DEF Idle, Idles, Disks

\* A skill read from a file is the package's, or has no summary.
LEMMA SkillRead ==
  ASSUME SkillTypes, NEW s \in Load
  PROVE  s.status \in Statuses /\ (s.pkg = "empty" => s.summary = FALSE)
<1>1. PICK i \in Present : s = ReadSkill(Dirs[i])
  BY DEF Load
<1>2. Dirs[i] \in Dir
  BY DEF Present, Dir
<1>3. CASE file[Dirs[i]] = "empty"
  BY <1>1, <1>3 DEF ReadSkill, Statuses
<1>4. CASE file[Dirs[i]] # "empty"
  <2>1. file[Dirs[i]] \in DOMAIN Packages
    BY <1>2, <1>4 DEF SkillTypes, Present
  <2>2. s.pkg = file[Dirs[i]] /\ s.status = Packages[file[Dirs[i]]].status
    BY <1>1, <1>4 DEF ReadSkill, Package
  <2> QED
    BY <2>1, <2>2, SkillsAssumption
<1> QED
  BY <1>3, <1>4

LEMMA SkillsInitInv == SkillsInit => SkillsInv
<1> SUFFICES ASSUME SkillsInit PROVE SkillsInv
  OBVIOUS
<1> USE SkillsAssumption
<1>1. PICK own \in OwnSkills :
        /\ row = [k \in Keys |-> IF k \in own THEN OwnRow ELSE NoRow]
        /\ usage = [i \in Ids |-> [known |-> i \in {k[1] : k \in own}, last |-> IF i \in {k[1] : k \in own} THEN 1 ELSE 0, pinned |-> FALSE]]
  BY DEF SkillsInit
<1>2. OwnRow \in SkillRows /\ NoRow \in SkillRows
  BY DEF OwnRow, NoRow, SkillRows, Statuses
<1>3. row \in [Keys -> SkillRows]
  BY <1>1, <1>2
<1>4. usage \in [Ids -> Uses] /\ \A i \in Ids : usage[i].last <= 1
  BY <1>1 DEF Uses
<1>5. sync \in Syncs
  BY DEF SkillsInit, NoSync, Syncs, SyncPcs, Listed
<1>6. SkillTypes
  <2>1. NoSweep \in Sweeps
    BY DEF NoSweep, NoAged, Sweeps, Ages
  <2>2. disk \in [Handlers -> Disks]
    BY IdleIs DEF SkillsInit
  <2> QED
    BY <1>3, <1>4, <1>5, <2>1, <2>2 DEF SkillTypes, SkillsInit
<1>7. RowsAreJudged
  BY <1>1 DEF RowsAreJudged, RiskIsScanned, CriticalIsOff, OwnRow, NoRow, SkillsInit, NoLife, NoSweep
<1>8. SyncIsJudged /\ CountsAddUp
  BY DEF SyncIsJudged, CountsAddUp, SkillsInit, NoSync, PastScan
<1>9. Past /\ AgedWasIdle
  BY <1>4 DEF Past, AgedWasIdle, SkillsInit, NoSweep, NoAged
<1>10. Written /\ SourceHasFile /\ ListedIsWhole
  BY DEF Written, SourceHasFile, ListedIsWhole, SkillsInit, Idle, NoShow
<1> QED
  BY <1>6, <1>7, <1>8, <1>9, <1>10 DEF SkillsInv

Syncing == Sync \/ SyncFails \/ SyncScan \/ SyncQuarantine \/ SyncWrite \/ SyncSave \/ SyncAudit \/ SyncDies
Installing == handleSkill \/ runSkill \/ DiskSteps
Managing == (\E k \in Keys, op \in {"enabled", "disabled", "archived"} : Lifecycle(op, k)) \/ LifecycleSaves
Sweeping == Sweep \/ SweepRow \/ SweepEnds
Using == SelectForTask \/ (\E i \in Ids : Pin(i))

LEMMA SkillCases ==
  SkillsNext => Syncing \/ Installing \/ Managing \/ Sweeping \/ Using \/ Refresh \/ Tick \/ Restart
<1>1. ASSUME NEW i \in {Package(p).id : p \in DOMAIN Packages} PROVE i \in Ids
  BY SkillsAssumption DEF Ids, Package
<1> QED
  BY <1>1 DEF SkillsNext, Syncing, Installing, Managing, Sweeping, Using

LEMMA CountedIs ==
  ASSUME SkillTypes, SyncIsJudged, sync.pc # "idle", NEW in
  PROVE  LET at == sync.at s == Counted(in) IN
         /\ s \in Syncs /\ s.pc = (IF at < Len(Index) THEN "fetch" ELSE "idle") /\ (at < Len(Index) => s.at = at + 1)
         /\ s.installed = sync.installed \cup (IF in = "installed" THEN {at} ELSE {})
         /\ s.quarantined = sync.quarantined \cup (IF in = "quarantined" THEN {at} ELSE {})
         /\ s.failed = sync.failed \cup (IF in = "failed" THEN {at} ELSE {})
<1> DEFINE at == sync.at
           i == sync.installed \cup (IF in = "installed" THEN {at} ELSE {})
           q == sync.quarantined \cup (IF in = "quarantined" THEN {at} ELSE {})
           f == sync.failed \cup (IF in = "failed" THEN {at} ELSE {})
           p == IF at < Len(Index) THEN "fetch" ELSE "idle"
           n == IF at < Len(Index) THEN at + 1 ELSE at
<1>1. Counted(in) = [pc |-> p, at |-> n, on |-> FALSE, installed |-> i, quarantined |-> q, failed |-> f]
  BY DEF Counted
<1>2. at \in 1 .. Len(Index) /\ Len(Index) \in Nat
  BY SkillsAssumption DEF SyncIsJudged
<1>3. i \in Listed /\ q \in Listed /\ f \in Listed
  BY <1>2 DEF SkillTypes, Syncs, Listed
<1>4. p \in SyncPcs /\ n \in 0 .. Len(Index)
  BY <1>2 DEF SyncPcs
<1> HIDE DEF i, q, f, p, n
<1>5. Counted(in) \in Syncs
  BY <1>1, <1>3, <1>4 DEF Syncs
<1> QED
  BY <1>1, <1>5 DEF i, q, f, p, n

\* What each group of actions does to the variables it may write.
LEMMA SyncingTypes == SkillsInv /\ Syncing => SkillTypes'
<1> SUFFICES ASSUME SkillsInv, Syncing PROVE SkillTypes'
  OBVIOUS
<1> USE SkillsAssumption DEF SkillsInv
<1>a. SkillTypes /\ SyncIsJudged
  OBVIOUS
<1>b. sync.pc # "idle" => Item.id \in Dir /\ Item.pkg \in DOMAIN Packages
  BY DEF SyncIsJudged, Item
<1>1. file' \in [Dir -> DOMAIN Packages \cup {Absent, "empty"}]
  BY <1>a, <1>b DEF SkillTypes, Syncing, Sync, SyncFails, SyncScan, SyncQuarantine, SyncWrite, SyncSave, SyncAudit, SyncDies
<1>2. row' \in [Keys -> SkillRows]
  <2>1. CASE SyncQuarantine
    <3>1. QuarantinedRow(Item) \in SkillRows
      BY <1>b, <2>1 DEF QuarantinedRow, SkillRows, Statuses, SyncQuarantine
    <3> QED
      BY <2>1, <3>1 DEF SyncQuarantine, SkillTypes
  <2>2. CASE SyncSave
    <3> DEFINE s == ReadSkill(Item.id)
               r == [hash |-> Item.pkg, source |-> "registry", status |-> s.status, risk |-> "safe"]
    <3>1. s.status \in Statuses
      <4>1. file[Item.id] \in DOMAIN Packages \/ file[Item.id] = "empty"
        BY <1>b, <2>2 DEF SyncSave, SkillTypes
      <4> QED
        BY <4>1 DEF ReadSkill, Package, Statuses
    <3>2. r \in SkillRows
      BY <1>b, <2>2, <3>1 DEF SkillRows, SyncSave
    <3>3. row' = [row EXCEPT ![Key(s)] = r]
      BY <2>2 DEF SyncSave
    <3> HIDE DEF r
    <3> QED
      BY <3>2, <3>3 DEF SkillTypes
  <2> QED
    BY <2>1, <2>2 DEF SkillTypes, Syncing, Sync, SyncFails, SyncScan, SyncQuarantine, SyncWrite, SyncSave, SyncAudit, SyncDies
<1>3. sync' \in Syncs
  <2>1. CASE Sync
    BY <2>1 DEF Sync, Syncs, SyncPcs, Listed
  <2>2. CASE SyncFails \/ SyncAudit
    BY <1>a, <2>2, CountedIs DEF SyncFails, SyncAudit
  <2>3. CASE SyncDies
    BY <2>3 DEF SyncDies, NoSync, Syncs, SyncPcs, Listed
  <2>4. CASE SyncScan \/ SyncQuarantine \/ SyncWrite \/ SyncSave
    <3>1. PICK p \in SyncPcs, b \in BOOLEAN : sync' = [sync EXCEPT !.pc = p] \/ sync' = [sync EXCEPT !.pc = p, !.on = b]
      BY <2>4 DEF SyncScan, SyncQuarantine, SyncWrite, SyncSave, SyncPcs
    <3> QED
      BY <3>1 DEF SkillTypes, Syncs
  <2> QED
    BY <2>1, <2>2, <2>3, <2>4 DEF Syncing
<1>4. UNCHANGED <<src, removed, disk, life, now, usage, sweep>> /\ dirs' \subseteq Dir
  BY <1>a, <1>b DEF SkillTypes, Syncing, Sync, SyncFails, SyncScan, SyncQuarantine, SyncWrite, SyncSave, SyncAudit, SyncDies
<1> QED
  BY <1>1, <1>2, <1>3, <1>4 DEF SkillTypes

\* What is in hand shows by its step.
LEMMA HandKinds ==
  ASSUME NEW r \in Disks
  PROVE  /\ r.pc \in {"truncate", "write", "source"} => r \in Installs /\ r.dir \in Dir /\ r.pkg \in DOMAIN Packages /\ r.source \in DOMAIN Sources
         /\ r.pc = "remove" => r \in Removes /\ r.dir \in Dir
         /\ [r EXCEPT !.on = FALSE] \in Disks
<1>1. CASE r \in Installs
  <2>1. [r EXCEPT !.on = FALSE] \in Installs
    BY <1>1 DEF Installs
  <2>2. r.pc # "remove" /\ r.dir \in Dir /\ r.pkg \in DOMAIN Packages /\ r.source \in DOMAIN Sources
    BY <1>1 DEF Installs
  <2> QED
    BY <1>1, <2>1, <2>2 DEF Disks
<1>2. CASE r \in Removes
  <2>1. [r EXCEPT !.on = FALSE] \in Removes
    BY <1>2 DEF Removes
  <2>2. r.pc = "remove" /\ r.dir \in Dir
    BY <1>2 DEF Removes
  <2> QED
    BY <1>2, <2>1, <2>2 DEF Disks
<1>3. CASE r \in Idles
  <2>1. r.pc = "idle"
    BY <1>3 DEF Idles
  <2>2. [r EXCEPT !.on = FALSE] \in Idles
    BY <1>3 DEF Idles
  <2> QED
    BY <1>3, <2>1, <2>2 DEF Disks
<1> QED
  BY <1>1, <1>2, <1>3 DEF Disks

LEMMA HandsAre ==
  SkillTypes => \A h \in Handlers : disk[h] \in Disks /\ (disk[h].pc \in {"write", "source"} => disk[h].dir \in Dir)
  BY HandKinds DEF SkillTypes

\* An operation on the files, by its step.
Operation(h) ==
  \/ \E s \in DOMAIN Sources : FetchAndScan(h, s)
  \/ \E d \in Dir : Uninstall(h, d)
  \/ InstallWrites(h) \/ InstallFails(h) \/ RemovesFile(h) \/ RemovesDirectory(h)

LEMMA InstallCases == SkillTypes /\ Installing => \E h \in Handlers : Operation(h)
<1>1. SkillTypes => \A d \in Dir : src[d] # Absent => src[d] \in DOMAIN Sources
  BY DEF SkillTypes
<1>2. Scanning \subseteq Handlers
  BY SkillsAssumption
<1> QED
  BY <1>1, <1>2 DEF Installing, handleSkill, runSkill, DiskSteps, Ask, Install, Update, Operation

\* Operations on files touch no row; a sync's open file may lose its name.
LEMMA OperationLeaves ==
  ASSUME SkillTypes, NEW h \in Handlers, Operation(h)
  PROVE  /\ UNCHANGED <<row, finding, life, sweep, usage, now, shown>>
         /\ sync' = sync \/ (sync.pc = "write" /\ sync' = [sync EXCEPT !.on = FALSE])
<1>1. CASE RemovesFile(h)
  BY <1>1 DEF RemovesFile
<1>2. CASE ~RemovesFile(h)
  BY <1>2 DEF Operation, FetchAndScan, Uninstall, InstallWrites, InstallFails, RemovesDirectory, Others
<1> QED
  BY <1>1, <1>2

LEMMA InstallingLeaves ==
  ASSUME SkillTypes, Installing
  PROVE  /\ UNCHANGED <<row, finding, life, sweep, usage, now, shown>>
         /\ sync' = sync \/ (sync.pc = "write" /\ sync' = [sync EXCEPT !.on = FALSE])
  BY InstallCases, OperationLeaves

LEMMA WritesTypes ==
  ASSUME SkillTypes, NEW h \in Handlers, InstallWrites(h)
  PROVE  /\ file' \in [Dir -> DOMAIN Packages \cup {Absent, "empty"}] /\ src' \in [Dir -> DOMAIN Sources \cup {Absent}]
         /\ disk' \in [Handlers -> Disks]
<1>1. disk[h] \in Installs
  BY HandsAre, HandKinds DEF InstallWrites
<1>2. disk[h].pkg \in DOMAIN Packages /\ disk[h].source \in DOMAIN Sources /\ disk[h].dir \in Dir
  BY <1>1 DEF Installs
<1>3. file' \in [Dir -> DOMAIN Packages \cup {Absent, "empty"}] /\ src' \in [Dir -> DOMAIN Sources \cup {Absent}]
  BY <1>2 DEF InstallWrites, SkillTypes
<1>4. PICK r : disk' = [disk EXCEPT ![h] = r] /\ (r = Idle \/ \E p \in {"write", "source"}, b \in BOOLEAN : r = [disk[h] EXCEPT !.pc = p, !.on = b])
  BY DEF InstallWrites, SkillTypes
<1>5. r \in Disks
  <2>1. ASSUME NEW p \in {"write", "source"}, NEW b \in BOOLEAN PROVE [disk[h] EXCEPT !.pc = p, !.on = b] \in Disks
    <3>1. [disk[h] EXCEPT !.pc = p, !.on = b] \in Installs
      BY <1>1 DEF Installs
    <3> QED
      BY <3>1 DEF Disks
  <2> QED
    BY <1>4, <2>1, IdleIs
<1> QED
  BY <1>3, <1>4, <1>5 DEF SkillTypes

LEMMA RemovesTypes ==
  ASSUME SkillTypes, NEW h \in Handlers, RemovesFile(h)
  PROVE  SkillTypes'
<1>1. disk[h] \in Removes /\ disk[h].dir \in Dir
  BY HandsAre, HandKinds DEF RemovesFile
<1> DEFINE d == disk[h].dir
<1>2. file' \in [Dir -> DOMAIN Packages \cup {Absent, "empty"}] /\ src' \in [Dir -> DOMAIN Sources \cup {Absent}] /\ removed' \subseteq Dir
  BY <1>1 DEF RemovesFile, SkillTypes
<1>3. ASSUME NEW f \in {"SKILL.md", ".source"} PROVE [disk[h] EXCEPT !.left = @ \ {f}] \in Disks
  <2>1. [disk[h] EXCEPT !.left = @ \ {f}] \in Removes
    BY <1>1 DEF Removes
  <2> QED
    BY <2>1 DEF Disks
<1>4. \A g \in Handlers : disk[g] \in Disks /\ [disk[g] EXCEPT !.on = FALSE] \in Disks
  BY HandsAre, HandKinds
<1>5. disk' \in [Handlers -> Disks]
  <2>1. Unlinked(d) \in [Handlers -> Disks]
    BY <1>4 DEF Unlinked, SkillTypes
  <2>2. \/ disk' = [Unlinked(d) EXCEPT ![h] = [disk[h] EXCEPT !.left = @ \ {"SKILL.md"}]]
        \/ disk' = [disk EXCEPT ![h] = [disk[h] EXCEPT !.left = @ \ {".source"}]]
    BY DEF RemovesFile
  <2> QED
    BY <1>3, <2>1, <2>2 DEF SkillTypes
<1>6. sync' \in Syncs
  BY DEF RemovesFile, SkillTypes, Syncs
<1> QED
  BY <1>2, <1>5, <1>6 DEF RemovesFile, SkillTypes

LEMMA InstallingTypes == SkillsInv /\ Installing => SkillTypes'
<1> SUFFICES ASSUME SkillsInv, Installing PROVE SkillTypes'
  OBVIOUS
<1> USE SkillsAssumption
<1>0. SkillTypes
  BY DEF SkillsInv
<1>1. PICK h \in Handlers : Operation(h)
  BY <1>0, InstallCases
<1>2. ASSUME NEW s \in DOMAIN Sources, FetchAndScan(h, s) PROVE SkillTypes'
  <2>1. PICK p \in Sources[s] :
          /\ dirs' = dirs \cup {Package(p).id}
          /\ disk' = [disk EXCEPT ![h] = [pc |-> "truncate", dir |-> Package(p).id, pkg |-> p, source |-> s, on |-> FALSE, left |-> {}]]
    BY <1>2 DEF FetchAndScan
  <2>2. p \in DOMAIN Packages /\ Package(p).id \in Dir
    BY DEF Package
  <2>3. [pc |-> "truncate", dir |-> Package(p).id, pkg |-> p, source |-> s, on |-> FALSE, left |-> {}] \in Disks
    BY <2>2 DEF Disks, Installs
  <2> QED
    BY <1>0, <1>2, <2>1, <2>2, <2>3 DEF FetchAndScan, Others, SkillTypes
<1>3. ASSUME NEW d \in Dir, Uninstall(h, d) PROVE SkillTypes'
  <2>1. PICK l \in SUBSET {"SKILL.md", ".source"} : disk' = [disk EXCEPT ![h] = [Idle EXCEPT !.pc = "remove", !.dir = d, !.left = l]]
    BY <1>3 DEF Uninstall
  <2>2. [Idle EXCEPT !.pc = "remove", !.dir = d, !.left = l] \in Disks
    BY DEF Idle, Disks, Removes
  <2> QED
    BY <1>0, <1>3, <2>1, <2>2 DEF Uninstall, Others, SkillTypes
<1>4. CASE InstallWrites(h)
  BY <1>0, <1>4, WritesTypes DEF InstallWrites, Others, SkillTypes
<1>5. CASE InstallFails(h) \/ RemovesDirectory(h)
  <2>1. disk' = [disk EXCEPT ![h] = Idle] /\ dirs' \subseteq dirs
    BY <1>5 DEF InstallFails, RemovesDirectory
  <2>2. disk' \in [Handlers -> Disks]
    BY <1>0, <2>1, IdleIs DEF SkillTypes
  <2> QED
    BY <1>0, <1>5, <2>1, <2>2 DEF InstallFails, RemovesDirectory, Others, SkillTypes
<1>6. CASE RemovesFile(h)
  BY <1>0, <1>6, RemovesTypes
<1> QED
  BY <1>1, <1>2, <1>3, <1>4, <1>5, <1>6 DEF Operation

LEMMA ManagingTypes == SkillsInv /\ Managing => SkillTypes'
<1> SUFFICES ASSUME SkillsInv, Managing PROVE SkillTypes'
  OBVIOUS
<1> USE DEF SkillsInv
<1>1. ASSUME NEW k \in Keys, NEW op \in {"enabled", "disabled", "archived"}, Lifecycle(op, k) PROVE SkillTypes'
  <2>1. life' \in Changes
    BY <1>1 DEF Lifecycle, Changes, SkillTypes
  <2> QED
    BY <1>1, <2>1 DEF Lifecycle, SkillTypes
<1>2. CASE LifecycleSaves
  <2>1. life \in Changes
    BY <1>2 DEF LifecycleSaves, SkillTypes, NoLife
  <2>2. [life.row EXCEPT !.status = life.op] \in SkillRows
    BY <2>1 DEF Changes, SkillRows, Statuses
  <2>3. row' \in [Keys -> SkillRows]
    BY <1>2, <2>2 DEF LifecycleSaves, SkillTypes
  <2> QED
    BY <1>2, <2>3 DEF LifecycleSaves, SkillTypes
<1> QED
  BY <1>1, <1>2 DEF Managing

\* A row a sweep looks at goes out of its list; what it saves is the copy.
LEMMA TargetTypes == ASSUME NEW i, NEW r \in SkillRows PROVE TargetStatus(i, r) \in Statuses \cup {Absent}
  BY DEF TargetStatus, SkillRows, Statuses

LEMMA RowSwept ==
  ASSUME SkillTypes, Past, SweepRow
  PROVE  \E e \in sweep.list :
           /\ e[1] \in Keys /\ e[2] \in SkillRows
           /\ sweep' \in Sweeps /\ sweep'.list = sweep.list \ {e} /\ sweep'.now = sweep.now
           /\ \/ row' = row /\ sweep'.aged = sweep.aged
              \/ LET t == TargetStatus(e[1][1], e[2]) use == usage[e[1][1]] IN
                 /\ t # e[2].status /\ row' = [row EXCEPT ![e[1]] = [e[2] EXCEPT !.status = t]]
                 /\ sweep'.aged = [key |-> e[1], idle |-> now - use.last, status |-> t, pinned |-> use.pinned]
<1>1. PICK e \in sweep.list : LET t == TargetStatus(e[1][1], e[2]) use == usage[e[1][1]] IN
       \/ t = e[2].status /\ sweep' = [sweep EXCEPT !.list = @ \ {e}] /\ UNCHANGED row
       \/ /\ t # e[2].status /\ row' = [row EXCEPT ![e[1]] = [e[2] EXCEPT !.status = t]]
          /\ sweep' = [sweep EXCEPT !.list = @ \ {e},
                         !.aged = [key |-> e[1], idle |-> now - use.last, status |-> t, pinned |-> use.pinned]]
  BY DEF SweepRow, Saved
<1> DEFINE t == TargetStatus(e[1][1], e[2])
           use == usage[e[1][1]]
           new == [key |-> e[1], idle |-> now - use.last, status |-> t, pinned |-> use.pinned]
<1>2. e[1] \in Keys /\ e[2] \in SkillRows /\ sweep \in Sweeps
  BY DEF SkillTypes, Sweeps
<1>3. CASE t = e[2].status /\ sweep' = [sweep EXCEPT !.list = @ \ {e}] /\ UNCHANGED row
  <2>1. sweep' \in Sweeps /\ sweep'.list = sweep.list \ {e} /\ sweep'.now = sweep.now /\ sweep'.aged = sweep.aged
    BY <1>2, <1>3 DEF Sweeps
  <2> QED
    BY <1>2, <1>3, <2>1
<1>4. CASE /\ t # e[2].status /\ row' = [row EXCEPT ![e[1]] = [e[2] EXCEPT !.status = t]]
           /\ sweep' = [sweep EXCEPT !.list = @ \ {e}, !.aged = new]
  <2>1. e[1][1] \in Ids
    BY <1>2 DEF Ids
  <2>2. use \in Uses /\ use.last <= now /\ now \in Nat
    BY <2>1 DEF SkillTypes, Past
  <2>3. new \in Ages
    <3> HIDE DEF t, use
    <3>1. t \in Statuses \cup {Absent}
      BY <1>2, TargetTypes DEF t
    <3>2. now - use.last \in Nat /\ use.pinned \in BOOLEAN
      BY <2>2 DEF Uses
    <3> QED
      BY <1>2, <3>1, <3>2 DEF Ages
  <2> HIDE DEF new
  <2>4. sweep' \in Sweeps /\ sweep'.list = sweep.list \ {e} /\ sweep'.now = sweep.now /\ sweep'.aged = new
    BY <1>2, <1>4, <2>3 DEF Sweeps
  <2> QED
    BY <1>2, <1>4, <2>4 DEF new
<1> QED
  BY <1>1, <1>3, <1>4

LEMMA SweepingTypes == SkillsInv /\ Sweeping => SkillTypes'
<1> SUFFICES ASSUME SkillsInv, Sweeping PROVE SkillTypes'
  OBVIOUS
<1> USE SkillsAssumption DEF SkillsInv
<1>1. CASE Sweep
  <2>1. sweep' = [pc |-> "look", list |-> {<<k, row[k]>> : k \in {x \in Keys : row[x] # NoRow}}, now |-> now, aged |-> NoAged]
    BY <1>1 DEF Sweep
  <2>2. {<<k, row[k]>> : k \in {x \in Keys : row[x] # NoRow}} \subseteq Keys \X SkillRows
    BY DEF SkillTypes
  <2>3. NoAged \in Ages /\ now \in Nat
    BY DEF NoAged, Ages, SkillTypes
  <2>4. sweep' \in Sweeps
    BY <2>1, <2>2, <2>3 DEF Sweeps
  <2> QED
    BY <1>1, <2>4 DEF Sweep, SkillTypes
<1>2. CASE SweepRow
  <2>1. sweep' \in Sweeps
    BY <1>2, RowSwept
  <2>2. row' \in [Keys -> SkillRows]
    <3>1. ASSUME NEW i, NEW r \in SkillRows PROVE [r EXCEPT !.status = TargetStatus(i, r)] \in SkillRows
      BY TargetTypes DEF SkillRows
    <3>2. PICK e \in sweep.list :
            /\ e[1] \in Keys /\ e[2] \in SkillRows
            /\ row' = row \/ row' = [row EXCEPT ![e[1]] = [e[2] EXCEPT !.status = TargetStatus(e[1][1], e[2])]]
      BY <1>2, RowSwept
    <3>3. [e[2] EXCEPT !.status = TargetStatus(e[1][1], e[2])] \in SkillRows
      BY <3>1, <3>2
    <3> QED
      BY <3>2, <3>3 DEF SkillTypes
  <2> QED
    BY <1>2, <2>1, <2>2 DEF SweepRow, SkillTypes
<1>3. CASE SweepEnds
  <2>1. NoSweep \in Sweeps
    BY DEF NoSweep, NoAged, Sweeps, Ages
  <2> QED
    BY <1>3, <2>1 DEF SweepEnds, SkillTypes
<1> QED
  BY <1>1, <1>2, <1>3 DEF Sweeping

LEMMA UseFields ==
  ASSUME NEW u \in Uses, NEW n \in Nat
  PROVE  /\ [u EXCEPT !.known = TRUE, !.last = n] \in Uses /\ [u EXCEPT !.known = TRUE, !.last = n].last = n
         /\ [u EXCEPT !.pinned = TRUE, !.known = TRUE] \in Uses /\ [u EXCEPT !.pinned = TRUE, !.known = TRUE].last = u.last
<1>1. [u EXCEPT !.known = TRUE, !.last = n] \in Uses
  BY DEF Uses
<1>2. [u EXCEPT !.pinned = TRUE, !.known = TRUE] \in Uses
  BY DEF Uses
<1>3. [u EXCEPT !.known = TRUE, !.last = n].last = n
  BY DEF Uses
<1>4. [u EXCEPT !.pinned = TRUE, !.known = TRUE].last = u.last
  BY DEF Uses
<1> QED
  BY <1>1, <1>2, <1>3, <1>4

LEMMA SkillTypesStep == SkillsInv /\ [SkillsNext]_skillVars => SkillTypes'
<1> SUFFICES ASSUME SkillsInv, [SkillsNext]_skillVars PROVE SkillTypes'
  OBVIOUS
<1> USE SkillsAssumption DEF SkillsInv
<1>1. CASE SelectForTask
  <2>1. PICK matched : usage' = [i \in Ids |-> IF i \in {s.id : s \in matched} THEN [usage[i] EXCEPT !.known = TRUE, !.last = now] ELSE usage[i]]
    BY <1>1 DEF SelectForTask
  <2>2. \A i \in Ids : [usage[i] EXCEPT !.known = TRUE, !.last = now] \in Uses
    <3>1. now \in Nat /\ \A i \in Ids : usage[i] \in Uses
      BY DEF SkillTypes
    <3> QED
      BY <3>1, UseFields
  <2>3. usage' \in [Ids -> Uses]
    BY <2>1, <2>2 DEF SkillTypes
  <2> QED
    BY <1>1, <2>3 DEF SelectForTask, SkillTypes
<1>2. ASSUME NEW i \in Ids, Pin(i) PROVE SkillTypes'
  <2>1. [usage[i] EXCEPT !.pinned = TRUE, !.known = TRUE] \in Uses
    BY UseFields DEF SkillTypes
  <2>2. usage' \in [Ids -> Uses]
    BY <1>2, <2>1 DEF Pin, SkillTypes
  <2> QED
    BY <1>2, <2>2 DEF Pin, SkillTypes
<1>3. CASE Restart
  <2>0. disk' \in [Handlers -> Disks]
    BY <1>3, IdleIs DEF Restart, SkillTypes
  <2>1. usage' \in [Ids -> Uses]
    BY <1>3 DEF Restart, Uses
  <2>2. NoSweep \in Sweeps
    BY DEF NoSweep, NoAged, Sweeps, Ages
  <2> QED
    BY <1>3, <2>0, <2>1, <2>2 DEF Restart, SkillTypes
<1>4. CASE Refresh \/ UNCHANGED skillVars
  BY <1>4 DEF Refresh, skillVars, SkillTypes
<1>5. CASE Tick
  BY <1>5 DEF Tick, SkillTypes
<1> QED
  BY <1>1, <1>2, <1>3, <1>4, <1>5, SkillCases, SyncingTypes, InstallingTypes, ManagingTypes, SweepingTypes DEF Using

LEMMA RowsAreJudgedStep == SkillsInv /\ [SkillsNext]_skillVars => RowsAreJudged'
<1> SUFFICES ASSUME SkillsInv, [SkillsNext]_skillVars PROVE RowsAreJudged'
  OBVIOUS
<1> USE SkillsAssumption DEF SkillsInv
<1>0. ASSUME UNCHANGED <<row, life>>, sweep'.list \subseteq sweep.list PROVE RowsAreJudged'
  BY <1>0 DEF RowsAreJudged
\* A row written beside unchanged copies.
<1>1. ASSUME NEW k, NEW r, row' = [row EXCEPT ![k] = r], RiskIsScanned(r), CriticalIsOff(r),
             life' = life \/ life' = NoLife, sweep'.list \subseteq sweep.list
      PROVE  RowsAreJudged'
  <2>1. \A x \in Keys : RiskIsScanned(row'[x]) /\ CriticalIsOff(row'[x])
    BY <1>1 DEF RowsAreJudged, SkillTypes
  <2>2. RiskIsScanned(life'.row) /\ (life'.op = "enabled" => life'.row.risk # "critical")
    BY <1>1 DEF RowsAreJudged, NoLife, NoRow, RiskIsScanned
  <2> QED
    BY <1>1, <2>1, <2>2 DEF RowsAreJudged
<1>2. CASE SyncQuarantine
  <2>1. ScanRisk(Item.pkg) = "critical"
    BY <1>2 DEF SyncQuarantine, SyncIsJudged
  <2>2. RiskIsScanned(QuarantinedRow(Item)) /\ CriticalIsOff(QuarantinedRow(Item))
    BY <2>1 DEF QuarantinedRow, RiskIsScanned, CriticalIsOff
  <2> QED
    BY <1>1, <1>2, <2>2 DEF SyncQuarantine
<1>3. CASE SyncSave
  <2> DEFINE s == ReadSkill(Item.id)
             r == [hash |-> Item.pkg, source |-> "registry", status |-> s.status, risk |-> "safe"]
  <2>1. ScanRisk(Item.pkg) = "safe"
    BY <1>3 DEF SyncSave, SyncIsJudged, PastScan
  <2>2. RiskIsScanned(r) /\ CriticalIsOff(r)
    BY <2>1 DEF RiskIsScanned, CriticalIsOff
  <2>3. row' = [row EXCEPT ![Key(s)] = r] /\ UNCHANGED <<life, sweep>>
    BY <1>3 DEF SyncSave
  <2> HIDE DEF s, r
  <2> QED
    BY <1>1, <2>2, <2>3
<1>4. CASE Syncing /\ ~SyncQuarantine /\ ~SyncSave
  BY <1>0, <1>4 DEF Syncing, Sync, SyncFails, SyncScan, SyncWrite, SyncAudit, SyncDies
<1>5. CASE Installing
  <2>1. UNCHANGED <<row, life, sweep>>
    BY <1>5, InstallingLeaves DEF SkillsInv
  <2> QED
    BY <1>0, <2>1
<1>6. ASSUME NEW k \in Keys, NEW op \in {"enabled", "disabled", "archived"}, Lifecycle(op, k) PROVE RowsAreJudged'
  <2>1. life' = [op |-> op, key |-> k, row |-> row[k]] /\ UNCHANGED <<row, sweep>> /\ (op = "enabled" => row[k].risk # "critical")
    BY <1>6 DEF Lifecycle, EnableRefuses
  <2> QED
    BY <2>1 DEF RowsAreJudged
<1>7. CASE LifecycleSaves
  <2> DEFINE r == [life.row EXCEPT !.status = life.op]
  <2>1. life \in Changes
    BY <1>7 DEF LifecycleSaves, SkillTypes, NoLife
  <2>2. r.hash = life.row.hash /\ r.risk = life.row.risk /\ r.status = life.op
    BY <2>1 DEF Changes, SkillRows
  <2>3. RiskIsScanned(r) /\ CriticalIsOff(r)
    <3> HIDE DEF r
    <3>1. ScanRisk(r.hash) \in {"safe", "critical"}
      BY DEF ScanRisk
    <3> QED
      BY <2>2, <3>1 DEF RowsAreJudged, RiskIsScanned, CriticalIsOff
  <2>4. row' = [row EXCEPT ![life.key] = r] /\ life' = NoLife /\ sweep' = sweep
    BY <1>7 DEF LifecycleSaves
  <2> HIDE DEF r
  <2> QED
    BY <1>1, <2>3, <2>4
<1>8. CASE Sweep
  <2>1. sweep'.list = {<<k, row[k]>> : k \in {x \in Keys : row[x] # NoRow}} /\ UNCHANGED <<row, life>>
    BY <1>8 DEF Sweep
  <2> QED
    BY <2>1 DEF RowsAreJudged
<1>9. CASE SweepRow
  <2>1. PICK e \in sweep.list :
          /\ e[1] \in Keys /\ e[2] \in SkillRows /\ sweep'.list = sweep.list \ {e}
          /\ \/ row' = row
             \/ LET t == TargetStatus(e[1][1], e[2]) IN
                t # e[2].status /\ row' = [row EXCEPT ![e[1]] = [e[2] EXCEPT !.status = t]]
    BY <1>9, RowSwept
  <2> DEFINE t == TargetStatus(e[1][1], e[2])
             r == [e[2] EXCEPT !.status = t]
  <2>2. life' = life
    BY <1>9 DEF SweepRow
  <2>3. CASE row' = row
    BY <1>0, <2>1, <2>2, <2>3
  <2>4. CASE t # e[2].status /\ row' = [row EXCEPT ![e[1]] = r]
    <3>1. t \in {"archived", "stale"}
      BY <2>4 DEF TargetStatus
    <3>2. r.hash = e[2].hash /\ r.risk = e[2].risk /\ r.status = t
      BY <2>1 DEF SkillRows
    <3>3. RiskIsScanned(r) /\ CriticalIsOff(r)
      <4> HIDE DEF r, t
      <4> QED
        BY <3>1, <3>2 DEF RowsAreJudged, RiskIsScanned, CriticalIsOff
    <3> HIDE DEF r, t
    <3> QED
      BY <1>1, <2>1, <2>2, <2>4, <3>3
  <2> QED
    BY <2>1, <2>3, <2>4
<1>10. CASE SweepEnds
  BY <1>0, <1>10 DEF SweepEnds, NoSweep
<1>11. CASE Restart
  BY <1>11 DEF Restart, RowsAreJudged, NoLife, NoRow, NoSweep, RiskIsScanned
<1>12. CASE Using \/ Refresh \/ Tick \/ UNCHANGED skillVars
  BY <1>0, <1>12 DEF Using, SelectForTask, Pin, Refresh, Tick, skillVars
<1> QED
  BY <1>2, <1>3, <1>4, <1>5, <1>6, <1>7, <1>8, <1>9, <1>10, <1>11, <1>12, SkillCases DEF Managing, Sweeping

\* The sync and its counts.
LEMMA SyncStep == SkillsInv /\ [SkillsNext]_skillVars => SyncIsJudged' /\ CountsAddUp'
<1> SUFFICES ASSUME SkillsInv, [SkillsNext]_skillVars PROVE SyncIsJudged' /\ CountsAddUp'
  OBVIOUS
<1> USE SkillsAssumption DEF SkillsInv
<1>0. \A p : ScanRisk(p) \in {"safe", "critical"}
  BY DEF ScanRisk
<1>1. CASE UNCHANGED sync
  BY <1>1 DEF SyncIsJudged, CountsAddUp, Item
<1>2. CASE Sync
  <2>1. Len(Index) >= 1
    <3>1. DOMAIN Index # {}
      BY <1>2 DEF Sync
    <3> QED
      BY <3>1
  <2> QED
    BY <1>2, <2>1 DEF Sync, SyncIsJudged, CountsAddUp, PastScan
<1>3. CASE SyncDies
  BY <1>3 DEF SyncDies, NoSync, SyncIsJudged, CountsAddUp, PastScan
\* Within an item.
<1>4. ASSUME NEW p \in SyncPcs, NEW b \in BOOLEAN,
             sync' = [sync EXCEPT !.pc = p] \/ sync' = [sync EXCEPT !.pc = p, !.on = b], sync.pc # "idle",
             p \in PastScan => ScanRisk(Item.pkg) = "safe", p \in {"quarantine", "auditQ"} => ScanRisk(Item.pkg) = "critical"
      PROVE  SyncIsJudged' /\ CountsAddUp'
  <2>1. /\ sync'.pc = p /\ sync'.at = sync.at /\ sync'.installed = sync.installed /\ sync'.quarantined = sync.quarantined
        /\ sync'.failed = sync.failed
    BY <1>4 DEF SkillTypes, Syncs
  <2>2. Item' = Item
    BY <2>1 DEF Item
  <2> QED
    BY <1>4, <2>1, <2>2 DEF SyncIsJudged, CountsAddUp
<1>5. CASE SyncScan
  <2>1. PICK p \in {"quarantine", "mkdir"} : /\ sync' = [sync EXCEPT !.pc = p] /\ sync.pc # "idle"
                                               /\ p = (IF ScanRisk(Item.pkg) = "critical" THEN "quarantine" ELSE "mkdir")
    BY <1>5 DEF SyncScan
  <2> QED
    BY <1>0, <1>4, <2>1 DEF PastScan, SyncPcs
<1>6. CASE SyncQuarantine
  <2>1. ScanRisk(Item.pkg) = "critical" /\ sync' = [sync EXCEPT !.pc = "auditQ"] /\ sync.pc # "idle"
    BY <1>6 DEF SyncQuarantine, SyncIsJudged
  <2> QED
    BY <1>4, <2>1 DEF PastScan, SyncPcs
<1>7. CASE SyncWrite \/ SyncSave
  <2>1. PICK p \in {"truncate", "write", "row", "auditI"}, b \in BOOLEAN :
          sync' = [sync EXCEPT !.pc = p] \/ sync' = [sync EXCEPT !.pc = p, !.on = b]
    BY <1>7 DEF SyncWrite, SyncSave
  <2>2. ScanRisk(Item.pkg) = "safe" /\ sync.pc # "idle"
    BY <1>7 DEF SyncWrite, SyncSave, SyncIsJudged, PastScan
  <2> QED
    BY <1>4, <2>1, <2>2 DEF SyncPcs
\* On to the next.
<1>8. ASSUME NEW in, sync' = Counted(in), sync.pc # "idle", in \in {"installed", "quarantined", "failed"},
             in = "installed" => ScanRisk(Item.pkg) = "safe", in = "quarantined" => ScanRisk(Item.pkg) = "critical"
      PROVE  SyncIsJudged' /\ CountsAddUp'
  <2> DEFINE at == sync.at
  <2>1. /\ sync'.pc = (IF at < Len(Index) THEN "fetch" ELSE "idle") /\ (at < Len(Index) => sync'.at = at + 1)
        /\ sync'.installed = sync.installed \cup (IF in = "installed" THEN {at} ELSE {})
        /\ sync'.quarantined = sync.quarantined \cup (IF in = "quarantined" THEN {at} ELSE {})
        /\ sync'.failed = sync.failed \cup (IF in = "failed" THEN {at} ELSE {})
    BY <1>8, CountedIs
  <2>2. at \in 1 .. Len(Index) /\ Len(Index) \in Nat /\ Item = Index[at]
    BY <1>8 DEF SyncIsJudged, Item
  <2> HIDE DEF at
  <2>3. SyncIsJudged'
    BY <2>1, <2>2 DEF SyncIsJudged, PastScan
  <2>4. CountsAddUp'
    <3>1. CASE at < Len(Index)
      <4>1. /\ sync.installed \cup sync.quarantined \cup sync.failed = 1 .. (at - 1)
            /\ sync.installed \cap sync.failed = {} /\ sync.quarantined \cap (sync.failed \cup sync.installed) = {}
            /\ \A i \in sync.installed : ScanRisk(Index[i].pkg) = "safe"
            /\ \A i \in sync.quarantined : ScanRisk(Index[i].pkg) = "critical"
        BY <1>8 DEF CountsAddUp, at
      <4>2. at \notin sync.installed /\ at \notin sync.quarantined /\ at \notin sync.failed
        BY <2>2, <4>1
      <4>3. sync'.installed \cup sync'.quarantined \cup sync'.failed = 1 .. (sync'.at - 1)
        <5>1. sync'.installed \cup sync'.quarantined \cup sync'.failed
                = (sync.installed \cup sync.quarantined \cup sync.failed) \cup {at}
          BY <1>8, <2>1
        <5>2. (1 .. (at - 1)) \cup {at} = 1 .. at /\ sync'.at - 1 = at
          BY <2>1, <2>2, <3>1
        <5> QED
          BY <4>1, <5>1, <5>2
      <4>4. sync'.installed \cap sync'.failed = {} /\ sync'.quarantined \cap (sync'.failed \cup sync'.installed) = {}
        BY <1>8, <2>1, <4>1, <4>2
      <4>5. /\ \A i \in sync'.installed : ScanRisk(Index[i].pkg) = "safe"
            /\ \A i \in sync'.quarantined : ScanRisk(Index[i].pkg) = "critical"
        BY <1>8, <2>1, <2>2, <4>1
      <4> QED
        BY <4>3, <4>4, <4>5 DEF CountsAddUp
    <3>2. CASE ~(at < Len(Index))
      BY <2>1, <3>2 DEF CountsAddUp
    <3> QED
      BY <3>1, <3>2
  <2> QED
    BY <2>3, <2>4
<1>9. CASE SyncFails
  BY <1>8, <1>9 DEF SyncFails
<1>10. CASE SyncAudit
  <2>1. CASE sync.pc = "auditQ"
    BY <1>8, <1>10, <2>1 DEF SyncAudit, SyncIsJudged
  <2>2. CASE sync.pc = "auditI"
    BY <1>8, <1>10, <2>2 DEF SyncAudit, SyncIsJudged, PastScan
  <2> QED
    BY <1>10, <2>1, <2>2 DEF SyncAudit
<1>11. Managing \/ Sweeping \/ Using \/ Refresh \/ Tick \/ Restart \/ UNCHANGED skillVars => UNCHANGED sync
  <2>2. Managing \/ Sweeping => UNCHANGED sync
    BY DEF Managing, Lifecycle, LifecycleSaves, Sweeping, Sweep, SweepRow, SweepEnds
  <2> QED
    BY <2>2 DEF Using, SelectForTask, Pin, Refresh, Tick, Restart, skillVars
\* A removal beside it only takes its file's name.
<1>12. CASE Installing
  <2>1. sync' = sync \/ (sync.pc = "write" /\ sync' = [sync EXCEPT !.on = FALSE])
    BY <1>12, InstallingLeaves
  <2>2. CASE sync.pc = "write" /\ sync' = [sync EXCEPT !.on = FALSE]
    <3>1. /\ sync'.pc = "write" /\ sync'.at = sync.at /\ sync'.installed = sync.installed
          /\ sync'.quarantined = sync.quarantined /\ sync'.failed = sync.failed
      BY <2>2 DEF SkillTypes, Syncs
    <3>2. Item' = Item
      BY <3>1 DEF Item
    <3> QED
      BY <2>2, <3>1, <3>2 DEF SyncIsJudged, CountsAddUp, PastScan
  <2> QED
    BY <1>1, <2>1, <2>2
<1> QED
  BY <1>1, <1>2, <1>3, <1>5, <1>6, <1>7, <1>9, <1>10, <1>11, <1>12, SkillCases DEF Syncing

\* The clock, the record of use and the sweep.
LEMMA AgeingStep == SkillsInv /\ [SkillsNext]_skillVars => Past' /\ AgedWasIdle'
<1> SUFFICES ASSUME SkillsInv, [SkillsNext]_skillVars PROVE Past' /\ AgedWasIdle'
  OBVIOUS
<1> USE SkillsAssumption DEF SkillsInv
<1>0. now \in Nat /\ sweep.now \in Nat /\ \A i \in Ids : usage[i] \in Uses /\ usage[i].last \in Nat
  BY DEF SkillTypes, Sweeps, Uses
<1>1. CASE UNCHANGED <<now, usage, sweep>>
  BY <1>1 DEF Past, AgedWasIdle
<1>2. CASE Sweep
  BY <1>0, <1>2 DEF Sweep, Past, AgedWasIdle, NoAged
<1>3. CASE SweepEnds
  BY <1>0, <1>3 DEF SweepEnds, Past, AgedWasIdle, NoSweep, NoAged
<1>4. CASE SweepRow
  <2>1. PICK e \in sweep.list :
          /\ e[1] \in Keys /\ e[2] \in SkillRows /\ sweep'.now = sweep.now
          /\ \/ sweep'.aged = sweep.aged
             \/ LET t == TargetStatus(e[1][1], e[2]) use == usage[e[1][1]] IN
                /\ t # e[2].status
                /\ sweep'.aged = [key |-> e[1], idle |-> now - use.last, status |-> t, pinned |-> use.pinned]
    BY <1>4, RowSwept
  <2>2. Past' /\ UNCHANGED <<now, usage>>
    BY <1>4, <2>1 DEF SweepRow, Past
  <2>3. CASE sweep'.aged = sweep.aged
    BY <2>2, <2>3 DEF AgedWasIdle
  <2>4. CASE LET t == TargetStatus(e[1][1], e[2]) use == usage[e[1][1]] IN
             /\ t # e[2].status
             /\ sweep'.aged = [key |-> e[1], idle |-> now - use.last, status |-> t, pinned |-> use.pinned]
    <3> DEFINE id == e[1][1]
               t == TargetStatus(id, e[2])
    <3>1. id \in Ids
      BY <2>1 DEF Ids
    <3>2. Eligible(id, e[2]) /\ \/ IdleFor(id) >= ArchiveAfter /\ t = "archived"
                                \/ IdleFor(id) >= StaleAfter /\ t = "stale"
      BY <2>4 DEF TargetStatus
    <3>3. (~usage[id].pinned /\ now - usage[id].last >= IdleFor(id)) \/ IdleFor(id) = 0
      BY <1>0, <3>1, <3>2 DEF IdleFor, Eligible, Past
    <3>4. IdleFor(id) # 0
      BY <3>2
    <3>5. /\ sweep'.aged.pinned = usage[id].pinned /\ sweep'.aged.idle = now - usage[id].last /\ sweep'.aged.status = t
      BY <2>4
    <3>6. now - usage[id].last \in Int /\ IdleFor(id) \in Nat
      BY <1>0, <3>1 DEF IdleFor
    <3> HIDE DEF id, t
    <3> QED
      BY <2>2, <3>2, <3>3, <3>4, <3>5, <3>6 DEF AgedWasIdle
  <2> QED
    BY <2>1, <2>2, <2>3, <2>4
<1>5. CASE SelectForTask
  <2>1. PICK matched : usage' = [i \in Ids |-> IF i \in {s.id : s \in matched} THEN [usage[i] EXCEPT !.known = TRUE, !.last = now] ELSE usage[i]]
    BY <1>5 DEF SelectForTask
  <2>2. ASSUME NEW i \in Ids PROVE usage'[i].last <= now
    <3>1. [usage[i] EXCEPT !.known = TRUE, !.last = now].last = now
      BY <1>0, UseFields
    <3>2. usage'[i] = usage[i] \/ usage'[i] = [usage[i] EXCEPT !.known = TRUE, !.last = now]
      BY <2>1
    <3>3. CASE usage'[i] = usage[i]
      BY <3>3 DEF Past
    <3>4. CASE usage'[i] = [usage[i] EXCEPT !.known = TRUE, !.last = now]
      <4>1. usage'[i].last = now
        BY <3>1, <3>4
      <4> QED
        BY <1>0, <4>1
    <3> QED
      BY <3>2, <3>3, <3>4
  <2> QED
    BY <1>5, <2>2 DEF SelectForTask, Past, AgedWasIdle
<1>6. ASSUME NEW i \in Ids, Pin(i) PROVE Past' /\ AgedWasIdle'
  <2>1. [usage[i] EXCEPT !.pinned = TRUE, !.known = TRUE].last = usage[i].last
    BY <1>0, UseFields
  <2>2. \A j \in Ids : usage'[j].last = usage[j].last
    BY <1>6, <2>1 DEF Pin, SkillTypes
  <2> QED
    BY <1>6, <2>2 DEF Pin, Past, AgedWasIdle
<1>7. CASE Tick
  BY <1>0, <1>7 DEF Tick, Past, AgedWasIdle
<1>8. CASE Restart
  BY <1>0, <1>8 DEF Restart, Past, AgedWasIdle, NoSweep, NoAged
<1>9. CASE Syncing \/ Installing \/ Managing \/ Refresh \/ UNCHANGED skillVars
  <2>1. Installing => UNCHANGED <<now, usage, sweep>>
    BY InstallingLeaves DEF SkillsInv
  <2>2. Syncing => UNCHANGED <<now, usage, sweep>>
    BY DEF Syncing, Sync, SyncFails, SyncScan, SyncQuarantine, SyncWrite, SyncSave, SyncAudit, SyncDies
  <2>3. Managing \/ Refresh \/ UNCHANGED skillVars => UNCHANGED <<now, usage, sweep>>
    BY DEF Managing, Lifecycle, LifecycleSaves, Refresh, skillVars
  <2> QED
    BY <1>1, <1>9, <2>1, <2>2, <2>3
<1> QED
  BY <1>2, <1>3, <1>4, <1>5, <1>6, <1>7, <1>8, <1>9, SkillCases DEF Sweeping, Using

\* Files and stored sources.
LEMMA FilesStep == SkillsInv /\ [SkillsNext]_skillVars => Written' /\ SourceHasFile'
<1> SUFFICES ASSUME SkillsInv, [SkillsNext]_skillVars PROVE Written' /\ SourceHasFile'
  OBVIOUS
<1> USE SkillsAssumption
<1>0. SkillTypes /\ Written /\ SourceHasFile /\ SyncIsJudged
  BY DEF SkillsInv
\* No file goes but by a removal, and nothing new is in hand.
<1>1. ASSUME UNCHANGED <<src, removed>>, \A d \in Dir : file[d] # Absent => file'[d] # Absent,
             \A h \in Handlers : disk'[h] = disk[h] \/ disk'[h].pc \in {"idle", "truncate", "remove"}
      PROVE  Written' /\ SourceHasFile'
  <2>1. \A h \in Handlers : disk[h].pc \in {"write", "source"} => disk[h].dir \in Dir
    BY <1>0, HandsAre
  <2> QED
    BY <1>0, <1>1, <2>1 DEF Written, SourceHasFile
<1>2. CASE SyncWrite
  <2>1. Item.id \in Dir /\ Item.pkg \in DOMAIN Packages
    BY <1>0, <1>2 DEF SyncWrite, SyncIsJudged, Item
  <2>2. \A d \in Dir : file[d] # Absent => file'[d] # Absent
    BY <1>0, <1>2, <2>1 DEF SyncWrite, SkillTypes, Absent
  <2> QED
    BY <1>1, <1>2, <2>2 DEF SyncWrite
<1>3. CASE Installing
  <2>1. PICK h \in Handlers : Operation(h)
    BY <1>0, <1>3, InstallCases
  <2>2. CASE \E s \in DOMAIN Sources : FetchAndScan(h, s)
    BY <1>0, <1>1, <2>2 DEF FetchAndScan, SkillTypes
  <2>3. CASE \E d \in Dir : Uninstall(h, d)
    BY <1>0, <1>1, <2>3 DEF Uninstall, SkillTypes, Idle
  <2>4. CASE InstallFails(h) \/ RemovesDirectory(h)
    BY <1>0, <1>1, <2>4 DEF InstallFails, RemovesDirectory, SkillTypes, Idle
  <2>5. CASE InstallWrites(h)
    <3> DEFINE d == disk[h].dir
    <3>1. disk[h] \in Installs
      BY <1>0, <2>5, HandsAre, HandKinds DEF InstallWrites
    <3>2. d \in Dir /\ disk[h].pkg # Absent /\ "empty" # Absent
      BY <3>1 DEF Installs, Absent
    <3>3. file'[d] # Absent \/ d \in removed
      BY <1>0, <2>5, <3>2 DEF InstallWrites, SkillTypes, Written
    <3>4. /\ \A e \in Dir : file[e] # Absent => file'[e] # Absent
          /\ \A e \in Dir \ {d} : src'[e] = src[e]
          /\ src'[d] = src[d] \/ disk[h].pc = "source"
      BY <1>0, <2>5, <3>2 DEF InstallWrites, SkillTypes
    <3>a. PICK r : disk' = [disk EXCEPT ![h] = r] /\ (r = Idle \/ \E p \in {"write", "source"}, o \in BOOLEAN : r = [disk[h] EXCEPT !.pc = p, !.on = o])
      BY <1>0, <2>5 DEF InstallWrites, SkillTypes
    <3>b. r = Idle \/ r.dir = d
      BY <3>1, <3>a DEF Installs
    <3>5. removed' = removed /\ disk'[h] = r /\ \A g \in Handlers \ {h} : disk'[g] = disk[g]
      BY <1>0, <2>5, <3>a DEF InstallWrites, SkillTypes
    <3>6. \A g \in Handlers : disk[g].pc \in {"write", "source"} => disk[g].dir \in Dir
      BY <1>0, HandsAre
    <3>7. disk'[h].pc \in {"write", "source"} => disk'[h].dir = d
      BY <3>5, <3>b DEF Idle
    <3> HIDE DEF d
    <3>8. Written'
      BY <1>0, <3>2, <3>3, <3>4, <3>5, <3>6, <3>7 DEF Written
    <3>9. SourceHasFile'
      BY <1>0, <3>2, <3>3, <3>4, <3>5 DEF SourceHasFile
    <3> QED
      BY <3>8, <3>9
  <2>6. CASE RemovesFile(h)
    <3> DEFINE d == disk[h].dir
    <3>1. d \in Dir /\ disk[h].pc = "remove"
      BY <1>0, <2>6, HandsAre, HandKinds DEF RemovesFile
    <3>2. \A g \in Handlers : disk'[g].pc = disk[g].pc /\ disk'[g].dir = disk[g].dir
      <4>1. ASSUME NEW r \in Disks, NEW l
            PROVE  /\ [r EXCEPT !.left = l].pc = r.pc /\ [r EXCEPT !.left = l].dir = r.dir
                   /\ [r EXCEPT !.on = FALSE].pc = r.pc /\ [r EXCEPT !.on = FALSE].dir = r.dir
        <5>1. CASE r \in Installs
          BY <5>1 DEF Installs
        <5>2. CASE r \in Removes
          BY <5>2 DEF Removes
        <5>3. CASE r \in Idles
          BY <5>3 DEF Idles
        <5> QED
          BY <5>1, <5>2, <5>3 DEF Disks
      <4>2. \A g \in Handlers : \/ disk'[g] = disk[g] \/ disk'[g] = [disk[g] EXCEPT !.on = FALSE]
                                 \/ \E l : disk'[g] = [disk[g] EXCEPT !.left = l]
        <5>1. CASE disk' = [Unlinked(d) EXCEPT ![h] = [disk[h] EXCEPT !.left = @ \ {"SKILL.md"}]]
          BY <5>1 DEF Unlinked
        <5>2. CASE disk' = [disk EXCEPT ![h] = [disk[h] EXCEPT !.left = @ \ {".source"}]]
          BY <1>0, <5>2 DEF SkillTypes
        <5> QED
          BY <2>6, <5>1, <5>2 DEF RemovesFile
      <4>3. \A g \in Handlers : disk[g] \in Disks
        BY <1>0 DEF SkillTypes
      <4> TAKE g \in Handlers
      <4>4. disk[g] \in Disks
        BY <4>3
      <4>5. CASE disk'[g] = [disk[g] EXCEPT !.on = FALSE]
        BY <4>1, <4>4, <4>5
      <4>6. ASSUME NEW l, disk'[g] = [disk[g] EXCEPT !.left = l] PROVE disk'[g].pc = disk[g].pc /\ disk'[g].dir = disk[g].dir
        BY <4>1, <4>4, <4>6
      <4> QED
        BY <4>2, <4>5, <4>6
    <3>3. \/ file' = file /\ removed' = removed /\ src' = [src EXCEPT ![d] = Absent]
          \/ file' = [file EXCEPT ![d] = Absent] /\ removed' = removed \cup {d} /\ src' = src
      BY <2>6 DEF RemovesFile
    <3>4. \A g \in Handlers : disk[g].pc \in {"write", "source"} => disk[g].dir \in Dir
      BY <1>0, HandsAre
    <3> HIDE DEF d
    <3>5. \A e \in Dir : (file[e] # Absent => file'[e] # Absent \/ e \in removed') /\ (src'[e] # Absent => src[e] # Absent)
      BY <1>0, <3>1, <3>3 DEF SkillTypes
    <3>6. removed \subseteq removed'
      BY <3>3
    <3>7. Written'
      BY <1>0, <3>2, <3>4, <3>5, <3>6 DEF Written
    <3>8. SourceHasFile'
      BY <1>0, <3>5, <3>6 DEF SourceHasFile
    <3> QED
      BY <3>7, <3>8
  <2> QED
    BY <2>1, <2>2, <2>3, <2>4, <2>5, <2>6 DEF Operation
<1>4. CASE Restart
  BY <1>0, <1>1, <1>4 DEF Restart, SkillTypes, Idle
<1>5. CASE Syncing /\ ~SyncWrite
  BY <1>1, <1>5 DEF Syncing, Sync, SyncFails, SyncScan, SyncQuarantine, SyncSave, SyncAudit, SyncDies
<1>6. Managing \/ Sweeping \/ Using \/ Refresh \/ Tick \/ UNCHANGED skillVars => UNCHANGED <<file, src, removed, disk>>
  BY DEF Managing, Lifecycle, LifecycleSaves, Sweeping, Sweep, SweepRow, SweepEnds, Using, SelectForTask, Pin, Refresh, Tick, skillVars
<1> QED
  BY <1>1, <1>2, <1>3, <1>4, <1>5, <1>6, SkillCases

\* What nobody asked for does not come on: of the steps that write a row only an Enable and a sync enable.
LEMMA AskedStep == SkillsInv /\ [SkillsNext]_skillVars => [OnlyAskedTurnsOn]_skillVars
<1> SUFFICES ASSUME SkillsInv, SkillsNext, NEW k \in Keys, row[k].status # "enabled", row'[k].status = "enabled"
             PROVE  \/ life.op = "enabled" /\ life.key = k /\ life' = NoLife
                    \/ sync.pc = "row" /\ sync' # sync
  BY DEF OnlyAskedTurnsOn
<1>0. SkillTypes /\ Past /\ row' # row
  BY DEF SkillsInv
<1>1. CASE SyncSave
  <2>1. sync' = [sync EXCEPT !.pc = "auditI"] /\ sync.pc = "row"
    BY <1>1 DEF SyncSave
  <2>2. sync'.pc = "auditI"
    BY <1>0, <2>1 DEF SkillTypes, Syncs
  <2> QED
    BY <2>1, <2>2
<1>2. CASE SyncQuarantine
  BY <1>0, <1>2 DEF SyncQuarantine, QuarantinedRow, SkillTypes
<1>3. CASE LifecycleSaves
  <2>1. life \in Changes
    BY <1>0, <1>3 DEF LifecycleSaves, SkillTypes, NoLife
  <2>2. [life.row EXCEPT !.status = life.op].status = life.op
    BY <2>1 DEF Changes, SkillRows
  <2>3. k = life.key /\ row'[k] = [life.row EXCEPT !.status = life.op]
    BY <1>0, <1>3, <2>1 DEF LifecycleSaves, SkillTypes, Changes
  <2> QED
    BY <1>3, <2>2, <2>3 DEF LifecycleSaves
<1>4. CASE SweepRow
  <2>1. PICK e \in sweep.list :
          /\ e[1] \in Keys /\ e[2] \in SkillRows
          /\ LET t == TargetStatus(e[1][1], e[2]) IN
             t # e[2].status /\ row' = [row EXCEPT ![e[1]] = [e[2] EXCEPT !.status = t]]
    BY <1>0, <1>4, RowSwept
  <2> DEFINE t == TargetStatus(e[1][1], e[2])
  <2>2. t \in {"archived", "stale"}
    BY <2>1 DEF TargetStatus
  <2>3. [e[2] EXCEPT !.status = t].status = t
    BY <2>1 DEF SkillRows
  <2>4. k = e[1] /\ row'[k] = [e[2] EXCEPT !.status = t]
    BY <1>0, <2>1 DEF SkillTypes
  <2> QED
    BY <2>2, <2>3, <2>4
<1>5. CASE ~SyncSave /\ ~SyncQuarantine /\ ~LifecycleSaves /\ ~SweepRow
  <2>1. Installing => UNCHANGED row
    BY <1>0, InstallingLeaves
  <2>2. Syncing => UNCHANGED row
    BY <1>5 DEF Syncing, Sync, SyncFails, SyncScan, SyncWrite, SyncAudit, SyncDies
  <2>3. Managing \/ Sweeping \/ Using \/ Refresh \/ Tick \/ Restart => UNCHANGED row
    BY <1>5 DEF Managing, Lifecycle, Sweeping, Sweep, SweepEnds, Using, SelectForTask, Pin, Refresh, Tick, Restart
  <2> QED
    BY <1>0, <2>1, <2>2, <2>3, SkillCases
<1> QED
  BY <1>1, <1>2, <1>3, <1>4, <1>5

\* What a task is given.
LEMMA ShownStep == SkillsInv /\ [SkillsNext]_skillVars => ListedIsWhole'
<1> SUFFICES ASSUME SkillsInv, [SkillsNext]_skillVars PROVE ListedIsWhole'
  OBVIOUS
<1> USE DEF SkillsInv
<1>1. CASE UNCHANGED shown
  BY <1>1 DEF ListedIsWhole
<1>2. CASE SelectForTask
  <2>1. PICK matched : shown' = [as |-> "selection", skills |-> matched]
    BY <1>2 DEF SelectForTask
  <2>2. shown'.as = "selection"
    BY <2>1
  <2> QED
    BY <2>2 DEF ListedIsWhole
<1>3. CASE Refresh
  <2>1. /\ shown'.as = "catalogue" /\ \A s \in shown'.skills : s \in Load /\ s.summary
        /\ \A s, t \in shown'.skills : s.id = t.id => s = t
    BY <1>3 DEF Refresh
  <2>2. \A s \in shown'.skills : s.pkg # "empty"
    BY <2>1, SkillRead
  <2> QED
    BY <2>1, <2>2 DEF ListedIsWhole
<1>4. CASE Restart
  BY <1>4 DEF Restart, ListedIsWhole, NoShow
<1>5. Installing => UNCHANGED shown
  BY InstallingLeaves DEF SkillsInv
<1>6. Syncing => UNCHANGED shown
  BY DEF Syncing, Sync, SyncFails, SyncScan, SyncQuarantine, SyncWrite, SyncSave, SyncAudit, SyncDies
<1>7. Managing \/ Sweeping \/ (\E i \in Ids : Pin(i)) \/ Tick \/ UNCHANGED skillVars => UNCHANGED shown
  BY DEF Managing, Lifecycle, LifecycleSaves, Sweeping, Sweep, SweepRow, SweepEnds, Pin, Tick, skillVars
<1> QED
  BY <1>1, <1>2, <1>3, <1>4, <1>5, <1>6, <1>7, SkillCases DEF Using

(* In any order of syncs, overlapping installations, updates and removals,     *)
(* lifecycle changes, sweeps, selections and restarts, whichever operations die *)
(* half way: a package the scanner finds critical is enabled by no row, no row  *)
(* comes on that nobody asked for, a sync counts every item once, a sweep ages  *)
(* only what has been idle, and only a removal leaves a source without its file. *)
THEOREM SkillsAreSafe == SkillsSpec => SkillsSafe
<1>1. SkillsInv /\ [SkillsNext]_skillVars => SkillsInv'
  BY SkillTypesStep, RowsAreJudgedStep, SyncStep, AgeingStep, FilesStep, ShownStep DEF SkillsInv
<1>2. SkillsInv => SkillsTypeOK /\ CriticalStaysOff /\ CountsAddUp /\ AgedWasIdle /\ SourceHasFile /\ ListedIsWhole
  BY DEF SkillsInv, SkillTypes, SkillsTypeOK, SkillRows, Syncs, RowsAreJudged, CriticalIsOff, CriticalStaysOff
<1> QED
  BY <1>1, <1>2, SkillsInitInv, AskedStep, PTL DEF SkillsSpec, SkillsSafe

-----------------------------------------------------------------------------
(* The invariant of the exchange. *)

Sayings == DOMAIN Asks \cup {"", "input", "failing", "repeating", "closing", Answer}
             \cup UNION {{h[i].ask : i \in DOMAIN h} : h \in HistorySet}
Messages == [role : {"base", "user", "assistant", "tool", "block", "summary"}, ask : Sayings,
             no : Nat, shows : Seq(Known)]
Phases == {"gate", "guards", "compact", "closing", "done", "failed", "suspended"}

ConversationTypes ==
  /\ msgs \in Seq(Messages) /\ taskStart \in 1 .. Len(msgs)
  /\ lastLoaded \in Seq(Known) /\ loaded \in Seq(Known) /\ Len(loaded) <= MaxLoaded
  /\ round \in 0 .. MaxToolRounds /\ resp \in Responses
  /\ stop \in {"", "cap", "repeat", "max_rounds", "completed"}
  /\ seen \in [DOMAIN Asks -> Nat] /\ named \in [Tools -> Nat] /\ used \in [Tools -> Nat]
  /\ phase \in Phases /\ cut \in {"none", "warn", "cap", "repeat"}
  /\ streak \in Nat /\ made \in Seq(DOMAIN Asks)

\* The first message is nobody's answer, the last not the model's.
Framed == msgs[1].role = "base" /\ EndsWithItsTask

\* The task's own requests are the latest rounds it made, in their order.
Follows(f) ==
  /\ \A i \in OwnAsks : made[f[i]] = msgs[i].ask
  /\ \A i, j \in OwnAsks : i < j => f[i] < f[j]
  /\ \A i \in OwnAsks : \A n \in f[i] .. Len(made) : \E j \in OwnAsks : j >= i /\ f[j] = n
AsksWereMade == \E f \in [OwnAsks -> DOMAIN made] : Follows(f)

\* Rounds are counted, also over a suspension.
RoundsCounted ==
  /\ phase \in {"gate", "compact", "suspended"} => Len(made) = round
  /\ phase = "guards" => Len(made) = round + 1
  /\ Len(made) <= MaxToolRounds

\* What goes on has its allowance.
Allowed ==
  /\ \A t \in Tools : used[t] <= named[t]
  /\ phase \in {"gate", "compact", "suspended"} \/ (phase = "guards" /\ cut \in {"none", "warn"}) =>
       /\ \A a \in DOMAIN Asks : seen[a] < AbortCount
       /\ \A t \in Tools : used[t] <= ToolLoopCap

\* The last block on show is the one loaded.
IsLast(i) == msgs[i].role = "block" /\ \A j \in DOMAIN msgs : j > i => msgs[j].role # "block"
Shown ==
  /\ lastLoaded \in {<<>>, loaded}
  /\ \A i \in DOMAIN msgs : IsLast(i) => msgs[i].shows = loaded

\* A suspended run has all it goes on with in its checkpoint.
Kept == phase = "suspended" =>
  checkpoint = [msgs |-> msgs, taskStart |-> taskStart, loaded |-> loaded, round |-> round, calls |-> resp]

ConversationInv ==
  /\ ConversationTypes /\ Framed /\ Paired /\ AsksWereMade /\ StreakIsOwn
  /\ RoundsCounted /\ Allowed /\ Shown /\ Kept

-----------------------------------------------------------------------------
(* Sequences. *)

LEMMA JoinedIs ==
  ASSUME NEW S, NEW s \in Seq(S), NEW t \in Seq(S)
  PROVE  /\ s \o t \in Seq(S) /\ Len(s \o t) = Len(s) + Len(t) /\ Len(s) \in Nat /\ Len(t) \in Nat
         /\ DOMAIN s = 1 .. Len(s) /\ DOMAIN t = 1 .. Len(t) /\ DOMAIN (s \o t) = 1 .. Len(s) + Len(t)
         /\ \A i \in 1 .. Len(s) : (s \o t)[i] = s[i]
         /\ \A i \in 1 .. Len(t) : (s \o t)[Len(s) + i] = t[i]
         /\ \A i \in Len(s) + 1 .. Len(s) + Len(t) : (s \o t)[i] = t[i - Len(s)]
  OBVIOUS

LEMMA TailIs ==
  ASSUME NEW S, NEW s \in Seq(S), NEW k \in 1 .. Len(s)
  PROVE  /\ SubSeq(s, k, Len(s)) \in Seq(S) /\ Len(SubSeq(s, k, Len(s))) = Len(s) - k + 1
         /\ \A i \in 1 .. Len(s) - k + 1 : SubSeq(s, k, Len(s))[i] = s[i + k - 1]
  OBVIOUS

LEMMA LeastOf ==
  ASSUME NEW T, T \subseteq Nat, T # {}
  PROVE  \E x \in T : \A y \in T : x <= y
<1> DEFINE R == OpToRel(<, Nat)
<1>1. PICK x \in T : \A y \in T : ~(<<y, x>> \in R)
  <2>1. IsWellFoundedOn(R, Nat)
    BY NatLessThanWellFounded
  <2> HIDE DEF R
  <2> QED
    BY <2>1, WFMin
<1>2. \A a, b \in Nat : a < b => <<a, b>> \in R
  BY DEF OpToRel
<1> HIDE DEF R
<1>3. ASSUME NEW y \in T PROVE x <= y
  <2>1. x \in Nat /\ y \in Nat
    BY <1>1, <1>3
  <2>2. ~(y < x)
    BY <1>1, <1>2, <1>3, <2>1
  <2> QED
    BY <2>1, <2>2
<1> QED
  BY <1>1, <1>3

LEMMA GreatestOf ==
  ASSUME NEW n \in Nat, NEW T, T \subseteq 1 .. n, T # {}
  PROVE  \E x \in T : \A y \in T : y <= x
<1>1. PICK U : U = {n - x : x \in T}
  OBVIOUS
<1>2. U \subseteq Nat /\ U # {}
  <2>1. \A x \in T : n - x \in Nat
    OBVIOUS
  <2> QED
    BY <1>1, <2>1
<1>3. PICK u \in U : \A v \in U : u <= v
  BY <1>2, LeastOf
<1>4. PICK x \in T : u = n - x
  BY <1>1, <1>3
<1>5. ASSUME NEW y \in T PROVE y <= x
  <2>1. n - y \in U
    BY <1>1
  <2>2. n - x <= n - y /\ x \in Nat /\ y \in Nat
    BY <1>3, <1>4, <2>1
  <2> QED
    BY <2>2
<1> QED
  BY <1>5

LEMMA WithinFinite ==
  ASSUME NEW n \in Nat, NEW T, T \subseteq 1 .. n
  PROVE  IsFiniteSet(T) /\ Cardinality(T) \in Nat /\ Cardinality(T) <= n
<1>1. IsFiniteSet(1 .. n) /\ Cardinality(1 .. n) = n
  BY FS_Interval
<1> QED
  BY <1>1, FS_Subset, FS_CardinalityType

\* The k-th of a set of indices.
UpToIn(S, i) == {j \in S : j <= i}
LEMMA RankIs ==
  ASSUME NEW n \in Nat, NEW S, S \subseteq 1 .. n, NEW k \in 1 .. Cardinality(S)
  PROVE  \E i \in S : Cardinality(UpToIn(S, i)) = k
<1>1. PICK C : C = [t \in 0 .. n |-> Cardinality({j \in S : j <= t})]
  OBVIOUS
<1>2. ASSUME NEW t \in 0 .. n PROVE C[t] \in Nat
  <2>1. {j \in S : j <= t} \subseteq 1 .. n
    OBVIOUS
  <2> QED
    BY <1>1, <2>1, WithinFinite
<1>s. \A j \in S : j \in Nat /\ j >= 1 /\ j <= n
  OBVIOUS
<1>3. C[n] = Cardinality(S) /\ C[0] = 0
  <2>1. {j \in S : j <= n} = S /\ {j \in S : j <= 0} = {}
    <3>1. {j \in S : j <= n} = S
      BY <1>s
    <3>2. \A j \in S : ~(j <= 0)
      BY <1>s
    <3> QED
      BY <3>1, <3>2
  <2>2. n \in 0 .. n /\ 0 \in 0 .. n
    OBVIOUS
  <2> QED
    BY <1>1, <2>1, <2>2, FS_EmptySet
<1>4. PICK T : T = {t \in 0 .. n : C[t] >= k}
  OBVIOUS
<1>5. Cardinality(S) \in Nat
  BY WithinFinite
<1>6. n \in T /\ T \subseteq Nat
  BY <1>3, <1>4, <1>5
<1>7. PICK t \in T : \A u \in T : t <= u
  BY <1>6, LeastOf
<1>8. t \in 0 .. n /\ C[t] >= k /\ t # 0
  BY <1>3, <1>4, <1>7
<1>9. t - 1 \in 0 .. n /\ C[t - 1] < k
  <2>1. t - 1 \in 0 .. n /\ t - 1 \notin T
    BY <1>7, <1>8
  <2>2. C[t - 1] \in Nat
    BY <1>2, <2>1
  <2> QED
    BY <1>4, <2>1, <2>2
<1>10. t \in S
  <2>1. SUFFICES ASSUME t \notin S PROVE FALSE
    OBVIOUS
  <2>2. {j \in S : j <= t} = {j \in S : j <= t - 1}
    <3>1. \A j \in S : j <= t <=> j <= t - 1
      BY <1>s, <1>8, <2>1
    <3> QED
      BY <3>1
  <2>3. C[t] = C[t - 1]
    BY <1>1, <1>8, <1>9, <2>2
  <2>4. C[t] \in Nat
    BY <1>2, <1>8
  <2> QED
    BY <1>8, <1>9, <2>3, <2>4
<1>11. C[t] = C[t - 1] + 1
  <2>1. {j \in S : j <= t} = {j \in S : j <= t - 1} \cup {t} /\ t \notin {j \in S : j <= t - 1}
    <3>1. \A j \in S : j <= t <=> (j <= t - 1 \/ j = t)
      BY <1>s, <1>8, <1>10
    <3>2. ~(t <= t - 1) /\ t <= t
      BY <1>8
    <3> QED
      BY <1>10, <3>1, <3>2
  <2>2. IsFiniteSet({j \in S : j <= t - 1})
    <3>1. {j \in S : j <= t - 1} \subseteq 1 .. n
      OBVIOUS
    <3> QED
      BY <3>1, WithinFinite
  <2>3. Cardinality({j \in S : j <= t}) = Cardinality({j \in S : j <= t - 1}) + 1
    BY <2>1, <2>2, FS_AddElement
  <2> QED
    BY <1>1, <1>8, <1>9, <2>3
<1>12. C[t] = k
  <2>1. C[t - 1] \in Nat /\ C[t] \in Nat
    BY <1>2, <1>8, <1>9
  <2> QED
    BY <1>8, <1>9, <1>11, <2>1
<1> QED
  BY <1>1, <1>8, <1>10, <1>12 DEF UpToIn

-----------------------------------------------------------------------------
(* The block. *)

LEMMA GoodIs ==
  ASSUME NEW names \in Seq(STRING), NEW good,
         good = {i \in DOMAIN names : \A j \in 1 .. i : names[j] \in Known}
  PROVE  SubSeq(names, 1, Cardinality(good)) \in Seq(Known)
<1>1. Len(names) \in Nat /\ DOMAIN names = 1 .. Len(names) /\ good \subseteq 1 .. Len(names)
  OBVIOUS
<1>2. Cardinality(good) \in Nat /\ Cardinality(good) <= Len(names) /\ IsFiniteSet(good)
  BY <1>1, WithinFinite
<1>3. ASSUME NEW k \in 1 .. Cardinality(good) PROVE names[k] \in Known
  <2>1. SUFFICES ASSUME names[k] \notin Known PROVE FALSE
    OBVIOUS
  <2>2. k - 1 \in Nat /\ k \in 1 .. Len(names)
    BY <1>1, <1>2
  <2>3. ASSUME NEW i \in good PROVE i \in 1 .. k - 1
    <3>1. i \in 1 .. Len(names) /\ \A j \in 1 .. i : names[j] \in Known
      BY <1>1
    <3>2. ~(k \in 1 .. i)
      BY <2>1, <3>1
    <3> QED
      BY <2>2, <3>1, <3>2
  <2>4. good \subseteq 1 .. k - 1
    BY <2>3
  <2>5. Cardinality(good) <= k - 1
    BY <2>2, <2>4, WithinFinite
  <2> QED
    BY <1>2, <2>2, <2>5
<1>4. PICK n : n = Cardinality(good)
  OBVIOUS
<1>5. n \in Nat /\ n <= Len(names)
  BY <1>2, <1>4
<1>6. PICK p : p = SubSeq(names, 1, n)
  OBVIOUS
<1>7. p \in Seq(STRING) /\ Len(p) = n /\ \A k \in 1 .. n : p[k] = names[k]
  BY <1>1, <1>5, <1>6
<1>8. p \in [1 .. n -> STRING] /\ \A k \in 1 .. n : p[k] \in Known
  <2>1. p \in [1 .. n -> STRING]
    BY <1>7
  <2>2. \A k \in 1 .. n : p[k] \in Known
    BY <1>3, <1>4, <1>7
  <2> QED
    BY <2>1, <2>2
<1>9. p \in [1 .. n -> Known]
  BY <1>8
<1>10. p \in Seq(Known)
  BY <1>5, <1>9
<1> QED
  BY <1>4, <1>6, <1>10

LEMMA AppendLoadedIs ==
  ASSUME NEW block \in Seq(Known), NEW names \in Seq(Known)
  PROVE  /\ appendLoaded(block, names) \in Seq(Known) /\ Len(appendLoaded(block, names)) <= MaxLoaded
         /\ appendLoaded(block, names) = <<>> => block = <<>>
<1>1. PICK s : s = block \o names
  OBVIOUS
<1>2. s \in Seq(Known) /\ Len(s) \in Nat /\ DOMAIN s = 1 .. Len(s) /\ Len(s) = Len(block) + Len(names)
      /\ Len(block) \in Nat /\ Len(names) \in Nat
  BY <1>1, JoinedIs
<1>3. PICK latest : latest = Latest(s)
  OBVIOUS
<1>4. PICK kept : kept = {i \in latest : Cardinality({j \in latest : j > i}) < MaxLoaded}
  OBVIOUS
<1>5. latest \subseteq 1 .. Len(s) /\ kept \subseteq latest /\ kept \subseteq 1 .. Len(s)
  BY <1>2, <1>3, <1>4 DEF Latest
<1>6. IsFiniteSet(kept) /\ Cardinality(kept) \in Nat
  BY <1>2, <1>5, WithinFinite
<1>7. appendLoaded(block, names) = [k \in 1 .. Cardinality(kept) |-> s[CHOOSE i \in kept : Cardinality({j \in kept : j <= i}) = k]]
  BY <1>1, <1>3, <1>4 DEF appendLoaded
<1>8. ASSUME NEW k \in 1 .. Cardinality(kept)
      PROVE  s[CHOOSE i \in kept : Cardinality({j \in kept : j <= i}) = k] \in Known
  <2>1. \E i \in kept : Cardinality({j \in kept : j <= i}) = k
    <3>1. PICK n : n = Len(s)
      OBVIOUS
    <3>2. n \in Nat /\ kept \subseteq 1 .. n
      BY <1>2, <1>5, <3>1
    <3>3. PICK i \in kept : Cardinality(UpToIn(kept, i)) = k
      BY <3>2, RankIs
    <3> QED
      BY <3>3 DEF UpToIn
  <2>2. (CHOOSE i \in kept : Cardinality({j \in kept : j <= i}) = k) \in kept
    BY <2>1
  <2>3. \A i \in kept : s[i] \in Known
    BY <1>2, <1>5
  <2> QED
    BY <2>2, <2>3
<1>9. appendLoaded(block, names) \in [1 .. Cardinality(kept) -> Known]
  BY <1>7, <1>8
<1>10. appendLoaded(block, names) \in Seq(Known) /\ Len(appendLoaded(block, names)) = Cardinality(kept)
  BY <1>6, <1>9
<1>11. Cardinality(kept) <= MaxLoaded
  <2>1. CASE kept = {}
    BY <2>1, FS_EmptySet, ConversationAssumption
  <2>2. CASE kept # {}
    <3>1. kept \subseteq Nat
      BY <1>2, <1>5
    <3>2. PICK i \in kept : \A j \in kept : i <= j
      BY <2>2, <3>1, LeastOf
    <3>3. Cardinality({j \in latest : j > i}) < MaxLoaded
      BY <1>4, <3>2
    <3>4. ASSUME NEW j \in kept \ {i} PROVE j \in latest /\ j > i
      <4>1. i \in Nat /\ j \in Nat /\ i <= j /\ i # j
        BY <3>1, <3>2
      <4> QED
        BY <1>5, <4>1
    <3>5. kept \ {i} \subseteq {j \in latest : j > i} /\ {j \in latest : j > i} \subseteq 1 .. Len(s)
      BY <1>5, <3>4
    <3>6. IsFiniteSet({j \in latest : j > i}) /\ Cardinality({j \in latest : j > i}) \in Nat
      BY <1>2, <3>5, WithinFinite
    <3>7. Cardinality(kept \ {i}) <= Cardinality({j \in latest : j > i})
      BY <3>5, <3>6, FS_Subset
    <3>8. Cardinality(kept \ {i}) = Cardinality(kept) - 1
      BY <1>6, <3>2, FS_RemoveElement
    <3> QED
      BY <1>6, <3>3, <3>6, <3>7, <3>8, ConversationAssumption
  <2> QED
    BY <2>1, <2>2
<1>12. ASSUME block # <<>> PROVE kept # {}
  <2>1. Len(s) \in 1 .. Len(s)
    BY <1>2, <1>12
  <2>2. Len(s) \in latest
    BY <1>2, <1>3, <2>1 DEF Latest
  <2>3. \A j \in latest : ~(j > Len(s))
    BY <1>2, <1>5
  <2>4. {j \in latest : j > Len(s)} = {}
    BY <2>3
  <2>5. Cardinality({j \in latest : j > Len(s)}) < MaxLoaded
    <3>1. Cardinality({j \in latest : j > Len(s)}) = 0
      BY <2>4, FS_EmptySet
    <3>2. 0 < MaxLoaded
      BY ConversationAssumption
    <3> QED
      BY <3>1, <3>2
  <2> QED
    BY <1>4, <2>2, <2>5
<1>13. ASSUME appendLoaded(block, names) = <<>> PROVE block = <<>>
  <2>1. Cardinality(kept) = 0
    BY <1>10, <1>13
  <2>2. kept = {}
    BY <1>6, <2>1, FS_EmptySet
  <2> QED
    BY <1>12, <2>2
<1> QED
  BY <1>10, <1>11, <1>13

LEMMA DispatchIs ==
  ASSUME NEW block \in Seq(Known), NEW names \in Seq(STRING)
  PROVE  /\ dispatchLoadCapabilities(block, names) \in Seq(Known)
         /\ Len(dispatchLoadCapabilities(block, names)) <= MaxLoaded
         /\ dispatchLoadCapabilities(block, names) = <<>> => block = <<>>
<1>1. PICK good : good = {i \in DOMAIN names : \A j \in 1 .. i : names[j] \in Known}
  OBVIOUS
<1>2. SubSeq(names, 1, Cardinality(good)) \in Seq(Known)
  BY <1>1, GoodIs
<1>3. dispatchLoadCapabilities(block, names) = appendLoaded(block, SubSeq(names, 1, Cardinality(good)))
  BY <1>1 DEF dispatchLoadCapabilities
<1> QED
  BY <1>2, <1>3, AppendLoadedIs

LEMMA LoadsIs ==
  ASSUME loaded \in Seq(Known), NEW a \in DOMAIN Asks
  PROVE  Loads(a) \in Seq(Known) /\ Len(Loads(a)) <= MaxLoaded /\ (Loads(a) = <<>> => loaded = <<>>)
<1>1. Asks[a][1].loads \in Seq(STRING) /\ Asks[a][2].loads \in Seq(STRING)
  BY ConversationAssumption
<1>2. PICK b : b = dispatchLoadCapabilities(loaded, Asks[a][1].loads)
  OBVIOUS
<1>3. b \in Seq(Known) /\ (b = <<>> => loaded = <<>>)
  BY <1>1, <1>2, DispatchIs
<1>4. PICK c : c = dispatchLoadCapabilities(b, Asks[a][2].loads)
  OBVIOUS
<1>5. c \in Seq(Known) /\ Len(c) <= MaxLoaded /\ (c = <<>> => b = <<>>)
  BY <1>1, <1>3, <1>4, DispatchIs
<1>6. Loads(a) = c
  BY <1>2, <1>4 DEF Loads
<1> QED
  BY <1>3, <1>5, <1>6

-----------------------------------------------------------------------------
(* Whole exchanges. *)

LEMMA WholeJoin ==
  ASSUME NEW s \in Seq(Messages), NEW t \in Seq(Messages), Whole(s), Whole(t)
  PROVE  Whole(s \o t)
<1>1. PICK m : m = s \o t
  OBVIOUS
<1>2. /\ Len(m) = Len(s) + Len(t) /\ Len(s) \in Nat /\ Len(t) \in Nat
      /\ DOMAIN s = 1 .. Len(s) /\ DOMAIN t = 1 .. Len(t) /\ DOMAIN m = 1 .. Len(s) + Len(t)
      /\ \A i \in 1 .. Len(s) : m[i] = s[i]
      /\ \A i \in Len(s) + 1 .. Len(s) + Len(t) : m[i] = t[i - Len(s)]
  BY <1>1, JoinedIs
<1>3. ASSUME NEW i \in DOMAIN m, m[i].role = "tool"
      PROVE  /\ m[i].no \in 1 .. 2 /\ m[i].ask # Answer
             /\ i > m[i].no /\ m[i - m[i].no].role = "assistant" /\ m[i - m[i].no].ask = m[i].ask
  <2>1. CASE i \in 1 .. Len(s)
    <3>1. m[i] = s[i] /\ i \in DOMAIN s
      BY <1>2, <2>1
    <3>2. /\ s[i].no \in 1 .. 2 /\ s[i].ask # Answer
          /\ i > s[i].no /\ s[i - s[i].no].role = "assistant" /\ s[i - s[i].no].ask = s[i].ask
      BY <1>3, <3>1 DEF Whole
    <3>3. m[i - m[i].no] = s[i - s[i].no]
      BY <1>2, <2>1, <3>1, <3>2
    <3> QED
      BY <3>1, <3>2, <3>3
  <2>2. CASE i \in Len(s) + 1 .. Len(s) + Len(t)
    <3>1. m[i] = t[i - Len(s)] /\ i - Len(s) \in DOMAIN t
      BY <1>2, <2>2
    <3>2. PICK k : k = i - Len(s)
      OBVIOUS
    <3>3. /\ t[k].no \in 1 .. 2 /\ t[k].ask # Answer
          /\ k > t[k].no /\ t[k - t[k].no].role = "assistant" /\ t[k - t[k].no].ask = t[k].ask
      <4>1. k \in DOMAIN t /\ t[k].role = "tool"
        BY <1>3, <3>1, <3>2
      <4> QED
        BY <4>1 DEF Whole
    <3>4. PICK n : n = t[k].no
      OBVIOUS
    <3>5. n \in 1 .. 2 /\ k > n /\ k \in 1 .. Len(t)
      BY <1>2, <3>1, <3>2, <3>3, <3>4
    <3>6. i - n \in Len(s) + 1 .. Len(s) + Len(t) /\ (i - n) - Len(s) = k - n /\ i > n
      BY <1>2, <3>2, <3>5
    <3>7. m[i - n] = t[k - n]
      BY <1>2, <3>6
    <3> QED
      BY <3>1, <3>2, <3>3, <3>4, <3>6, <3>7
  <2> QED
    BY <1>2, <2>1, <2>2
<1>4. ASSUME NEW i \in DOMAIN m, m[i].role = "assistant", m[i].ask # Answer, NEW k \in 1 .. 2
      PROVE  i + k <= Len(m) /\ m[i + k].role = "tool" /\ m[i + k].no = k
  <2>1. CASE i \in 1 .. Len(s)
    <3>1. m[i] = s[i] /\ i \in DOMAIN s
      BY <1>2, <2>1
    <3>2. i + k <= Len(s) /\ s[i + k].role = "tool" /\ s[i + k].no = k
      BY <1>4, <3>1 DEF Whole
    <3>3. i + k \in 1 .. Len(s) /\ i + k <= Len(m)
      BY <1>2, <2>1, <3>2
    <3> QED
      BY <1>2, <3>2, <3>3
  <2>2. CASE i \in Len(s) + 1 .. Len(s) + Len(t)
    <3>1. PICK l : l = i - Len(s)
      OBVIOUS
    <3>2. m[i] = t[l] /\ l \in DOMAIN t
      BY <1>2, <2>2, <3>1
    <3>3. l + k <= Len(t) /\ t[l + k].role = "tool" /\ t[l + k].no = k
      BY <1>4, <3>2 DEF Whole
    <3>4. i + k \in Len(s) + 1 .. Len(s) + Len(t) /\ (i + k) - Len(s) = l + k
      BY <1>2, <2>2, <3>1, <3>3
    <3>5. m[i + k] = t[l + k]
      BY <1>2, <3>4
    <3> QED
      BY <1>2, <3>3, <3>4, <3>5
  <2> QED
    BY <1>2, <2>1, <2>2
<1>5. Whole(m)
  BY <1>3, <1>4 DEF Whole
<1> QED
  BY <1>1, <1>5

LEMMA WholeTail ==
  ASSUME NEW s \in Seq(Messages), Whole(s), NEW from \in 1 .. Len(s), s[from].role # "tool"
  PROVE  Whole(SubSeq(s, from, Len(s)))
<1>1. PICK m : m = SubSeq(s, from, Len(s))
  OBVIOUS
<1>2. /\ Len(m) = Len(s) - from + 1 /\ Len(s) \in Nat /\ from \in Nat /\ from >= 1 /\ from <= Len(s)
      /\ m \in Seq(Messages) /\ DOMAIN m = 1 .. Len(s) - from + 1 /\ DOMAIN s = 1 .. Len(s)
      /\ \A i \in 1 .. Len(s) - from + 1 : m[i] = s[i + from - 1]
  BY <1>1, TailIs
<1>3. ASSUME NEW i \in DOMAIN m, m[i].role = "tool"
      PROVE  /\ m[i].no \in 1 .. 2 /\ m[i].ask # Answer
             /\ i > m[i].no /\ m[i - m[i].no].role = "assistant" /\ m[i - m[i].no].ask = m[i].ask
  <2>1. PICK l : l = i + from - 1
    OBVIOUS
  <2>2. m[i] = s[l] /\ l \in DOMAIN s /\ l \in Nat /\ l >= from
    BY <1>2, <2>1
  <2>3. PICK n : n = s[l].no
    OBVIOUS
  <2>4. n \in 1 .. 2 /\ s[l].ask # Answer /\ l > n /\ s[l - n].role = "assistant" /\ s[l - n].ask = s[l].ask
    BY <1>3, <2>2, <2>3 DEF Whole
  <2>5. l - n \in DOMAIN s
    BY <1>2, <2>2, <2>4
  <2>6. \A k \in 1 .. 2 : (l - n) + k <= Len(s) /\ s[(l - n) + k].role = "tool"
    BY <2>4, <2>5 DEF Whole
  <2>7. ~(l - n < from)
    <3>1. SUFFICES ASSUME l - n < from PROVE FALSE
      OBVIOUS
    <3>2. from - (l - n) \in 1 .. 2 /\ (l - n) + (from - (l - n)) = from
      BY <1>2, <2>2, <2>4, <3>1
    <3> QED
      BY <2>6, <3>2
  <2>8. i - n \in 1 .. Len(s) - from + 1 /\ (i - n) + from - 1 = l - n /\ i > n
    <3>1. i \in Nat /\ i <= Len(s) - from + 1 /\ n \in {1, 2} /\ l \in Nat
      BY <1>2, <2>2, <2>4
    <3>2. l - n >= from
      BY <1>2, <2>7, <3>1
    <3>3. i = l - from + 1 /\ from \in Nat
      BY <1>2, <2>1, <3>1
    <3>4. i - n = (l - n) - from + 1
      BY <3>1, <3>3
    <3>5. i - n >= 1 /\ i - n <= Len(s) - from + 1
      BY <1>2, <3>1, <3>2, <3>3, <3>4
    <3> QED
      BY <1>2, <3>1, <3>3, <3>4, <3>5
  <2>9. m[i - n] = s[l - n]
    BY <1>2, <2>8
  <2> QED
    BY <2>2, <2>3, <2>4, <2>8, <2>9
<1>4. ASSUME NEW i \in DOMAIN m, m[i].role = "assistant", m[i].ask # Answer, NEW k \in 1 .. 2
      PROVE  i + k <= Len(m) /\ m[i + k].role = "tool" /\ m[i + k].no = k
  <2>1. PICK l : l = i + from - 1
    OBVIOUS
  <2>2. m[i] = s[l] /\ l \in DOMAIN s /\ l \in Nat
    BY <1>2, <2>1
  <2>3. l + k <= Len(s) /\ s[l + k].role = "tool" /\ s[l + k].no = k
    BY <1>4, <2>2 DEF Whole
  <2>4. i + k \in 1 .. Len(s) - from + 1 /\ (i + k) + from - 1 = l + k
    BY <1>2, <2>1, <2>2, <2>3
  <2>5. m[i + k] = s[l + k]
    BY <1>2, <2>4
  <2> QED
    BY <1>2, <2>3, <2>4, <2>5
<1>5. Whole(m)
  BY <1>3, <1>4 DEF Whole
<1> QED
  BY <1>1, <1>5

\* One message that is neither a request nor a tool's answer.
LEMMA WholeOne ==
  ASSUME NEW e \in Messages, e.role \notin {"assistant", "tool"}
  PROVE  <<e>> \in Seq(Messages) /\ Whole(<<e>>)
<1>1. <<e>> \in Seq(Messages) /\ DOMAIN <<e>> = {1} /\ <<e>>[1] = e
  OBVIOUS
<1> QED
  BY <1>1 DEF Whole

LEMMA WholeNone == <<>> \in Seq(Messages) /\ Whole(<<>>)
  BY DEF Whole

LEMMA SameSeq ==
  ASSUME NEW S, NEW s \in Seq(S), NEW t \in Seq(S), Len(s) = Len(t), \A i \in 1 .. Len(s) : s[i] = t[i]
  PROVE  s = t
  OBVIOUS

LEMMA JoinedAgain ==
  ASSUME NEW S, NEW s \in Seq(S), NEW t \in Seq(S), NEW u \in Seq(S)
  PROVE  (s \o t) \o u = s \o (t \o u)
<1>1. PICK p : p = (s \o t) \o u
  OBVIOUS
<1>2. PICK q : q = s \o (t \o u)
  OBVIOUS
<1>3. PICK a : a = s \o t
  OBVIOUS
<1>4. PICK b : b = t \o u
  OBVIOUS
<1>5. /\ a \in Seq(S) /\ Len(a) = Len(s) + Len(t) /\ Len(s) \in Nat /\ Len(t) \in Nat
      /\ \A i \in 1 .. Len(s) : a[i] = s[i]
      /\ \A i \in Len(s) + 1 .. Len(s) + Len(t) : a[i] = t[i - Len(s)]
  BY <1>3, JoinedIs
<1>6. /\ b \in Seq(S) /\ Len(b) = Len(t) + Len(u) /\ Len(u) \in Nat
      /\ \A i \in 1 .. Len(t) : b[i] = t[i]
      /\ \A i \in Len(t) + 1 .. Len(t) + Len(u) : b[i] = u[i - Len(t)]
  BY <1>4, JoinedIs
<1>7. /\ p \in Seq(S) /\ Len(p) = Len(a) + Len(u)
      /\ \A i \in 1 .. Len(a) : p[i] = a[i]
      /\ \A i \in Len(a) + 1 .. Len(a) + Len(u) : p[i] = u[i - Len(a)]
  <2>1. p = a \o u
    BY <1>1, <1>3
  <2>2. a \in Seq(S) /\ u \in Seq(S)
    BY <1>5
  <2> QED
    BY <2>1, <2>2, JoinedIs
<1>8. /\ q \in Seq(S) /\ Len(q) = Len(s) + Len(b)
      /\ \A i \in 1 .. Len(s) : q[i] = s[i]
      /\ \A i \in Len(s) + 1 .. Len(s) + Len(b) : q[i] = b[i - Len(s)]
  <2>1. q = s \o b
    BY <1>2, <1>4
  <2>2. s \in Seq(S) /\ b \in Seq(S)
    BY <1>6
  <2> QED
    BY <2>1, <2>2, JoinedIs
<1>9. Len(p) = Len(q)
  BY <1>5, <1>6, <1>7, <1>8
<1>10. ASSUME NEW i \in 1 .. Len(p) PROVE p[i] = q[i]
  <2>1. CASE i \in 1 .. Len(s)
    <3>1. i \in 1 .. Len(a)
      BY <1>5, <2>1
    <3> QED
      BY <1>5, <1>7, <1>8, <2>1, <3>1
  <2>2. CASE i \in Len(s) + 1 .. Len(s) + Len(t)
    <3>1. i \in 1 .. Len(a) /\ i \in Len(s) + 1 .. Len(s) + Len(b) /\ i - Len(s) \in 1 .. Len(t)
      BY <1>5, <1>6, <2>2
    <3>2. p[i] = t[i - Len(s)]
      BY <1>5, <1>7, <2>2, <3>1
    <3>3. q[i] = t[i - Len(s)]
      BY <1>6, <1>8, <3>1
    <3> QED
      BY <3>2, <3>3
  <2>3. CASE i \in Len(s) + Len(t) + 1 .. Len(s) + Len(t) + Len(u)
    <3>1. /\ i \in Len(a) + 1 .. Len(a) + Len(u) /\ i \in Len(s) + 1 .. Len(s) + Len(b)
          /\ i - Len(s) \in Len(t) + 1 .. Len(t) + Len(u) /\ (i - Len(s)) - Len(t) = i - Len(a)
      BY <1>5, <1>6, <2>3
    <3>2. p[i] = u[i - Len(a)]
      BY <1>7, <3>1
    <3>3. q[i] = u[i - Len(a)]
      BY <1>6, <1>8, <3>1
    <3> QED
      BY <3>2, <3>3
  <2> QED
    BY <1>5, <1>7, <2>1, <2>2, <2>3
<1>11. p = q
  BY <1>7, <1>8, <1>9, <1>10, SameSeq
<1> QED
  BY <1>1, <1>2, <1>11

-----------------------------------------------------------------------------
(* What is appended. *)

\* What neither asks nor answers, and shows no block.
Remark(x) ==
  /\ x \in Seq(Messages) /\ Whole(x)
  /\ \A i \in 1 .. Len(x) : x[i].role \notin {"assistant", "block"}

LEMMA AddsRemark ==
  ASSUME ConversationInv, NEW x, Remark(x), msgs' = msgs \o x,
         UNCHANGED <<taskStart, lastLoaded, loaded, made, streak>>
  PROVE  /\ msgs' \in Seq(Messages) /\ taskStart' \in 1 .. Len(msgs')
         /\ Framed' /\ Paired' /\ AsksWereMade' /\ StreakIsOwn' /\ Shown'
<1>1. msgs \in Seq(Messages) /\ taskStart \in 1 .. Len(msgs) /\ x \in Seq(Messages)
  BY DEF ConversationInv, ConversationTypes, Remark
<1>2. /\ msgs' \in Seq(Messages) /\ Len(msgs') = Len(msgs) + Len(x) /\ Len(msgs) \in Nat /\ Len(x) \in Nat
      /\ DOMAIN msgs = 1 .. Len(msgs) /\ DOMAIN msgs' = 1 .. Len(msgs) + Len(x)
      /\ \A i \in 1 .. Len(msgs) : msgs'[i] = msgs[i]
      /\ \A i \in Len(msgs) + 1 .. Len(msgs) + Len(x) : msgs'[i] = x[i - Len(msgs)]
  BY <1>1, JoinedIs
<1>3. \A i \in Len(msgs) + 1 .. Len(msgs) + Len(x) : msgs'[i].role \notin {"assistant", "block"}
  <2>1. ASSUME NEW i \in Len(msgs) + 1 .. Len(msgs) + Len(x) PROVE msgs'[i].role \notin {"assistant", "block"}
    <3>1. i - Len(msgs) \in 1 .. Len(x)
      BY <1>2
    <3> QED
      BY <1>2, <3>1 DEF Remark
  <2> QED
    BY <2>1
<1>4. Framed'
  <2>1. msgs'[1].role = "base"
    BY <1>1, <1>2 DEF ConversationInv, Framed
  <2>2. CASE Len(x) = 0
    BY <1>1, <1>2, <2>1, <2>2 DEF ConversationInv, Framed, EndsWithItsTask
  <2>3. CASE Len(x) > 0
    <3>1. Len(msgs') \in Len(msgs) + 1 .. Len(msgs) + Len(x)
      BY <1>2, <2>3
    <3> QED
      BY <1>3, <2>1, <3>1 DEF Framed, EndsWithItsTask
  <2> QED
    BY <1>2, <2>2, <2>3
<1>5. Paired'
  <2>1. Whole(msgs) /\ Whole(x)
    BY DEF ConversationInv, Paired, Remark
  <2>2. Whole(msgs \o x)
    BY <1>1, <2>1, WholeJoin
  <2> QED
    BY <2>2 DEF Paired
<1>6. OwnAsks' = OwnAsks /\ OwnAsks \subseteq 1 .. Len(msgs)
  <2>1. ASSUME NEW i \in OwnAsks' PROVE i \in OwnAsks
    <3>1. i \in taskStart + 1 .. Len(msgs) + Len(x) /\ msgs'[i].role = "assistant" /\ msgs'[i].ask # Answer
      BY <1>2 DEF OwnAsks
    <3>2. i \in 1 .. Len(msgs)
      BY <1>1, <1>2, <1>3, <3>1
    <3> QED
      BY <1>1, <1>2, <3>1, <3>2 DEF OwnAsks
  <2>2. OwnAsks \subseteq 1 .. Len(msgs)
    BY <1>1 DEF OwnAsks
  <2>3. ASSUME NEW i \in OwnAsks PROVE i \in OwnAsks'
    <3>1. i \in taskStart + 1 .. Len(msgs) /\ msgs[i].role = "assistant" /\ msgs[i].ask # Answer /\ i \in 1 .. Len(msgs)
      BY <2>2 DEF OwnAsks
    <3>2. i \in taskStart + 1 .. Len(msgs) + Len(x) /\ msgs'[i] = msgs[i]
      BY <1>1, <1>2, <3>1
    <3> QED
      BY <1>2, <3>1, <3>2 DEF OwnAsks
  <2> QED
    BY <2>1, <2>2, <2>3
<1>7. AsksWereMade'
  <2>1. PICK f \in [OwnAsks -> DOMAIN made] : Follows(f)
    BY DEF ConversationInv, AsksWereMade
  <2>2. \A i \in OwnAsks : msgs'[i] = msgs[i]
    BY <1>2, <1>6
  <2>3. Follows(f)'
    BY <1>6, <2>1, <2>2 DEF Follows
  <2>4. f \in [OwnAsks' -> DOMAIN made']
    BY <1>6, <2>1
  <2> QED
    BY <2>3, <2>4 DEF AsksWereMade
<1>8. StreakIsOwn'
  BY DEF ConversationInv, StreakIsOwn, Trailing
<1>9. Shown'
  <2>1. lastLoaded' \in {<<>>, loaded'}
    BY DEF ConversationInv, Shown
  <2>2. ASSUME NEW i \in DOMAIN msgs', IsLast(i)' PROVE msgs'[i].shows = loaded'
    <3>1. i \in 1 .. Len(msgs)
      BY <1>2, <1>3, <2>2 DEF IsLast
    <3>2. IsLast(i)
      <4>1. msgs[i].role = "block"
        BY <1>2, <2>2, <3>1 DEF IsLast
      <4>2. ASSUME NEW j \in DOMAIN msgs, j > i PROVE msgs[j].role # "block"
        <5>1. j \in DOMAIN msgs' /\ msgs'[j] = msgs[j]
          BY <1>2
        <5> QED
          BY <2>2, <4>2, <5>1 DEF IsLast
      <4> QED
        BY <4>1, <4>2 DEF IsLast
    <3>3. msgs[i].shows = loaded
      BY <1>2, <3>1, <3>2 DEF ConversationInv, Shown
    <3> QED
      BY <1>2, <3>1, <3>3 
  <2> QED
    BY <2>1, <2>2 DEF Shown
<1> QED
  BY <1>1, <1>2, <1>4, <1>5, <1>7, <1>8, <1>9

\* A round: a request, its answers, what is said of it.
Turn(x, a) ==
  /\ x \in Seq(Messages) /\ Whole(x) /\ Len(x) >= 3
  /\ x[1].role = "assistant" /\ x[1].ask = a
  /\ \A i \in 2 .. Len(x) : x[i].role # "assistant"

LEMMA AddsTurn ==
  ASSUME ConversationInv, NEW a \in DOMAIN Asks, NEW x, Turn(x, a), msgs' = msgs \o x,
         taskStart' = taskStart, made' = Append(made, a)
  PROVE  /\ msgs' \in Seq(Messages) /\ taskStart' \in 1 .. Len(msgs') /\ made' \in Seq(DOMAIN Asks)
         /\ Len(made') = Len(made) + 1 /\ Framed' /\ Paired' /\ AsksWereMade'
<1>1. msgs \in Seq(Messages) /\ taskStart \in 1 .. Len(msgs) /\ x \in Seq(Messages) /\ made \in Seq(DOMAIN Asks)
  BY DEF ConversationInv, ConversationTypes, Turn
<1>2. /\ msgs' \in Seq(Messages) /\ Len(msgs') = Len(msgs) + Len(x) /\ Len(msgs) \in Nat /\ Len(x) \in Nat
      /\ DOMAIN msgs = 1 .. Len(msgs) /\ DOMAIN msgs' = 1 .. Len(msgs) + Len(x)
      /\ \A i \in 1 .. Len(msgs) : msgs'[i] = msgs[i]
      /\ \A i \in Len(msgs) + 1 .. Len(msgs) + Len(x) : msgs'[i] = x[i - Len(msgs)]
  BY <1>1, JoinedIs
<1>3. /\ Len(x) >= 3 /\ x[1].role = "assistant" /\ x[1].ask = a /\ \A i \in 2 .. Len(x) : x[i].role # "assistant"
  BY DEF Turn
<1>4. Framed'
  <2>1. msgs'[1].role = "base"
    BY <1>1, <1>2 DEF ConversationInv, Framed
  <2>2. Len(msgs') \in Len(msgs) + 1 .. Len(msgs) + Len(x) /\ Len(msgs') - Len(msgs) = Len(x) /\ Len(x) \in 2 .. Len(x)
    BY <1>2, <1>3
  <2>3. msgs'[Len(msgs')] = x[Len(x)]
    BY <1>2, <2>2
  <2> QED
    BY <1>3, <2>1, <2>2, <2>3 DEF Framed, EndsWithItsTask
<1>5. Paired'
  <2>1. Whole(msgs) /\ Whole(x)
    BY DEF ConversationInv, Paired, Turn
  <2>2. Whole(msgs \o x)
    BY <1>1, <2>1, WholeJoin
  <2> QED
    BY <2>2 DEF Paired
<1>6. PICK n : n = Len(msgs) + 1
  OBVIOUS
<1>7. n \in Len(msgs) + 1 .. Len(msgs) + Len(x) /\ msgs'[n] = x[1] /\ n \in taskStart + 1 .. Len(msgs')
  <2>1. n \in Len(msgs) + 1 .. Len(msgs) + Len(x) /\ n - Len(msgs) = 1
    BY <1>2, <1>3, <1>6
  <2>2. msgs'[n] = x[1]
    BY <1>2, <2>1
  <2> QED
    BY <1>1, <1>2, <1>3, <1>6, <2>1, <2>2
<1>8. OwnAsks' = OwnAsks \cup {n} /\ OwnAsks \subseteq 1 .. Len(msgs)
  <2>1. ASSUME NEW i \in OwnAsks' PROVE i \in OwnAsks \cup {n}
    <3>1. i \in taskStart + 1 .. Len(msgs) + Len(x) /\ msgs'[i].role = "assistant" /\ msgs'[i].ask # Answer
      BY <1>2 DEF OwnAsks
    <3>2. CASE i \in 1 .. Len(msgs)
      BY <1>1, <1>2, <3>1, <3>2 DEF OwnAsks
    <3>3. CASE i \in Len(msgs) + 1 .. Len(msgs) + Len(x)
      <4>1. msgs'[i] = x[i - Len(msgs)] /\ i - Len(msgs) \in 1 .. Len(x)
        BY <1>2, <3>3
      <4>2. ~(i - Len(msgs) \in 2 .. Len(x))
        BY <1>3, <3>1, <4>1
      <4>3. i - Len(msgs) = 1
        BY <1>2, <4>1, <4>2
      <4> QED
        BY <1>2, <1>6, <3>3, <4>3
    <3> QED
      BY <1>1, <1>2, <3>1, <3>2, <3>3
  <2>2. OwnAsks \subseteq 1 .. Len(msgs)
    BY <1>1 DEF OwnAsks
  <2>3. ASSUME NEW i \in OwnAsks PROVE i \in OwnAsks'
    <3>1. i \in taskStart + 1 .. Len(msgs) /\ msgs[i].role = "assistant" /\ msgs[i].ask # Answer /\ i \in 1 .. Len(msgs)
      BY <2>2 DEF OwnAsks
    <3>2. i \in taskStart + 1 .. Len(msgs) + Len(x) /\ msgs'[i] = msgs[i]
      BY <1>1, <1>2, <3>1
    <3> QED
      BY <1>2, <3>1, <3>2 DEF OwnAsks
  <2>4. n \in OwnAsks'
    <3>1. a # Answer
      BY ConversationAssumption
    <3> QED
      BY <1>3, <1>7, <3>1 DEF OwnAsks
  <2> QED
    BY <2>1, <2>2, <2>3, <2>4
<1>9. /\ made' \in Seq(DOMAIN Asks) /\ Len(made') = Len(made) + 1 /\ Len(made) \in Nat /\ made'[Len(made) + 1] = a
      /\ DOMAIN made = 1 .. Len(made) /\ DOMAIN made' = 1 .. Len(made) + 1 /\ \A k \in 1 .. Len(made) : made'[k] = made[k]
  BY <1>1
<1>10. AsksWereMade'
  <2>1. PICK f \in [OwnAsks -> DOMAIN made] : Follows(f)
    BY DEF ConversationInv, AsksWereMade
  <2>2. PICK g : g = [i \in OwnAsks \cup {n} |-> IF i = n THEN Len(made) + 1 ELSE f[i]]
    OBVIOUS
  <2>3. n \notin OwnAsks /\ \A i \in OwnAsks : i < n /\ i \in Nat
    BY <1>2, <1>6, <1>8
  <2>4. g[n] = Len(made) + 1 /\ \A i \in OwnAsks : g[i] = f[i] /\ f[i] \in 1 .. Len(made)
    BY <1>9, <2>1, <2>2, <2>3
  <2>5. g \in [OwnAsks' -> DOMAIN made']
    <3>1. \A i \in OwnAsks \cup {n} : g[i] \in 1 .. Len(made) + 1
      BY <1>9, <2>4
    <3> QED
      BY <1>8, <1>9, <2>2, <3>1
  <2>6. ASSUME NEW i \in OwnAsks' PROVE made'[g[i]] = msgs'[i].ask
    <3>1. CASE i = n
      BY <1>3, <1>7, <1>9, <2>4, <3>1
    <3>2. CASE i \in OwnAsks
      <4>1. msgs'[i] = msgs[i]
        BY <1>2, <1>8, <3>2
      <4>2. made[f[i]] = msgs[i].ask
        BY <2>1, <3>2 DEF Follows
      <4> QED
        BY <1>9, <2>4, <3>2, <4>1, <4>2
    <3> QED
      BY <1>8, <3>1, <3>2
  <2>7. ASSUME NEW i \in OwnAsks', NEW j \in OwnAsks', i < j PROVE g[i] < g[j]
    <3>1. i \in OwnAsks
      <4>1. CASE i = n
        <5>1. j \in Nat /\ j <= n
          BY <1>2, <1>6, <1>8, <2>3
        <5> QED
          BY <1>2, <1>6, <2>7, <4>1, <5>1
      <4> QED
        BY <1>8, <4>1
    <3>2. CASE j \in OwnAsks
      BY <2>1, <2>4, <2>7, <3>1, <3>2 DEF Follows
    <3>3. CASE j = n
      BY <1>9, <2>4, <3>1, <3>3
    <3> QED
      BY <1>8, <3>2, <3>3
  <2>8. ASSUME NEW i \in OwnAsks', NEW k \in g[i] .. Len(made') PROVE \E j \in OwnAsks' : j >= i /\ g[j] = k
    <3>1. i <= n /\ n >= i /\ i >= i
      BY <1>2, <1>6, <1>8, <2>3
    <3>2. CASE k = Len(made) + 1
      BY <1>8, <2>4, <3>1, <3>2
    <3>3. CASE k # Len(made) + 1
      <4>1. i \in OwnAsks
        BY <1>8, <1>9, <2>4, <3>3
      <4>2. k \in f[i] .. Len(made)
        BY <1>9, <2>4, <3>3, <4>1
      <4>3. PICK j \in OwnAsks : j >= i /\ f[j] = k
        BY <2>1, <4>1, <4>2 DEF Follows
      <4> QED
        BY <1>8, <2>4, <4>3
    <3> QED
      BY <3>2, <3>3
  <2>9. Follows(g)'
    BY <2>6, <2>7, <2>8 DEF Follows
  <2> QED
    BY <2>5, <2>9 DEF AsksWereMade
<1> QED
  BY <1>1, <1>2, <1>4, <1>5, <1>7, <1>9, <1>10

\* A step that adds no message; a resumption forgets what was shown last.
LEMMA SameExchange ==
  ASSUME ConversationInv, UNCHANGED <<msgs, taskStart, loaded, made, streak>>, lastLoaded' \in {lastLoaded, <<>>}
  PROVE  Framed' /\ Paired' /\ AsksWereMade' /\ StreakIsOwn' /\ Shown'
<1>1. Framed' /\ Paired'
  BY DEF ConversationInv, Framed, EndsWithItsTask, Paired
<1>2. AsksWereMade'
  <2>1. OwnAsks' = OwnAsks
    BY DEF OwnAsks
  <2>2. PICK f \in [OwnAsks -> DOMAIN made] : Follows(f)
    BY DEF ConversationInv, AsksWereMade
  <2>3. Follows(f)' /\ f \in [OwnAsks' -> DOMAIN made']
    BY <2>1, <2>2 DEF Follows
  <2> QED
    BY <2>3 DEF AsksWereMade
<1>3. StreakIsOwn'
  BY DEF ConversationInv, StreakIsOwn, Trailing
<1>4. Shown'
  <2>1. lastLoaded' \in {<<>>, loaded'}
    BY DEF ConversationInv, Shown
  <2>2. ASSUME NEW i \in DOMAIN msgs', IsLast(i)' PROVE msgs'[i].shows = loaded'
    BY <2>2 DEF ConversationInv, Shown, IsLast
  <2> QED
    BY <2>1, <2>2 DEF Shown
<1> QED
  BY <1>1, <1>2, <1>3, <1>4

\* The streak counted for a request is of rounds this task made.
LEMMA StreakWithin ==
  ASSUME ConversationInv, NEW a \in DOMAIN Asks, made' = Append(made, a), streak' = repeatedCallStreak(a)
  PROVE  streak' \in Nat /\ StreakIsOwn'
<1>1. msgs \in Seq(Messages) /\ taskStart \in 1 .. Len(msgs) /\ made \in Seq(DOMAIN Asks) /\ Len(msgs) \in Nat
  <2>1. msgs \in Seq(Messages) /\ taskStart \in 1 .. Len(msgs) /\ made \in Seq(DOMAIN Asks)
    BY DEF ConversationInv, ConversationTypes
  <2> QED
    BY <2>1
<1>2. PICK n \in Nat : n = Len(made)
  BY <1>1
<1>3. /\ Len(made') = n + 1 /\ made'[n + 1] = a /\ made' # <<>> /\ DOMAIN made = 1 .. n /\ DOMAIN made' = 1 .. n + 1
      /\ \A k \in 1 .. n : made'[k] = made[k]
  BY <1>1, <1>2
<1>4. PICK ran : ran = {i \in OwnAsks : \A j \in OwnAsks : j >= i => msgs[j].ask = a}
  OBVIOUS
<1>5. streak' = 1 + Cardinality(ran)
  BY <1>4 DEF repeatedCallStreak
<1>6. OwnAsks \subseteq 1 .. Len(msgs)
  BY <1>1 DEF OwnAsks
<1>7. IsFiniteSet(ran) /\ Cardinality(ran) \in Nat
  <2>1. ran \subseteq 1 .. Len(msgs)
    BY <1>4, <1>6
  <2> QED
    BY <1>1, <2>1, WithinFinite
<1>8. PICK past : past = {k \in 1 .. n : \A l \in k .. n : made[l] = a}
  OBVIOUS
<1>9. IsFiniteSet(past) /\ Cardinality(past) \in Nat /\ past \subseteq 1 .. n
  <2>1. past \subseteq 1 .. n
    BY <1>8
  <2> QED
    BY <2>1, WithinFinite
<1>10. Cardinality(ran) <= Cardinality(past)
  <2>1. PICK f \in [OwnAsks -> DOMAIN made] : Follows(f)
    BY DEF ConversationInv, AsksWereMade
  <2>2. ASSUME NEW i \in ran PROVE f[i] \in past
    <3>1. i \in OwnAsks /\ f[i] \in 1 .. n /\ \A j \in OwnAsks : j >= i => msgs[j].ask = a
      BY <1>3, <1>4, <2>1
    <3>2. ASSUME NEW l \in f[i] .. n PROVE made[l] = a
      <4>1. PICK j \in OwnAsks : j >= i /\ f[j] = l
        BY <1>2, <2>1, <3>1 DEF Follows
      <4>2. made[f[j]] = msgs[j].ask
        BY <2>1 DEF Follows
      <4> QED
        BY <3>1, <4>1, <4>2
    <3> QED
      BY <1>8, <3>1, <3>2
  <2>3. PICK g : g = [i \in ran |-> f[i]]
    OBVIOUS
  <2>4. g \in [ran -> past]
    BY <2>2, <2>3
  <2>5. ASSUME NEW i \in ran, NEW j \in ran, g[i] = g[j] PROVE i = j
    <3>1. i \in OwnAsks /\ j \in OwnAsks /\ i \in Nat /\ j \in Nat /\ f[i] = f[j] /\ f[i] \in Nat
      BY <1>3, <1>4, <1>6, <2>1, <2>3, <2>5
    <3>2. ~(i < j) /\ ~(j < i)
      BY <2>1, <3>1 DEF Follows
    <3> QED
      BY <3>1, <3>2
  <2>6. g \in Injection(ran, past)
    BY <2>4, <2>5 DEF Injection, IsInjective
  <2> QED
    BY <1>9, <2>6, FS_Injection
<1>11. Trailing(a)' = Cardinality(past \cup {n + 1})
  <2>1. {i \in DOMAIN made' : \A j \in i .. Len(made') : made'[j] = a} = past \cup {n + 1}
    <3>1. ASSUME NEW i \in DOMAIN made', \A j \in i .. Len(made') : made'[j] = a PROVE i \in past \cup {n + 1}
      <4>1. CASE i = n + 1
        BY <4>1
      <4>2. CASE i \in 1 .. n
        <5>1. \A j \in i .. n : made[j] = a
          BY <1>3, <3>1, <4>2
        <5> QED
          BY <1>8, <4>2, <5>1
      <4> QED
        BY <1>3, <4>1, <4>2
    <3>2. ASSUME NEW i \in past PROVE i \in DOMAIN made' /\ \A j \in i .. Len(made') : made'[j] = a
      <4>1. i \in 1 .. n /\ \A l \in i .. n : made[l] = a
        BY <1>8, <3>2
      <4>2. \A j \in i .. n + 1 : j = n + 1 \/ (j \in i .. n /\ j \in 1 .. n)
        BY <4>1
      <4> QED
        BY <1>3, <4>1, <4>2
    <3>3. n + 1 \in DOMAIN made' /\ \A j \in n + 1 .. Len(made') : made'[j] = a
      BY <1>3
    <3> QED
      BY <3>1, <3>2, <3>3
  <2> QED
    BY <2>1 DEF Trailing
<1>12. Cardinality(past \cup {n + 1}) = Cardinality(past) + 1
  <2>1. n + 1 \notin past
    BY <1>9
  <2> QED
    BY <1>9, <2>1, FS_AddElement
<1>13. streak' \in Nat /\ streak' <= Trailing(a)'
  BY <1>5, <1>7, <1>9, <1>10, <1>11, <1>12
<1>14. made'[Len(made')] = a
  BY <1>3
<1> QED
  BY <1>13, <1>14 DEF StreakIsOwn

\* What a round adds: the request, its answers, a warning, and the block last.
Asked(a) == <<Msg("assistant", a, 0, <<>>), Msg("tool", a, 1, <<>>), Msg("tool", a, 2, <<>>)>>
IsWarning(u) == u = <<>> \/ u = <<User("failing")>>
IsShow(b, block) == b = <<>> \/ b = <<Msg("block", "", 0, block)>>
LEMMA PartsAre ==
  ASSUME NEW a \in DOMAIN Asks, NEW block \in Seq(Known), NEW U, IsWarning(U), NEW B, IsShow(B, block)
  PROVE  /\ Asked(a) \in Seq(Messages) /\ Whole(Asked(a)) /\ Len(Asked(a)) = 3
         /\ Asked(a)[1] = Msg("assistant", a, 0, <<>>) /\ Asked(a)[2] = Msg("tool", a, 1, <<>>) /\ Asked(a)[3] = Msg("tool", a, 2, <<>>)
         /\ U \in Seq(Messages) /\ Whole(U) /\ Len(U) \in Nat /\ \A i \in 1 .. Len(U) : U[i].role \notin {"assistant", "block"}
         /\ B \in Seq(Messages) /\ Whole(B) /\ Len(B) \in Nat /\ \A i \in 1 .. Len(B) : B[i].role # "assistant"
         /\ B # <<>> => Len(B) = 1 /\ B[1].role = "block" /\ B[1].shows = block
<1>1. PICK T : T = Asked(a)
  OBVIOUS
<1>2. a \in Sayings /\ a # Answer
  <2>1. a \in Sayings
    BY DEF Sayings
  <2> QED
    BY <2>1, ConversationAssumption
<1>3. /\ Len(T) = 3 /\ T[1] = Msg("assistant", a, 0, <<>>) /\ T[2] = Msg("tool", a, 1, <<>>) /\ T[3] = Msg("tool", a, 2, <<>>)
      /\ DOMAIN T = 1 .. 3
  BY <1>1 DEF Asked
<1>4. T \in Seq(Messages)
  <2>1. \A r \in {"assistant", "tool"}, n \in Nat : Msg(r, a, n, <<>>) \in Messages
    BY <1>2 DEF Messages, Msg
  <2>2. Msg("assistant", a, 0, <<>>) \in Messages /\ Msg("tool", a, 1, <<>>) \in Messages /\ Msg("tool", a, 2, <<>>) \in Messages
    BY <2>1
  <2> QED
    BY <1>1, <2>2 DEF Asked
<1>5. Whole(T)
  <2>1. /\ T[1].role = "assistant" /\ T[1].ask = a
        /\ T[2].role = "tool" /\ T[2].ask = a /\ T[2].no = 1
        /\ T[3].role = "tool" /\ T[3].ask = a /\ T[3].no = 2
    BY <1>3 DEF Msg
  <2>2. ASSUME NEW i \in DOMAIN T, T[i].role = "tool"
        PROVE  /\ T[i].no \in 1 .. 2 /\ T[i].ask # Answer
               /\ i > T[i].no /\ T[i - T[i].no].role = "assistant" /\ T[i - T[i].no].ask = T[i].ask
    <3>1. i = 2 \/ i = 3
      <4>1. i \in 1 .. 3 /\ i # 1
        BY <1>3, <2>1, <2>2
      <4> QED
        BY <4>1
    <3>2. 2 - 1 = 1 /\ 3 - 2 = 1
      OBVIOUS
    <3>3. CASE i = 2
      BY <1>2, <2>1, <3>2, <3>3
    <3>4. CASE i = 3
      BY <1>2, <2>1, <3>2, <3>4
    <3> QED
      BY <3>1, <3>3, <3>4
  <2>3. ASSUME NEW i \in DOMAIN T, T[i].role = "assistant", NEW k \in 1 .. 2
        PROVE  i + k <= Len(T) /\ T[i + k].role = "tool" /\ T[i + k].no = k
    <3>1. i = 1
      <4>1. i \in 1 .. 3 /\ i # 2 /\ i # 3
        BY <1>3, <2>1, <2>3
      <4> QED
        BY <4>1
    <3>2. k = 1 \/ k = 2
      OBVIOUS
    <3>3. CASE k = 1
      BY <1>3, <2>1, <3>1, <3>3
    <3>4. CASE k = 2
      BY <1>3, <2>1, <3>1, <3>4
    <3> QED
      BY <3>2, <3>3, <3>4
  <2> QED
    BY <2>2, <2>3 DEF Whole
<1>6. U \in Seq(Messages) /\ Whole(U) /\ Len(U) \in Nat /\ \A i \in 1 .. Len(U) : U[i].role \notin {"assistant", "block"}
  <2>1. CASE U = <<>>
    BY <2>1, WholeNone
  <2>2. CASE U = <<User("failing")>>
    <3>1. User("failing") \in Messages /\ User("failing").role = "user"
      <4>1. "failing" \in Sayings
        BY DEF Sayings
      <4> QED
        BY <4>1 DEF Messages, User, Msg
    <3>2. U \in Seq(Messages) /\ Whole(U)
      BY <2>2, <3>1, WholeOne
    <3>3. Len(U) = 1 /\ U[1] = User("failing")
      BY <2>2
    <3> QED
      BY <3>1, <3>2, <3>3
  <2> QED
    BY <2>1, <2>2 DEF IsWarning
<1>7. /\ B \in Seq(Messages) /\ Whole(B) /\ Len(B) \in Nat /\ \A i \in 1 .. Len(B) : B[i].role # "assistant"
      /\ B # <<>> => Len(B) = 1 /\ B[1].role = "block" /\ B[1].shows = block
  <2>1. CASE B = <<>>
    BY <2>1, WholeNone
  <2>2. CASE B = <<Msg("block", "", 0, block)>>
    <3>1. PICK e : e = Msg("block", "", 0, block)
      OBVIOUS
    <3>2. e \in Messages /\ e.role = "block" /\ e.shows = block
      <4>1. "" \in Sayings
        BY DEF Sayings
      <4> QED
        BY <3>1, <4>1 DEF Messages, Msg
    <3>3. B \in Seq(Messages) /\ Whole(B)
      BY <2>2, <3>1, <3>2, WholeOne
    <3>4. Len(B) = 1 /\ B[1] = e
      BY <2>2, <3>1
    <3> QED
      BY <3>2, <3>3, <3>4
  <2> QED
    BY <2>1, <2>2 DEF IsShow
<1> QED
  BY <1>1, <1>3, <1>4, <1>5, <1>6, <1>7

Added(a, u, b) == Asked(a) \o u \o b
LEMMA TurnIs ==
  ASSUME NEW a \in DOMAIN Asks, NEW block \in Seq(Known), NEW U, IsWarning(U), NEW B, IsShow(B, block),
         NEW x, x = Added(a, U, B)
  PROVE  /\ Turn(x, a)
         /\ B = <<>> => \A i \in 1 .. Len(x) : x[i].role # "block"
         /\ B # <<>> => x[Len(x)].role = "block" /\ x[Len(x)].shows = block
<1>1. PICK T : T = Asked(a)
  OBVIOUS
<1>3. /\ Len(T) = 3 /\ T[1] = Msg("assistant", a, 0, <<>>) /\ T[2] = Msg("tool", a, 1, <<>>) /\ T[3] = Msg("tool", a, 2, <<>>)
  BY <1>1, PartsAre
<1>4. T \in Seq(Messages)
  BY <1>1, PartsAre
<1>5. Whole(T)
  BY <1>1, PartsAre
<1>6. U \in Seq(Messages) /\ Whole(U) /\ Len(U) \in Nat /\ \A i \in 1 .. Len(U) : U[i].role \notin {"assistant", "block"}
  BY PartsAre
<1>7. /\ B \in Seq(Messages) /\ Whole(B) /\ Len(B) \in Nat /\ \A i \in 1 .. Len(B) : B[i].role # "assistant"
      /\ B # <<>> => Len(B) = 1 /\ B[1].role = "block" /\ B[1].shows = block
  BY PartsAre
<1>8. PICK V : V = T \o U
  OBVIOUS
<1>9. /\ V \in Seq(Messages) /\ Len(V) = 3 + Len(U)
      /\ \A i \in 1 .. 3 : V[i] = T[i]
      /\ \A i \in 4 .. 3 + Len(U) : V[i] = U[i - 3]
  <2>1. /\ V \in Seq(Messages) /\ Len(V) = Len(T) + Len(U) /\ \A i \in 1 .. Len(T) : V[i] = T[i]
        /\ \A i \in Len(T) + 1 .. Len(T) + Len(U) : V[i] = U[i - Len(T)]
    BY <1>4, <1>6, <1>8, JoinedIs
  <2>2. Len(T) = 3 /\ Len(T) + 1 = 4
    BY <1>3
  <2> QED
    BY <2>1, <2>2
<1>10. x = V \o B
  BY <1>1, <1>8 DEF Added
<1>11. /\ x \in Seq(Messages) /\ Len(x) = Len(V) + Len(B)
       /\ \A i \in 1 .. Len(V) : x[i] = V[i]
       /\ \A i \in Len(V) + 1 .. Len(V) + Len(B) : x[i] = B[i - Len(V)]
  <2>1. V \in Seq(Messages) /\ B \in Seq(Messages)
    BY <1>7, <1>9
  <2> QED
    BY <1>10, <2>1, JoinedIs
<1>12. Whole(x)
  <2>1. Whole(V)
    BY <1>4, <1>5, <1>6, <1>8, WholeJoin
  <2> QED
    BY <1>7, <1>9, <1>10, <2>1, WholeJoin
<1>13. x[1].role = "assistant" /\ x[1].ask = a /\ x[2].role = "tool" /\ x[3].role = "tool"
  <2>1. \A i \in 1 .. 3 : i \in 1 .. Len(V) /\ x[i] = T[i]
    <3>1. \A i \in 1 .. 3 : i \in 1 .. Len(V)
      BY <1>6, <1>9
    <3> QED
      BY <1>9, <1>11, <3>1
  <2>2. x[1] = T[1] /\ x[2] = T[2] /\ x[3] = T[3]
    <3>1. 1 \in 1 .. 3 /\ 2 \in 1 .. 3 /\ 3 \in 1 .. 3
      OBVIOUS
    <3>2. \A i \in 1 .. 3 : x[i] = T[i]
      BY <2>1
    <3> QED
      BY <3>1, <3>2, Zenon
  <2> QED
    BY <1>3, <2>2 DEF Msg
<1>14. ASSUME NEW i \in 4 .. 3 + Len(U) PROVE x[i].role \notin {"assistant", "block"}
  <2>1. x[i] = U[i - 3] /\ i - 3 \in 1 .. Len(U)
    BY <1>6, <1>9, <1>11
  <2> QED
    BY <1>6, <2>1
<1>15. ASSUME NEW i \in 4 + Len(U) .. 3 + Len(U) + Len(B) PROVE x[i] = B[i - Len(V)] /\ i - Len(V) \in 1 .. Len(B)
  BY <1>6, <1>7, <1>9, <1>11
<1>16. \A i \in 1 .. Len(x) : i \in {1, 2, 3} \/ i \in 4 .. 3 + Len(U) \/ i \in 4 + Len(U) .. 3 + Len(U) + Len(B)
  BY <1>6, <1>7, <1>9, <1>11
<1>17. Turn(x, a)
  <2>1. ASSUME NEW i \in 2 .. Len(x) PROVE x[i].role # "assistant"
    <3>1. i \in 1 .. Len(x) /\ i # 1
      OBVIOUS
    <3> QED
      BY <1>7, <1>13, <1>14, <1>15, <1>16, <3>1
  <2>2. Len(x) >= 3
    BY <1>6, <1>7, <1>9, <1>11
  <2> QED
    BY <1>11, <1>12, <1>13, <2>1, <2>2 DEF Turn
<1>18. ASSUME B = <<>>, NEW i \in 1 .. Len(x) PROVE x[i].role # "block"
  <2>1. Len(B) = 0
    BY <1>18
  <2>2. i \in {1, 2, 3} \/ i \in 4 .. 3 + Len(U)
    BY <1>6, <1>16, <2>1
  <2> QED
    BY <1>13, <1>14, <2>2
<1>19. ASSUME B # <<>> PROVE x[Len(x)].role = "block" /\ x[Len(x)].shows = block
  <2>1. Len(B) = 1 /\ Len(x) \in 4 + Len(U) .. 3 + Len(U) + Len(B) /\ Len(x) - Len(V) = 1
    BY <1>6, <1>7, <1>9, <1>11, <1>19
  <2>2. x[Len(x)] = B[1]
    BY <1>15, <2>1
  <2> QED
    BY <1>7, <1>19, <2>2
<1> QED
  BY <1>17, <1>18, <1>19

\* The calls of one round that name t.
CallsOf(a, t) == Cardinality({i \in 1 .. 2 : Asks[a][i].tool = t})
LEMMA CallsAreCounted ==
  ASSUME NEW a, NEW t
  PROVE  CallsOf(a, t) \in Nat /\ (CallsOf(a, t) # 0 => \E i \in 1 .. 2 : Asks[a][i].tool = t)
<1>1. PICK C : C = {i \in 1 .. 2 : Asks[a][i].tool = t}
  OBVIOUS
<1>2. C \subseteq 1 .. 2
  BY <1>1
<1>3. Cardinality(C) \in Nat
  BY <1>2, WithinFinite
<1>4. C = {} => Cardinality(C) = 0
  BY FS_EmptySet
<1> QED
  BY <1>1, <1>3, <1>4 DEF CallsOf

LEMMA RecordIs ==
  ASSUME ConversationInv, NEW a \in DOMAIN Asks, NEW extra, NEW t \in Tools
  PROVE  /\ Record(a, extra)[t] = named[t] + CallsOf(a, t) + (IF t \in extra THEN 1 ELSE 0)
         /\ named[t] \in Nat /\ used[t] \in Nat /\ used[t] <= named[t] /\ CallsOf(a, t) \in Nat
<1>1. named[t] \in Nat /\ used[t] \in Nat
  BY DEF ConversationInv, ConversationTypes
<1>2. used[t] <= named[t]
  BY DEF ConversationInv, Allowed
<1>3. Record(a, extra)[t] = named[t] + CallsOf(a, t) + (IF t \in extra THEN 1 ELSE 0)
  BY DEF Record, CallsOf
<1> QED
  BY <1>1, <1>2, <1>3, CallsAreCounted

\* A round keeps to the allowances, or the brakes say so.
LEMMA RoundAllowed ==
  ASSUME ConversationInv, phase = "gate", NEW a \in DOMAIN Asks, NEW extra, extra \subseteq Tools,
         cut' = Cut(a), seen' = [seen EXCEPT ![a] = @ + 1], named' = Record(a, extra), phase' = "guards",
         used' = [t \in Tools |-> used[t] + CallsOf(a, t) + (IF t \in extra \ Refused(a, extra) THEN 1 ELSE 0)]
  PROVE  /\ seen' \in [DOMAIN Asks -> Nat] /\ named' \in [Tools -> Nat] /\ used' \in [Tools -> Nat]
         /\ cut' \in {"none", "warn", "cap", "repeat"} /\ Allowed'
<1>1. seen \in [DOMAIN Asks -> Nat]
  BY DEF ConversationInv, ConversationTypes
<1>2. seen' \in [DOMAIN Asks -> Nat]
  BY <1>1
<1>3. ASSUME NEW t \in Tools
      PROVE  /\ named'[t] = named[t] + CallsOf(a, t) + (IF t \in extra THEN 1 ELSE 0)
             /\ used'[t] = used[t] + CallsOf(a, t) + (IF t \in extra \ Refused(a, extra) THEN 1 ELSE 0)
             /\ named'[t] \in Nat /\ used'[t] \in Nat /\ used'[t] <= named'[t]
  <2>1. /\ named'[t] = named[t] + CallsOf(a, t) + (IF t \in extra THEN 1 ELSE 0)
        /\ named[t] \in Nat /\ used[t] \in Nat /\ used[t] <= named[t] /\ CallsOf(a, t) \in Nat
    <3>1. PICK R : R = Record(a, extra)
      OBVIOUS
    <3>2. named' = R
      BY <3>1
    <3>3. R[t] = named[t] + CallsOf(a, t) + (IF t \in extra THEN 1 ELSE 0)
      BY <3>1 DEF Record, CallsOf
    <3>4. named[t] \in Nat /\ used[t] \in Nat /\ used[t] <= named[t] /\ CallsOf(a, t) \in Nat
      BY RecordIs
    <3> QED
      BY <3>2, <3>3, <3>4
  <2>2. used'[t] = used[t] + CallsOf(a, t) + (IF t \in extra \ Refused(a, extra) THEN 1 ELSE 0)
    OBVIOUS
  <2>3. t \in extra \ Refused(a, extra) => t \in extra
    OBVIOUS
  <2> QED
    BY <2>1, <2>2, <2>3
<1>4. named' \in [Tools -> Nat]
  <2>1. DOMAIN named' = Tools /\ named' = [t \in Tools |-> named'[t]]
    BY DEF Record
  <2> QED
    BY <1>3, <2>1
<1>5. used' \in [Tools -> Nat]
  <2>1. used' = [t \in Tools |-> used'[t]]
    OBVIOUS
  <2> QED
    BY <1>3, <2>1
<1>6. cut' \in {"none", "warn", "cap", "repeat"}
  BY DEF Cut
<1>7. ASSUME cut' \in {"none", "warn"}
      PROVE  ~CapHit(a) /\ ~(seen[a] + 1 >= AbortCount)
  BY <1>7 DEF Cut
<1>8. ASSUME cut' \in {"none", "warn"}, NEW b \in DOMAIN Asks PROVE seen'[b] < AbortCount
  <2>1. seen[b] < AbortCount /\ seen[b] \in Nat /\ AbortCount \in Nat
    BY <1>1, ConversationAssumption DEF ConversationInv, Allowed
  <2>2. CASE b = a
    BY <1>1, <1>7, <1>8, <2>1, <2>2
  <2>3. CASE b # a
    BY <1>1, <2>1, <2>3
  <2> QED
    BY <2>2, <2>3
<1>9. ASSUME cut' \in {"none", "warn"}, NEW t \in Tools PROVE used'[t] <= ToolLoopCap
  <2>1. /\ named[t] \in Nat /\ used[t] \in Nat /\ used[t] <= named[t] /\ CallsOf(a, t) \in Nat
        /\ Record(a, {})[t] = named[t] + CallsOf(a, t) + (IF t \in {} THEN 1 ELSE 0)
        /\ Record(a, {t})[t] = named[t] + CallsOf(a, t) + (IF t \in {t} THEN 1 ELSE 0)
    BY RecordIs
  <2>2. Record(a, {})[t] = named[t] + CallsOf(a, t) /\ Record(a, {t})[t] = named[t] + CallsOf(a, t) + 1
    BY <2>1
  <2>3. used[t] <= ToolLoopCap /\ ToolLoopCap \in Nat
    BY ConversationAssumption DEF ConversationInv, Allowed
  <2>4. CASE t \in extra \ Refused(a, extra)
    <3>1. ~(Record(a, {t})[t] > ToolLoopCap)
      BY <2>4 DEF Refused
    <3> QED
      BY <1>3, <2>1, <2>2, <2>3, <2>4, <3>1
  <2>5. CASE t \notin extra \ Refused(a, extra) /\ CallsOf(a, t) # 0
    <3>1. PICK i \in 1 .. 2 : Asks[a][i].tool = t
      BY <2>5, CallsAreCounted
    <3>2. ~(Record(a, {})[t] >= ToolLoopCap)
      BY <1>7, <1>9, <3>1 DEF CapHit
    <3> QED
      BY <1>3, <2>1, <2>2, <2>3, <2>5, <3>2
  <2>6. CASE t \notin extra \ Refused(a, extra) /\ CallsOf(a, t) = 0
    BY <1>3, <2>1, <2>3, <2>6
  <2> QED
    BY <2>4, <2>5, <2>6
<1>10. Allowed'
  BY <1>3, <1>8, <1>9 DEF Allowed
<1> QED
  BY <1>2, <1>4, <1>5, <1>6, <1>10

LEMMA RoundShown ==
  ASSUME ConversationInv, NEW x, msgs' = msgs \o x, x \in Seq(Messages), NEW B, B = syncLoaded(loaded'),
         Len(x) >= 3, loaded' \in Seq(Known), loaded' = <<>> => loaded = <<>>,
         lastLoaded' = IF loaded' = <<>> THEN lastLoaded ELSE loaded',
         B = <<>> => \A i \in 1 .. Len(x) : x[i].role # "block",
         B # <<>> => x[Len(x)].role = "block" /\ x[Len(x)].shows = loaded'
  PROVE  Shown' /\ lastLoaded' \in Seq(Known)
<1>1. msgs \in Seq(Messages) /\ loaded \in Seq(Known) /\ lastLoaded \in Seq(Known)
  BY DEF ConversationInv, ConversationTypes
<1>2. /\ msgs' \in Seq(Messages) /\ Len(msgs') = Len(msgs) + Len(x) /\ Len(msgs) \in Nat /\ Len(x) \in Nat
      /\ DOMAIN msgs = 1 .. Len(msgs) /\ DOMAIN msgs' = 1 .. Len(msgs) + Len(x)
      /\ \A i \in 1 .. Len(msgs) : msgs'[i] = msgs[i]
      /\ \A i \in Len(msgs) + 1 .. Len(msgs) + Len(x) : msgs'[i] = x[i - Len(msgs)]
  BY <1>1, JoinedIs
<1>3. lastLoaded \in {<<>>, loaded}
  BY DEF ConversationInv, Shown
<1>6. lastLoaded' \in {<<>>, loaded'}
  <2>1. CASE loaded' = <<>>
    BY <1>3, <2>1
  <2>2. CASE loaded' # <<>>
    BY <2>2
  <2> QED
    BY <2>1, <2>2
<1>7. lastLoaded' \in Seq(Known)
  BY <1>1
<1>8. ASSUME B = <<>> PROVE loaded' = loaded
  <2>1. CASE loaded' = <<>>
    BY <2>1
  <2>2. CASE loaded' # <<>>
    <3>1. loaded' = lastLoaded
      <4>1. SUFFICES ASSUME loaded' # lastLoaded PROVE FALSE
        OBVIOUS
      <4>2. PICK e : e = Msg("block", "", 0, loaded')
        OBVIOUS
      <4>3. B = <<e>>
        BY <2>2, <4>1, <4>2 DEF syncLoaded
      <4> QED
        BY <1>8, <4>3
    <3> QED
      BY <1>3, <2>2, <3>1
  <2> QED
    BY <2>1, <2>2
<1>9. ASSUME NEW i \in DOMAIN msgs', IsLast(i)' PROVE msgs'[i].shows = loaded'
  <2>1. msgs'[i].role = "block" /\ \A j \in DOMAIN msgs' : j > i => msgs'[j].role # "block"
    BY <1>9 DEF IsLast
  <2>2. CASE B # <<>>
    <3>1. PICK n : n = Len(msgs) + Len(x)
      OBVIOUS
    <3>2. n \in Len(msgs) + 1 .. Len(msgs) + Len(x) /\ n - Len(msgs) = Len(x) /\ n \in DOMAIN msgs' /\ n \in Nat
      BY <1>2, <3>1
    <3>3. msgs'[n] = x[Len(x)]
      BY <1>2, <3>2
    <3>4. ~(n > i)
      BY <2>1, <2>2, <3>2, <3>3
    <3>5. i = n
      BY <1>2, <3>1, <3>4
    <3> QED
      BY <2>2, <3>3, <3>5
  <2>3. CASE B = <<>>
    <3>1. ~(i \in Len(msgs) + 1 .. Len(msgs) + Len(x))
      <4>1. SUFFICES ASSUME i \in Len(msgs) + 1 .. Len(msgs) + Len(x) PROVE FALSE
        OBVIOUS
      <4>2. i - Len(msgs) \in 1 .. Len(x) /\ msgs'[i] = x[i - Len(msgs)]
        BY <1>2, <4>1
      <4> QED
        BY <2>1, <2>3, <4>2
    <3>2. i \in 1 .. Len(msgs)
      BY <1>2, <3>1
    <3>3. ASSUME NEW j \in DOMAIN msgs, j > i PROVE msgs[j].role # "block"
      <4>1. j \in DOMAIN msgs' /\ msgs'[j] = msgs[j]
        BY <1>2
      <4> QED
        BY <2>1, <3>3, <4>1
    <3>4. IsLast(i)
      BY <1>2, <2>1, <3>2, <3>3 DEF IsLast
    <3>5. msgs[i].shows = loaded
      BY <1>2, <3>2, <3>4 DEF ConversationInv, Shown
    <3> QED
      BY <1>2, <1>8, <2>3, <3>2, <3>5
  <2> QED
    BY <2>2, <2>3
<1> QED
  BY <1>6, <1>7, <1>9 DEF Shown

LEMMA RoundStep == ConversationInv /\ Round => ConversationInv'
<1>1. SUFFICES ASSUME ConversationInv, Round PROVE ConversationInv'
  OBVIOUS
<1>2. PICK a : a = resp
  OBVIOUS
<1>3. PICK bad \in {{}, {1}}, extra \in {{}} \cup {{t} : t \in PluginCalls} :
        LET both == Asks[resp]
            spent == extra \ Refused(resp, extra)
            fails == [t \in Tools |-> failures[t] + Cardinality({i \in bad : both[i].tool = t})]
            warned == {t \in Tools : failures[t] < FailWarn /\ fails[t] >= FailWarn}
            block == Loads(resp)
        IN /\ phase = "gate" /\ resp # Answer /\ round < MaxToolRounds
           /\ extra # {} => \E i \in 1 .. 2 : both[i].tool = "plug"
           /\ streak' = repeatedCallStreak(resp) /\ cut' = Cut(resp)
           /\ seen' = [seen EXCEPT ![resp] = @ + 1] /\ named' = Record(resp, extra) /\ failures' = fails
           /\ used' = [t \in Tools |-> used[t] + Cardinality({i \in 1 .. 2 : both[i].tool = t}) + (IF t \in spent THEN 1 ELSE 0)]
           /\ made' = Append(made, resp)
           /\ loaded' = block /\ lastLoaded' = (IF block = <<>> THEN lastLoaded ELSE block)
           /\ msgs' = msgs \o <<Msg("assistant", resp, 0, <<>>), Msg("tool", resp, 1, <<>>), Msg("tool", resp, 2, <<>>)>>
                           \o (IF warned = {} THEN <<>> ELSE <<User("failing")>>) \o syncLoaded(block)
           /\ phase' = "guards"
           /\ UNCHANGED <<taskStart, round, resp, stop, compactions, checkpoint, suspends>>
  BY <1>1, Zenon DEF Round
<1>4. PICK warned :
          /\ phase = "gate" /\ resp # Answer /\ round < MaxToolRounds
          /\ streak' = repeatedCallStreak(a) /\ cut' = Cut(a)
          /\ seen' = [seen EXCEPT ![a] = @ + 1] /\ named' = Record(a, extra)
          /\ used' = [t \in Tools |-> used[t] + CallsOf(a, t) + (IF t \in extra \ Refused(a, extra) THEN 1 ELSE 0)]
          /\ made' = Append(made, a)
          /\ loaded' = Loads(a) /\ lastLoaded' = (IF Loads(a) = <<>> THEN lastLoaded ELSE Loads(a))
          /\ msgs' = msgs \o Asked(a) \o (IF warned = {} THEN <<>> ELSE <<User("failing")>>) \o syncLoaded(Loads(a))
          /\ phase' = "guards"
          /\ UNCHANGED <<taskStart, round, resp, stop, compactions, checkpoint, suspends>>
  BY <1>2, <1>3 DEF CallsOf, Asked
<1>5. a \in DOMAIN Asks
  <2>1. resp \in Responses
    BY <1>1 DEF ConversationInv, ConversationTypes
  <2> QED
    BY <1>2, <1>4, <2>1 DEF Responses
<1>6. extra \subseteq Tools
  BY ConversationAssumption
<1>7. loaded \in Seq(Known) /\ msgs \in Seq(Messages) /\ made \in Seq(DOMAIN Asks)
  BY <1>1 DEF ConversationInv, ConversationTypes
<1>8. loaded' \in Seq(Known) /\ Len(loaded') <= MaxLoaded /\ (loaded' = <<>> => loaded = <<>>)
  BY <1>4, <1>5, <1>7, LoadsIs
<1>9. PICK U : U = IF warned = {} THEN <<>> ELSE <<User("failing")>>
  OBVIOUS
<1>10. IsWarning(U)
  BY <1>9 DEF IsWarning
<1>11. PICK B : B = syncLoaded(loaded')
  OBVIOUS
<1>12. IsShow(B, loaded')
  BY <1>11 DEF IsShow, syncLoaded
<1>13. PICK x : x = Added(a, U, B)
  OBVIOUS
<1>14. /\ Turn(x, a)
       /\ B = <<>> => \A i \in 1 .. Len(x) : x[i].role # "block"
       /\ B # <<>> => x[Len(x)].role = "block" /\ x[Len(x)].shows = loaded'
  <2>1. PICK block : block = loaded'
    OBVIOUS
  <2>2. block \in Seq(Known) /\ IsShow(B, block)
    BY <1>8, <1>12, <2>1
  <2>3. /\ Turn(x, a)
        /\ B = <<>> => \A i \in 1 .. Len(x) : x[i].role # "block"
        /\ B # <<>> => x[Len(x)].role = "block" /\ x[Len(x)].shows = block
    BY <1>5, <1>10, <1>13, <2>2, TurnIs
  <2> QED
    BY <2>1, <2>3
<1>15. msgs' = msgs \o x
  <2>1. Asked(a) \in Seq(Messages) /\ U \in Seq(Messages) /\ B \in Seq(Messages)
    BY <1>5, <1>8, <1>10, <1>12, PartsAre
  <2>2. PICK A : A = Asked(a)
    OBVIOUS
  <2>3. msgs' = ((msgs \o A) \o U) \o B
    BY <1>4, <1>9, <1>11, <2>2
  <2>4. msgs \o A \in Seq(Messages) /\ A \o U \in Seq(Messages) /\ A \in Seq(Messages)
    BY <1>7, <2>1, <2>2, JoinedIs
  <2>5. (msgs \o A) \o U = msgs \o (A \o U)
    <3>1. msgs \in Seq(Messages) /\ A \in Seq(Messages) /\ U \in Seq(Messages)
      BY <1>7, <2>1, <2>4
    <3> QED
      BY <3>1, JoinedAgain
  <2>6. (msgs \o (A \o U)) \o B = msgs \o ((A \o U) \o B)
    <3>1. PICK V : V = A \o U
      OBVIOUS
    <3>2. msgs \in Seq(Messages) /\ V \in Seq(Messages) /\ B \in Seq(Messages)
      BY <1>7, <2>1, <2>4, <3>1
    <3>3. (msgs \o V) \o B = msgs \o (V \o B)
      BY <3>2, JoinedAgain
    <3> QED
      BY <3>1, <3>3
  <2> QED
    BY <1>13, <2>2, <2>3, <2>5, <2>6 DEF Added
<1>16. x \in Seq(Messages) /\ Len(x) >= 3
  BY <1>14 DEF Turn
<1>17. /\ msgs' \in Seq(Messages) /\ taskStart' \in 1 .. Len(msgs') /\ made' \in Seq(DOMAIN Asks)
       /\ Len(made') = Len(made) + 1 /\ Framed' /\ Paired' /\ AsksWereMade'
  BY <1>1, <1>4, <1>5, <1>14, <1>15, AddsTurn
<1>18. streak' \in Nat /\ StreakIsOwn'
  BY <1>1, <1>4, <1>5, StreakWithin
<1>19. /\ seen' \in [DOMAIN Asks -> Nat] /\ named' \in [Tools -> Nat] /\ used' \in [Tools -> Nat]
       /\ cut' \in {"none", "warn", "cap", "repeat"} /\ Allowed'
  BY <1>1, <1>4, <1>5, <1>6, RoundAllowed
<1>20. Shown' /\ lastLoaded' \in Seq(Known)
  <2>1. lastLoaded' = IF loaded' = <<>> THEN lastLoaded ELSE loaded'
    BY <1>4
  <2> QED
    BY <1>1, <1>8, <1>11, <1>14, <1>15, <1>16, <2>1, RoundShown
<1>21. RoundsCounted'
  <2>1. Len(made) = round /\ Len(made) \in Nat /\ round \in Nat /\ MaxToolRounds \in Nat
    <3>1. Len(made) = round
      BY <1>1, <1>4 DEF ConversationInv, RoundsCounted
    <3>2. Len(made) \in Nat
      BY <1>7
    <3>3. MaxToolRounds \in Nat
      BY ConversationAssumption
    <3> QED
      BY <3>1, <3>2, <3>3
  <2>2. Len(made') <= MaxToolRounds /\ Len(made') = round' + 1
    BY <1>4, <1>17, <2>1
  <2> QED
    BY <1>4, <2>2 DEF RoundsCounted
<1>22. Kept'
  BY <1>4 DEF Kept
<1>23. ConversationTypes'
  <2>1. /\ round' \in 0 .. MaxToolRounds /\ resp' \in Responses
        /\ stop' \in {"", "cap", "repeat", "max_rounds", "completed"} /\ phase' \in Phases
    BY <1>1, <1>4 DEF ConversationInv, ConversationTypes, Phases
  <2> QED
    BY <1>8, <1>17, <1>18, <1>19, <1>20, <2>1 DEF ConversationTypes
<1> QED
  BY <1>17, <1>18, <1>19, <1>20, <1>21, <1>22, <1>23 DEF ConversationInv

\* What the loop says to the model is a remark.
LEMMA SayingIs ==
  ASSUME NEW w \in {"repeating", "closing"}
  PROVE  Remark(<<User(w)>>) /\ Remark(<<>>)
<1>1. PICK e : e = User(w)
  OBVIOUS
<1>2. e \in Messages /\ e.role = "user"
  <2>1. w \in Sayings
    BY DEF Sayings
  <2>2. <<>> \in Seq(Known)
    OBVIOUS
  <2> QED
    BY <1>1, <2>1, <2>2 DEF Messages, User, Msg
<1>3. <<e>> \in Seq(Messages) /\ Whole(<<e>>)
  BY <1>2, WholeOne
<1>4. Len(<<e>>) = 1 /\ <<e>>[1] = e
  OBVIOUS
<1>5. Remark(<<e>>)
  BY <1>2, <1>3, <1>4 DEF Remark
<1>6. Remark(<<>>)
  BY WholeNone DEF Remark
<1> QED
  BY <1>1, <1>5, <1>6

LEMMA CountsAre ==
  ASSUME ConversationInv
  PROVE  round \in Nat /\ MaxToolRounds \in Nat /\ round <= MaxToolRounds /\ Len(made) \in Nat /\ Len(made) <= MaxToolRounds
<1>1. round \in 0 .. MaxToolRounds /\ made \in Seq(DOMAIN Asks)
  BY DEF ConversationInv, ConversationTypes
<1>2. Len(made) <= MaxToolRounds
  BY DEF ConversationInv, RoundsCounted
<1>3. MaxToolRounds \in Nat
  BY ConversationAssumption
<1> QED
  BY <1>1, <1>2, <1>3

LEMMA GoOnStep == ConversationInv /\ GoOn => ConversationInv'
<1>1. SUFFICES ASSUME ConversationInv, GoOn PROVE ConversationInv'
  OBVIOUS
<1>2. PICK x : x = IF cut = "warn" THEN <<User("repeating")>> ELSE <<>>
  OBVIOUS
<1>3. /\ phase = "guards" /\ cut \in {"none", "warn"} /\ msgs' = msgs \o x
      /\ resp' \in Responses /\ round' = round + 1 /\ phase' = "compact"
      /\ UNCHANGED <<taskStart, lastLoaded, loaded, stop, seen, named, cut, made, streak, used>>
  BY <1>1, <1>2 DEF GoOn, guardVars
<1>4. Remark(x)
  <2>1. Remark(<<User("repeating")>>) /\ Remark(<<>>)
    BY SayingIs
  <2> QED
    BY <1>2, <2>1
<1>5. /\ msgs' \in Seq(Messages) /\ taskStart' \in 1 .. Len(msgs')
      /\ Framed' /\ Paired' /\ AsksWereMade' /\ StreakIsOwn' /\ Shown'
  <2>1. UNCHANGED <<taskStart, lastLoaded, loaded, made, streak>>
    BY <1>3
  <2> QED
    BY <1>1, <1>3, <1>4, <2>1, AddsRemark
<1>6. RoundsCounted' /\ round' \in 0 .. MaxToolRounds
  <2>1. Len(made) = round + 1
    BY <1>1, <1>3 DEF ConversationInv, RoundsCounted
  <2>2. round \in Nat /\ MaxToolRounds \in Nat /\ Len(made) <= MaxToolRounds /\ made' = made
    BY <1>1, <1>3, CountsAre
  <2> QED
    BY <1>3, <2>1, <2>2 DEF RoundsCounted
<1>7. Allowed'
  BY <1>1, <1>3 DEF ConversationInv, Allowed
<1>8. Kept'
  BY <1>3 DEF Kept
<1>9. ConversationTypes'
  BY <1>1, <1>3, <1>5, <1>6 DEF ConversationInv, ConversationTypes, Phases
<1> QED
  BY <1>5, <1>6, <1>7, <1>8, <1>9 DEF ConversationInv

LEMMA FinalStep == ConversationInv /\ generateFinalStep => ConversationInv'
<1>1. SUFFICES ASSUME ConversationInv, generateFinalStep PROVE ConversationInv'
  OBVIOUS
<1>2. PICK e : e = User("closing")
  OBVIOUS
<1>3. /\ msgs' = Append(msgs, e) /\ resp' = Answer /\ phase' = "done"
      /\ UNCHANGED <<taskStart, lastLoaded, loaded, round, stop, seen, named, cut, made, streak, used>>
  BY <1>1, <1>2 DEF generateFinalStep, guardVars
<1>4. Remark(<<e>>)
  BY <1>2, SayingIs
<1>5. msgs' = msgs \o <<e>>
  <2>1. msgs \in Seq(Messages)
    BY <1>1 DEF ConversationInv, ConversationTypes
  <2> QED
    BY <1>3, <2>1
<1>6. /\ msgs' \in Seq(Messages) /\ taskStart' \in 1 .. Len(msgs')
      /\ Framed' /\ Paired' /\ AsksWereMade' /\ StreakIsOwn' /\ Shown'
  <2>1. UNCHANGED <<taskStart, lastLoaded, loaded, made, streak>>
    BY <1>3
  <2> QED
    BY <1>1, <1>4, <1>5, <2>1, AddsRemark
<1>7. RoundsCounted'
  BY <1>1, <1>3, CountsAre DEF RoundsCounted
<1>8. Allowed'
  BY <1>1, <1>3 DEF ConversationInv, Allowed
<1>9. Kept'
  BY <1>3 DEF Kept
<1>10. ConversationTypes'
  <2>1. resp' \in Responses /\ phase' \in Phases
    BY <1>3 DEF Responses, Phases
  <2> QED
    BY <1>1, <1>3, <1>6, <2>1 DEF ConversationInv, ConversationTypes
<1> QED
  BY <1>6, <1>7, <1>8, <1>9, <1>10 DEF ConversationInv

\* Steps that only end, break off or set aside what there is.
LEMMA EndingStep ==
  ConversationInv /\ (Break \/ Exhausted \/ Completed \/ Fails \/ checkSuspend) => ConversationInv'
<1>1. SUFFICES ASSUME ConversationInv, Break \/ Exhausted \/ Completed \/ Fails \/ checkSuspend PROVE ConversationInv'
  OBVIOUS
<1>2. /\ UNCHANGED <<msgs, taskStart, lastLoaded, loaded, round, resp, seen, named, cut, made, streak, used>>
      /\ stop' = stop \/ stop' \in {"cap", "repeat", "max_rounds", "completed"}
      /\ phase' \in {"closing", "done", "failed"} \/ (phase = "gate" /\ phase' = "suspended")
  <2>1. CASE Break
    BY <2>1 DEF Break, guardVars
  <2>2. CASE Exhausted
    BY <2>2 DEF Exhausted, guardVars
  <2>3. CASE Completed
    BY <2>3 DEF Completed, guardVars
  <2>4. CASE Fails
    BY <2>4 DEF Fails, guardVars
  <2>5. CASE checkSuspend
    BY <2>5 DEF checkSuspend, guardVars
  <2> QED
    BY <1>1, <2>1, <2>2, <2>3, <2>4, <2>5
<1>3. Framed' /\ Paired' /\ AsksWereMade' /\ StreakIsOwn' /\ Shown'
  BY <1>1, <1>2, SameExchange
<1>4. RoundsCounted'
  BY <1>1, <1>2 DEF ConversationInv, RoundsCounted
<1>5. Allowed'
  BY <1>1, <1>2 DEF ConversationInv, Allowed
<1>6. Kept'
  <2>1. CASE checkSuspend
    BY <1>2, <2>1 DEF checkSuspend, Kept
  <2>2. CASE Break \/ Exhausted \/ Completed \/ Fails
    <3>1. phase' # "suspended"
      BY <2>2 DEF Break, Exhausted, Completed, Fails
    <3> QED
      BY <3>1 DEF Kept
  <2> QED
    BY <1>1, <2>1, <2>2
<1>7. ConversationTypes'
  <2>1. phase' \in Phases /\ stop' \in {"", "cap", "repeat", "max_rounds", "completed"}
    BY <1>1, <1>2 DEF ConversationInv, ConversationTypes, Phases
  <2> QED
    BY <1>1, <1>2, <2>1 DEF ConversationInv, ConversationTypes
<1> QED
  BY <1>3, <1>4, <1>5, <1>6, <1>7 DEF ConversationInv

LEMMA RestoreStep == ConversationInv /\ restoreConversation => ConversationInv'
<1>1. SUFFICES ASSUME ConversationInv, restoreConversation PROVE ConversationInv'
  OBVIOUS
<1>2. /\ phase = "suspended" /\ phase' = "gate" /\ lastLoaded' = <<>> /\ cut' = "none"
      /\ seen' = [a \in DOMAIN Asks |-> 0] /\ named' = [t \in Tools |-> 0] /\ used' = [t \in Tools |-> 0]
      /\ UNCHANGED <<stop, streak, made>>
      /\ UNCHANGED <<msgs, taskStart, loaded, round, resp>>
  <2>1. checkpoint = [msgs |-> msgs, taskStart |-> taskStart, loaded |-> loaded, round |-> round, calls |-> resp]
    BY <1>1 DEF ConversationInv, Kept, restoreConversation
  <2>2. /\ checkpoint.msgs = msgs /\ checkpoint.taskStart = taskStart /\ checkpoint.loaded = loaded
        /\ checkpoint.round = round /\ checkpoint.calls = resp
    BY <2>1
  <2> QED
    BY <1>1, <2>2 DEF restoreConversation, ResumedRound
<1>3. Framed' /\ Paired' /\ AsksWereMade' /\ StreakIsOwn' /\ Shown'
  BY <1>1, <1>2, SameExchange
<1>4. RoundsCounted'
  BY <1>1, <1>2 DEF ConversationInv, RoundsCounted
<1>5. Allowed'
  <2>1. 0 < AbortCount /\ 0 <= ToolLoopCap /\ 0 <= 0
    BY ConversationAssumption
  <2>2. \A t \in Tools : used'[t] = 0 /\ named'[t] = 0
    BY <1>2
  <2>3. \A a \in DOMAIN Asks : seen'[a] = 0
    BY <1>2
  <2> QED
    BY <2>1, <2>2, <2>3 DEF Allowed
<1>6. Kept'
  BY <1>2 DEF Kept
<1>7. ConversationTypes'
  <2>1. seen' \in [DOMAIN Asks -> Nat] /\ named' \in [Tools -> Nat] /\ used' \in [Tools -> Nat] /\ phase' \in Phases
    BY <1>2 DEF Phases
  <2>2. lastLoaded' \in Seq(Known)
    BY <1>2
  <2> QED
    BY <1>1, <1>2, <2>1, <2>2 DEF ConversationInv, ConversationTypes
<1> QED
  BY <1>3, <1>4, <1>5, <1>6, <1>7 DEF ConversationInv

\* Where the kept tail begins.
LEMMA SplitIs ==
  ASSUME NEW m \in Seq(Messages), compactionSplit(m) # 0
  PROVE  compactionSplit(m) \in 2 .. Len(m) /\ m[compactionSplit(m)].role # "tool"
<1>1. PICK from : from = Len(m) - PreserveTail + 1
  OBVIOUS
<1>2. PICK at : at = {i \in 2 .. from : m[i].role # "tool" /\ \A j \in i + 1 .. from : m[j].role = "tool"}
  OBVIOUS
<1>3. compactionSplit(m) = IF Len(m) < 4 \/ at = {} \/ at = {2} THEN 0 ELSE CHOOSE i \in at : TRUE
  BY <1>1, <1>2 DEF compactionSplit
<1>4. at # {} /\ compactionSplit(m) = CHOOSE i \in at : TRUE
  BY <1>3
<1>5. compactionSplit(m) \in at
  BY <1>4
<1>6. from \in Int /\ from <= Len(m) /\ Len(m) \in Nat
  BY <1>1, ConversationAssumption
<1>7. at \subseteq 2 .. Len(m) /\ \A i \in at : m[i].role # "tool"
  BY <1>2, <1>6
<1> QED
  BY <1>5, <1>7

Summarised(from) == <<msgs[1], Msg("summary", "", 0, <<>>)>> \o SubSeq(msgs, from, Len(msgs))
LEMMA Compacts ==
  ASSUME ConversationInv, NEW from \in 2 .. Len(msgs), msgs[from].role # "tool", msgs' = Summarised(from),
         taskStart' = Boundary(from), UNCHANGED <<lastLoaded, loaded, made, streak>>
  PROVE  /\ msgs' \in Seq(Messages) /\ taskStart' \in 1 .. Len(msgs')
         /\ Framed' /\ Paired' /\ AsksWereMade' /\ StreakIsOwn' /\ Shown'
<1>1. msgs \in Seq(Messages) /\ taskStart \in 1 .. Len(msgs)
  BY DEF ConversationInv, ConversationTypes
<1>2. PICK n : n = Len(msgs)
  OBVIOUS
<1>3. n \in Nat /\ from \in 2 .. n /\ from \in 1 .. Len(msgs) /\ taskStart \in 1 .. n /\ DOMAIN msgs = 1 .. n /\ 1 \in 1 .. n
  <2>1. Len(msgs) \in Nat /\ DOMAIN msgs = 1 .. Len(msgs)
    BY <1>1
  <2> QED
    BY <1>1, <1>2, <2>1
<1>4. PICK tail : tail = SubSeq(msgs, from, Len(msgs))
  OBVIOUS
<1>5. /\ tail \in Seq(Messages) /\ Len(tail) = n - from + 1
      /\ \A i \in 1 .. n - from + 1 : tail[i] = msgs[i + from - 1]
  BY <1>1, <1>2, <1>3, <1>4, TailIs
<1>6. PICK s : s = Msg("summary", "", 0, <<>>)
  OBVIOUS
<1>7. s \in Messages /\ s.role = "summary"
  <2>1. "" \in Sayings /\ <<>> \in Seq(Known)
    BY DEF Sayings
  <2> QED
    BY <1>6, <2>1 DEF Messages, Msg
<1>8. msgs[1] \in Messages /\ msgs[1].role = "base"
  BY <1>1, <1>3 DEF ConversationInv, Framed
<1>9. PICK head : head = <<msgs[1], s>>
  OBVIOUS
<1>10. head \in Seq(Messages) /\ Len(head) = 2 /\ head[1] = msgs[1] /\ head[2] = s /\ DOMAIN head = {1, 2}
  BY <1>7, <1>8, <1>9
<1>11. Whole(head)
  <2>1. \A i \in DOMAIN head : head[i].role \notin {"assistant", "tool"}
    BY <1>7, <1>8, <1>10
  <2> QED
    BY <2>1 DEF Whole
<1>12. msgs' = head \o tail
  BY <1>4, <1>6, <1>9 DEF Summarised
<1>13. /\ msgs' \in Seq(Messages) /\ Len(msgs') = n - from + 3 /\ DOMAIN msgs' = 1 .. n - from + 3
       /\ msgs'[1] = msgs[1] /\ msgs'[2] = s
       /\ \A i \in 3 .. n - from + 3 : msgs'[i] = msgs[i + from - 3]
  <2>1. /\ head \o tail \in Seq(Messages) /\ Len(head \o tail) = Len(head) + Len(tail)
        /\ DOMAIN (head \o tail) = 1 .. Len(head) + Len(tail)
        /\ \A i \in 1 .. Len(head) : (head \o tail)[i] = head[i]
        /\ \A i \in Len(head) + 1 .. Len(head) + Len(tail) : (head \o tail)[i] = tail[i - Len(head)]
    <3>1. head \in Seq(Messages) /\ tail \in Seq(Messages)
      BY <1>5, <1>10
    <3> QED
      BY <3>1, JoinedIs
  <2>2. Len(head) + Len(tail) = n - from + 3
    BY <1>3, <1>5, <1>10
  <2>3. ASSUME NEW i \in 3 .. n - from + 3 PROVE msgs'[i] = msgs[i + from - 3]
    <3>1. i \in Len(head) + 1 .. Len(head) + Len(tail) /\ i - Len(head) \in 1 .. n - from + 1
          /\ (i - Len(head)) + from - 1 = i + from - 3
      BY <1>3, <1>10, <2>2
    <3> QED
      BY <1>5, <1>12, <2>1, <3>1
  <2>4. 1 \in 1 .. Len(head) /\ 2 \in 1 .. Len(head)
    BY <1>10
  <2> QED
    BY <1>10, <1>12, <2>1, <2>2, <2>3, <2>4
<1>14. /\ taskStart' \in 2 .. n - from + 3
       /\ taskStart + 1 >= from => taskStart' = taskStart - (from - 3)
       /\ taskStart + 1 < from => taskStart' = 2
  <2>1. CASE taskStart + 1 >= from
    <3>1. taskStart' = 2 + (taskStart + 1 - from)
      BY <2>1 DEF Boundary
    <3> QED
      BY <1>3, <2>1, <3>1
  <2>2. CASE taskStart + 1 < from
    <3>1. taskStart' = 2
      BY <1>3, <2>2 DEF Boundary
    <3> QED
      BY <1>3, <2>2, <3>1
  <2> QED
    BY <1>3, <2>1, <2>2
<1>15. taskStart' \in 1 .. Len(msgs')
  BY <1>3, <1>13, <1>14
<1>16. Framed'
  <2>1. n - from + 3 \in 3 .. n - from + 3 /\ (n - from + 3) + from - 3 = n
    BY <1>3
  <2>2. msgs'[Len(msgs')] = msgs[Len(msgs)]
    BY <1>2, <1>13, <2>1
  <2> QED
    BY <1>13, <2>2 DEF ConversationInv, Framed, EndsWithItsTask
<1>17. Paired'
  <2>1. Whole(tail)
    <3>1. Whole(msgs)
      BY DEF ConversationInv, Paired
    <3> QED
      BY <1>1, <1>3, <1>4, <3>1, WholeTail
  <2>2. Whole(head \o tail)
    BY <1>5, <1>10, <1>11, <2>1, WholeJoin
  <2> QED
    BY <1>12, <2>2 DEF Paired
<1>18. OwnAsks \subseteq 1 .. n /\ OwnAsks' \subseteq 3 .. n - from + 3
  BY <1>2, <1>3, <1>13, <1>14 DEF OwnAsks
<1>19. ASSUME NEW i \in OwnAsks' PROVE i + from - 3 \in OwnAsks /\ i + from - 3 >= from /\ msgs'[i] = msgs[i + from - 3]
  <2>1. i \in 3 .. n - from + 3 /\ i \in taskStart' + 1 .. Len(msgs') /\ msgs'[i].role = "assistant" /\ msgs'[i].ask # Answer
    BY <1>18 DEF OwnAsks
  <2>2. msgs'[i] = msgs[i + from - 3]
    BY <1>13, <2>1
  <2>3. i + from - 3 \in taskStart + 1 .. Len(msgs) /\ i + from - 3 >= from
    <3>1. CASE taskStart + 1 >= from
      BY <1>2, <1>3, <1>13, <1>14, <2>1, <3>1
    <3>2. CASE taskStart + 1 < from
      BY <1>2, <1>3, <1>13, <1>14, <2>1, <3>2
    <3> QED
      BY <1>3, <3>1, <3>2
  <2> QED
    BY <2>1, <2>2, <2>3 DEF OwnAsks
<1>20. ASSUME NEW j \in OwnAsks, j >= from PROVE j - (from - 3) \in OwnAsks'
  <2>1. j \in taskStart + 1 .. Len(msgs) /\ msgs[j].role = "assistant" /\ msgs[j].ask # Answer
    BY DEF OwnAsks
  <2>2. PICK i : i = j - (from - 3)
    OBVIOUS
  <2>3. i \in 3 .. n - from + 3 /\ i + from - 3 = j
    BY <1>2, <1>3, <1>20, <2>1, <2>2
  <2>4. i \in taskStart' + 1 .. Len(msgs')
    <3>1. CASE taskStart + 1 >= from
      BY <1>2, <1>3, <1>13, <1>14, <2>1, <2>3, <3>1
    <3>2. CASE taskStart + 1 < from
      BY <1>2, <1>3, <1>13, <1>14, <2>1, <2>3, <3>2
    <3> QED
      BY <1>3, <3>1, <3>2
  <2>5. msgs'[i] = msgs[j]
    BY <1>13, <2>3
  <2> QED
    BY <2>1, <2>2, <2>4, <2>5 DEF OwnAsks
<1>21. AsksWereMade'
  <2>1. PICK f \in [OwnAsks -> DOMAIN made] : Follows(f)
    BY DEF ConversationInv, AsksWereMade
  <2>2. PICK g : g = [i \in OwnAsks' |-> f[i + from - 3]]
    OBVIOUS
  <2>3. g \in [OwnAsks' -> DOMAIN made']
    BY <1>19, <2>1, <2>2
  <2>4. ASSUME NEW i \in OwnAsks' PROVE made'[g[i]] = msgs'[i].ask
    BY <1>19, <2>1, <2>2 DEF Follows
  <2>5. ASSUME NEW i \in OwnAsks', NEW j \in OwnAsks', i < j PROVE g[i] < g[j]
    <3>1. i + from - 3 \in OwnAsks /\ j + from - 3 \in OwnAsks /\ i + from - 3 < j + from - 3
      BY <1>3, <1>18, <1>19, <2>5
    <3>2. f[i + from - 3] < f[j + from - 3]
      BY <2>1, <3>1 DEF Follows
    <3> QED
      BY <2>2, <3>2
  <2>6. ASSUME NEW i \in OwnAsks', NEW k \in g[i] .. Len(made') PROVE \E j \in OwnAsks' : j >= i /\ g[j] = k
    <3>1. i + from - 3 \in OwnAsks /\ i + from - 3 >= from /\ k \in f[i + from - 3] .. Len(made)
      BY <1>19, <2>2
    <3>2. PICK l \in OwnAsks : l >= i + from - 3 /\ f[l] = k
      BY <2>1, <3>1 DEF Follows
    <3>3. PICK j : j = l - (from - 3)
      OBVIOUS
    <3>4. l \in Nat /\ i \in Nat /\ l >= from /\ j + from - 3 = l /\ j >= i
      BY <1>3, <1>18, <3>1, <3>2, <3>3
    <3>5. j \in OwnAsks'
      BY <1>20, <3>3, <3>4
    <3>6. g[j] = k
      BY <2>2, <3>2, <3>4, <3>5
    <3> QED
      BY <3>4, <3>5, <3>6
  <2>7. Follows(g)'
    BY <2>4, <2>5, <2>6 DEF Follows
  <2> QED
    BY <2>3, <2>7 DEF AsksWereMade
<1>22. StreakIsOwn'
  BY DEF ConversationInv, StreakIsOwn, Trailing
<1>23. Shown'
  <2>1. lastLoaded' \in {<<>>, loaded'}
    BY DEF ConversationInv, Shown
  <2>2. ASSUME NEW i \in DOMAIN msgs', IsLast(i)' PROVE msgs'[i].shows = loaded'
    <3>1. msgs'[i].role = "block" /\ \A j \in DOMAIN msgs' : j > i => msgs'[j].role # "block"
      BY <2>2 DEF IsLast
    <3>2. i \in 3 .. n - from + 3
      <4>1. i # 1 /\ i # 2
        BY <1>7, <1>8, <1>13, <3>1
      <4> QED
        BY <1>3, <1>13, <4>1
    <3>3. PICK k : k = i + from - 3
      OBVIOUS
    <3>4. msgs'[i] = msgs[k] /\ k \in 1 .. n
      BY <1>3, <1>13, <3>2, <3>3
    <3>5. ASSUME NEW j \in DOMAIN msgs, j > k PROVE msgs[j].role # "block"
      <4>1. PICK l : l = j - (from - 3)
        OBVIOUS
      <4>2. l \in 3 .. n - from + 3 /\ l + from - 3 = j /\ l > i
        BY <1>3, <3>2, <3>3, <3>5, <4>1
      <4>3. l \in DOMAIN msgs' /\ msgs'[l] = msgs[j]
        BY <1>3, <1>13, <4>2
      <4> QED
        BY <3>1, <4>2, <4>3
    <3>6. IsLast(k)
      BY <3>1, <3>4, <3>5 DEF IsLast
    <3>7. msgs[k].shows = loaded
      BY <1>3, <3>4, <3>6 DEF ConversationInv, Shown
    <3> QED
      BY <3>4, <3>7 
  <2> QED
    BY <2>1, <2>2 DEF Shown
<1> QED
  BY <1>13, <1>15, <1>16, <1>17, <1>21, <1>22, <1>23

LEMMA CompactStep == ConversationInv /\ compactConversation => ConversationInv'
<1>1. SUFFICES ASSUME ConversationInv, compactConversation PROVE ConversationInv'
  OBVIOUS
<1>2. PICK from : from = compactionSplit(msgs)
  OBVIOUS
<1>3. /\ phase = "compact" /\ phase' = "gate"
      /\ UNCHANGED <<lastLoaded, loaded, round, resp, stop, seen, named, cut, streak, made, used>>
  BY <1>1 DEF compactConversation, guardVars
<1>4. \/ from # 0 /\ msgs' = Summarised(from) /\ taskStart' = Boundary(from)
      \/ UNCHANGED <<msgs, taskStart>>
  BY <1>1, <1>2 DEF compactConversation, Summarised
<1>5. msgs \in Seq(Messages) /\ taskStart \in 1 .. Len(msgs)
  BY <1>1 DEF ConversationInv, ConversationTypes
<1>6. /\ msgs' \in Seq(Messages) /\ taskStart' \in 1 .. Len(msgs')
      /\ Framed' /\ Paired' /\ AsksWereMade' /\ StreakIsOwn' /\ Shown'
  <2>1. CASE from # 0 /\ msgs' = Summarised(from) /\ taskStart' = Boundary(from)
    <3>1. from \in 2 .. Len(msgs) /\ msgs[from].role # "tool"
      BY <1>2, <1>5, <2>1, SplitIs
    <3>2. UNCHANGED <<lastLoaded, loaded, made, streak>>
      BY <1>3
    <3> QED
      BY <1>1, <2>1, <3>1, <3>2, Compacts
  <2>2. CASE UNCHANGED <<msgs, taskStart>>
    <3>1. Framed' /\ Paired' /\ AsksWereMade' /\ StreakIsOwn' /\ Shown'
      BY <1>1, <1>3, <2>2, SameExchange
    <3> QED
      BY <1>5, <2>2, <3>1
  <2> QED
    BY <1>4, <2>1, <2>2
<1>7. RoundsCounted'
  BY <1>1, <1>3 DEF ConversationInv, RoundsCounted
<1>8. Allowed'
  BY <1>1, <1>3 DEF ConversationInv, Allowed
<1>9. Kept'
  BY <1>3 DEF Kept
<1>10. ConversationTypes'
  <2>1. phase' \in Phases
    BY <1>3 DEF Phases
  <2> QED
    BY <1>1, <1>3, <1>6, <2>1 DEF ConversationInv, ConversationTypes
<1> QED
  BY <1>6, <1>7, <1>8, <1>9, <1>10 DEF ConversationInv

LEMMA ConversationStepInv == ConversationInv /\ [ConversationNext]_convVars => ConversationInv'
<1>1. SUFFICES ASSUME ConversationInv, [ConversationNext]_convVars PROVE ConversationInv'
  OBVIOUS
<1>2. CASE Round
  BY <1>1, <1>2, RoundStep
<1>3. CASE GoOn
  BY <1>1, <1>3, GoOnStep
<1>4. CASE compactConversation
  BY <1>1, <1>4, CompactStep
<1>5. CASE generateFinalStep
  BY <1>1, <1>5, FinalStep
<1>6. CASE Break \/ Exhausted \/ Completed \/ Fails \/ checkSuspend
  BY <1>1, <1>6, EndingStep
<1>7. CASE restoreConversation
  BY <1>1, <1>7, RestoreStep
<1>8. CASE UNCHANGED convVars
  <2>1. UNCHANGED <<msgs, taskStart, lastLoaded, loaded, round, resp, stop, seen, named, phase, cut, checkpoint, streak, made, used>>
    BY <1>8 DEF convVars, guardVars
  <2>2. Framed' /\ Paired' /\ AsksWereMade' /\ StreakIsOwn' /\ Shown'
    BY <1>1, <2>1, SameExchange
  <2>3. RoundsCounted'
    BY <1>1, <2>1 DEF ConversationInv, RoundsCounted
  <2>4. Allowed'
    BY <1>1, <2>1 DEF ConversationInv, Allowed
  <2>5. Kept'
    BY <1>1, <2>1 DEF ConversationInv, Kept
  <2>6. ConversationTypes'
    BY <1>1, <2>1 DEF ConversationInv, ConversationTypes
  <2> QED
    BY <2>2, <2>3, <2>4, <2>5, <2>6 DEF ConversationInv
<1> QED
  BY <1>1, <1>2, <1>3, <1>4, <1>5, <1>6, <1>7, <1>8 DEF ConversationNext

LEMMA HistoryIs ==
  ASSUME NEW h \in HistorySet
  PROVE  h \in Seq(Messages) /\ Whole(h) /\ \A i \in 1 .. Len(h) : h[i].role # "block"
<1>1. h \in Seq([role : {"user", "assistant", "tool"}, ask : STRING, no : Nat, shows : {<<>>}]) /\ Whole(h)
  BY ConversationAssumption
<1>2. PICK n : n = Len(h)
  OBVIOUS
<1>3. n \in Nat /\ DOMAIN h = 1 .. n /\ h = [i \in 1 .. n |-> h[i]]
  BY <1>1, <1>2
<1>4. ASSUME NEW i \in 1 .. n PROVE h[i] \in Messages /\ h[i].role # "block"
  <2>1. h[i] \in [role : {"user", "assistant", "tool"}, ask : STRING, no : Nat, shows : {<<>>}]
    <3>1. PICK R : R = [role : {"user", "assistant", "tool"}, ask : STRING, no : Nat, shows : {<<>>}]
      OBVIOUS
    <3>2. h \in Seq(R)
      BY <1>1, <3>1
    <3>3. h[i] \in R
      BY <1>2, <3>2
    <3> QED
      BY <3>1, <3>3
  <2>2. h[i].ask \in Sayings
    <3>1. h[i].ask \in {h[k].ask : k \in DOMAIN h}
      BY <1>3
    <3>2. {h[k].ask : k \in DOMAIN h} \in {{g[k].ask : k \in DOMAIN g} : g \in HistorySet}
      OBVIOUS
    <3> QED
      BY <3>1, <3>2 DEF Sayings
  <2>3. <<>> \in Seq(Known)
    OBVIOUS
  <2>4. PICK e : e = h[i]
    OBVIOUS
  <2>5. /\ e = [role |-> e.role, ask |-> e.ask, no |-> e.no, shows |-> e.shows]
        /\ e.role \in {"user", "assistant", "tool"} /\ e.no \in Nat /\ e.shows \in Seq(Known) /\ e.ask \in Sayings
    BY <2>1, <2>2, <2>3, <2>4
  <2> QED
    BY <2>4, <2>5 DEF Messages
<1>5. h \in Seq(Messages)
  BY <1>3, <1>4
<1> QED
  BY <1>1, <1>2, <1>4, <1>5

LEMMA ConversationInitInv == ConversationInit => ConversationInv
<1>1. SUFFICES ASSUME ConversationInit PROVE ConversationInv
  OBVIOUS
<1>2. PICK h \in HistorySet : /\ msgs = <<Msg("base", "", 0, <<>>)>> \o h \o appendCurrentInput(h)
                              /\ taskStart = 1 + Len(h)
  BY <1>1 DEF ConversationInit
<1>3. h \in Seq(Messages) /\ Whole(h) /\ \A i \in 1 .. Len(h) : h[i].role # "block"
  BY HistoryIs
<1>4. PICK b : b = Msg("base", "", 0, <<>>)
  OBVIOUS
<1>5. b \in Messages /\ b.role = "base"
  <2>1. "" \in Sayings /\ <<>> \in Seq(Known)
    BY DEF Sayings
  <2> QED
    BY <1>4, <2>1 DEF Messages, Msg
<1>6. PICK u : u = User("input")
  OBVIOUS
<1>7. u \in Messages /\ u.role = "user"
  <2>1. "input" \in Sayings /\ <<>> \in Seq(Known)
    BY DEF Sayings
  <2> QED
    BY <1>6, <2>1 DEF Messages, User, Msg
<1>8. PICK t : t = appendCurrentInput(h)
  OBVIOUS
<1>9. /\ t \in Seq(Messages) /\ Whole(t) /\ Len(t) \in Nat /\ \A i \in 1 .. Len(t) : t[i].role = "user"
      /\ h # <<>> => Len(t) = 1
      /\ h = <<>> => t = <<>>
  <2>1. CASE h = <<>>
    <3>1. t = <<>>
      BY <1>8, <2>1 DEF appendCurrentInput
    <3> QED
      BY <2>1, <3>1, WholeNone
  <2>2. CASE h # <<>>
    <3>1. t = <<u>>
      BY <1>6, <1>8, <2>2 DEF appendCurrentInput
    <3>2. t \in Seq(Messages) /\ Whole(t)
      BY <1>7, <3>1, WholeOne
    <3>3. Len(t) = 1 /\ t[1] = u
      BY <3>1
    <3> QED
      BY <1>7, <2>2, <3>2, <3>3
  <2> QED
    BY <2>1, <2>2
<1>10. PICK p : p = <<b>>
  OBVIOUS
<1>11. p \in Seq(Messages) /\ Whole(p) /\ Len(p) = 1 /\ p[1] = b
  <2>1. p \in Seq(Messages) /\ Whole(p)
    BY <1>5, <1>10, WholeOne
  <2> QED
    BY <1>10, <2>1
<1>12. PICK q : q = p \o h
  OBVIOUS
<1>13. /\ q \in Seq(Messages) /\ Len(q) = Len(p) + Len(h) /\ Len(h) \in Nat
       /\ \A i \in 1 .. Len(p) : q[i] = p[i]
       /\ \A i \in Len(p) + 1 .. Len(p) + Len(h) : q[i] = h[i - Len(p)]
  BY <1>3, <1>11, <1>12, JoinedIs
<1>14. msgs = q \o t
  BY <1>2, <1>4, <1>8, <1>10, <1>12
<1>15. /\ msgs \in Seq(Messages) /\ Len(msgs) = Len(q) + Len(t) /\ DOMAIN msgs = 1 .. Len(q) + Len(t)
       /\ \A i \in 1 .. Len(q) : msgs[i] = q[i]
       /\ \A i \in Len(q) + 1 .. Len(q) + Len(t) : msgs[i] = t[i - Len(q)]
  <2>1. q \in Seq(Messages) /\ t \in Seq(Messages)
    BY <1>9, <1>13
  <2> QED
    BY <1>14, <2>1, JoinedIs
<1>16. Paired
  <2>1. Whole(q)
    BY <1>3, <1>11, <1>12, WholeJoin
  <2>2. Whole(msgs)
    BY <1>9, <1>13, <1>14, <2>1, WholeJoin
  <2> QED
    BY <2>2 DEF Paired
<1>17. PICK n : n = Len(h)
  OBVIOUS
<1>18. /\ n \in Nat /\ Len(q) = n + 1 /\ Len(msgs) = n + 1 + Len(t) /\ taskStart = n + 1 /\ taskStart \in 1 .. Len(msgs)
       /\ DOMAIN msgs = 1 .. n + 1 + Len(t) /\ msgs[1] = b
       /\ \A i \in 2 .. n + 1 : msgs[i] = h[i - 1]
       /\ \A i \in n + 2 .. n + 1 + Len(t) : msgs[i] = t[i - (n + 1)]
  <2>1. n \in Nat /\ Len(q) = n + 1 /\ Len(p) = 1
    BY <1>11, <1>13, <1>17
  <2>2. Len(msgs) = n + 1 + Len(t) /\ taskStart = n + 1 /\ DOMAIN msgs = 1 .. n + 1 + Len(t)
    <3>1. taskStart = 1 + n
      <4>1. taskStart = 1 + Len(h)
        BY <1>2
      <4> QED
        BY <1>17, <4>1
    <3>2. taskStart = n + 1
      BY <2>1, <3>1
    <3> QED
      BY <1>15, <2>1, <3>2
  <2>3. taskStart \in 1 .. Len(msgs)
    BY <1>9, <2>1, <2>2
  <2>4. 1 \in 1 .. Len(p) /\ 1 \in 1 .. Len(q)
    BY <2>1
  <2>5. msgs[1] = b
    BY <1>11, <1>13, <1>15, <2>4
  <2>6. ASSUME NEW i \in 2 .. n + 1 PROVE msgs[i] = h[i - 1]
    <3>1. i \in 1 .. Len(q) /\ i \in Len(p) + 1 .. Len(p) + Len(h) /\ i - Len(p) = i - 1
      BY <1>17, <2>1
    <3> QED
      BY <1>13, <1>15, <3>1
  <2>7. ASSUME NEW i \in n + 2 .. n + 1 + Len(t) PROVE msgs[i] = t[i - (n + 1)]
    <3>1. i \in Len(q) + 1 .. Len(q) + Len(t)
      BY <1>9, <2>1
    <3> QED
      BY <1>15, <2>1, <3>1
  <2> QED
    BY <2>1, <2>2, <2>3, <2>5, <2>6, <2>7
<1>19. ASSUME NEW i \in n + 2 .. n + 1 + Len(t) PROVE msgs[i].role = "user"
  <2>1. i - (n + 1) \in 1 .. Len(t) /\ msgs[i] = t[i - (n + 1)]
    BY <1>9, <1>18
  <2> QED
    BY <1>9, <2>1
<1>20. Framed
  <2>1. CASE h = <<>>
    <3>1. Len(msgs) = 1
      <4>1. n = 0 /\ Len(t) = 0
        BY <1>9, <1>17, <2>1
      <4> QED
        BY <1>18, <4>1
    <3> QED
      BY <1>5, <1>18, <3>1 DEF Framed, EndsWithItsTask
  <2>2. CASE h # <<>>
    <3>1. Len(msgs) \in n + 2 .. n + 1 + Len(t)
      <4>1. Len(t) = 1
        BY <1>9, <2>2
      <4>2. Len(msgs) = n + 1 + Len(t) /\ n \in Nat
        BY <1>18
      <4> QED
        BY <4>1, <4>2
    <3> QED
      BY <1>5, <1>18, <1>19, <3>1 DEF Framed, EndsWithItsTask
  <2> QED
    BY <2>1, <2>2
<1>21. made = <<>> /\ Len(made) = 0 /\ made \in Seq(DOMAIN Asks)
  <2>1. made = <<>>
    BY <1>1 DEF ConversationInit
  <2> QED
    BY <2>1
<1>22. AsksWereMade
  <2>1. OwnAsks = {}
    <3>1. SUFFICES ASSUME NEW i \in OwnAsks PROVE FALSE
      OBVIOUS
    <3>2. i \in n + 2 .. n + 1 + Len(t) /\ msgs[i].role = "assistant"
      BY <1>9, <1>18 DEF OwnAsks
    <3> QED
      BY <1>19, <3>2
  <2>2. PICK f : f = [i \in {} |-> 1]
    OBVIOUS
  <2>3. f \in [OwnAsks -> DOMAIN made] /\ Follows(f)
    BY <2>1, <2>2 DEF Follows
  <2> QED
    BY <2>3 DEF AsksWereMade
<1>23. StreakIsOwn
  BY <1>21 DEF StreakIsOwn
<1>24. Shown
  <2>1. lastLoaded = <<>>
    BY <1>1 DEF ConversationInit
  <2>2. ASSUME NEW i \in DOMAIN msgs PROVE msgs[i].role # "block"
    <3>1. i = 1 \/ i \in 2 .. n + 1 \/ i \in n + 2 .. n + 1 + Len(t)
      BY <1>9, <1>18
    <3>2. CASE i = 1
      BY <1>5, <1>18, <3>2
    <3>3. CASE i \in 2 .. n + 1
      <4>1. msgs[i] = h[i - 1] /\ i - 1 \in 1 .. Len(h)
        BY <1>17, <1>18, <3>3
      <4> QED
        BY <1>3, <4>1
    <3>4. CASE i \in n + 2 .. n + 1 + Len(t)
      BY <1>19, <3>4
    <3> QED
      BY <3>1, <3>2, <3>3, <3>4
  <2> QED
    BY <2>1, <2>2 DEF Shown, IsLast
<1>25. /\ lastLoaded = <<>> /\ loaded = <<>> /\ round = 0 /\ resp \in Responses /\ stop = ""
       /\ seen = [a \in DOMAIN Asks |-> 0] /\ named = [t1 \in Tools |-> 0] /\ used = [t1 \in Tools |-> 0]
       /\ phase = "gate" /\ cut = "none" /\ streak = 0
  BY <1>1 DEF ConversationInit
<1>26. MaxLoaded \in Nat /\ MaxToolRounds \in Nat /\ 0 < AbortCount /\ 0 <= ToolLoopCap
  BY ConversationAssumption
<1>27. RoundsCounted
  <2>1. Len(made) = round /\ Len(made) <= MaxToolRounds /\ phase = "gate"
    <3>1. 0 <= MaxToolRounds
      BY <1>26
    <3>2. Len(made) = 0 /\ round = 0 /\ phase = "gate"
      BY <1>21, <1>25
    <3> QED
      BY <3>1, <3>2
  <2> QED
    BY <2>1 DEF RoundsCounted
<1>28. Allowed
  <2>1. \A t1 \in Tools : used[t1] = 0 /\ named[t1] = 0
    BY <1>25
  <2>2. \A a \in DOMAIN Asks : seen[a] = 0
    BY <1>25
  <2> QED
    BY <1>26, <2>1, <2>2 DEF Allowed
<1>29. Kept
  BY <1>25 DEF Kept
<1>30. ConversationTypes
  <2>1. seen \in [DOMAIN Asks -> Nat] /\ named \in [Tools -> Nat] /\ used \in [Tools -> Nat] /\ phase \in Phases
    BY <1>25 DEF Phases
  <2>2. loaded \in Seq(Known) /\ Len(loaded) <= MaxLoaded /\ round \in 0 .. MaxToolRounds
    <3>1. loaded = <<>> /\ round = 0
      BY <1>25
    <3>2. loaded \in Seq(Known) /\ Len(loaded) = 0
      BY <3>1
    <3> QED
      BY <1>26, <3>1, <3>2
  <2> QED
    BY <1>15, <1>18, <1>21, <1>25, <2>1, <2>2 DEF ConversationTypes
<1> QED
  BY <1>16, <1>20, <1>22, <1>23, <1>24, <1>27, <1>28, <1>29, <1>30 DEF ConversationInv

LEMMA ConversationInvImplies ==
  ConversationInv => /\ ConversationTypeOK /\ Paired /\ EndsWithItsTask /\ StreakIsOwn
                     /\ BrakesHold /\ RoundsBounded /\ ShownIsLoaded
<1>1. SUFFICES ASSUME ConversationInv
               PROVE  /\ ConversationTypeOK /\ Paired /\ EndsWithItsTask /\ StreakIsOwn
                      /\ BrakesHold /\ RoundsBounded /\ ShownIsLoaded
  OBVIOUS
<1>2. ConversationTypeOK
  BY <1>1 DEF ConversationInv, ConversationTypes, ConversationTypeOK
<1>3. Paired /\ EndsWithItsTask /\ StreakIsOwn
  BY <1>1 DEF ConversationInv, Framed
<1>4. BrakesHold
  BY <1>1 DEF ConversationInv, Allowed, BrakesHold
<1>5. RoundsBounded
  BY <1>1 DEF ConversationInv, RoundsCounted, RoundsBounded
<1>6. ShownIsLoaded
  <2>1. PICK blocks : blocks = {i \in DOMAIN msgs : msgs[i].role = "block"}
    OBVIOUS
  <2>2. ASSUME blocks # {}
        PROVE  msgs[CHOOSE i \in blocks : \A j \in blocks : j <= i].shows = loaded
    <3>1. msgs \in Seq(Messages)
      BY <1>1 DEF ConversationInv, ConversationTypes
    <3>2. Len(msgs) \in Nat /\ DOMAIN msgs = 1 .. Len(msgs)
      BY <3>1
    <3>3. blocks \subseteq 1 .. Len(msgs)
      BY <2>1, <3>2
    <3>4. \E i \in blocks : \A j \in blocks : j <= i
      BY <2>2, <3>2, <3>3, GreatestOf
    <3>5. PICK i : i = CHOOSE k \in blocks : \A j \in blocks : j <= k
      OBVIOUS
    <3>6. i \in blocks /\ \A j \in blocks : j <= i
      BY <3>4, <3>5
    <3>7. ASSUME NEW j \in DOMAIN msgs, j > i PROVE msgs[j].role # "block"
      <4>1. i \in Nat /\ j \in Nat /\ ~(j <= i)
        BY <3>2, <3>3, <3>6, <3>7
      <4> QED
        BY <2>1, <3>6, <4>1
    <3>8. i \in DOMAIN msgs /\ IsLast(i)
      BY <2>1, <3>6, <3>7 DEF IsLast
    <3>9. msgs[i].shows = loaded
      BY <1>1, <3>8 DEF ConversationInv, Shown
    <3> QED
      BY <3>5, <3>9
  <2> QED
    BY <2>1, <2>2 DEF ShownIsLoaded
<1> QED
  BY <1>2, <1>3, <1>4, <1>5, <1>6

\* However long an exchange with the model goes on, is summarised, warned of,
\* suspended and resumed (runToolLoop), calls stay with their answers, the
\* brakes count the task's own rounds and hold, the round budget is the task's,
\* and the last block the model was shown is what is loaded.
THEOREM ConversationIsSafe == ConversationSpec => ConversationSafe
<1>1. ConversationInit => ConversationInv
  BY ConversationInitInv
<1>2. ConversationInv /\ [ConversationNext]_convVars => ConversationInv'
  BY ConversationStepInv
<1>3. ConversationInv => /\ ConversationTypeOK /\ Paired /\ EndsWithItsTask /\ StreakIsOwn
                         /\ BrakesHold /\ RoundsBounded /\ ShownIsLoaded
  BY ConversationInvImplies
<1> QED
  BY <1>1, <1>2, <1>3, PTL DEF ConversationSpec, ConversationSafe
=============================================================================
