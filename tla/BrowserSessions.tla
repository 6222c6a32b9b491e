--------------------------- MODULE BrowserSessions ---------------------------
(* The browser runtime (browser/runtime.go): sessions, the contexts they      *)
(* borrow from the pool of Chromium processes, the rows that carry a login    *)
(* over evictions and restarts, the reaper, and the human who takes a session *)
(* over.  A session's lock makes each section under it one step; the steps    *)
(* between such sections are where another caller comes in.  A session is its *)
(* number: its object outlives its place in the table in the hands of callers.*)
(* Pages' contents, refs and frames are left out (BrowserView has the frames), *)
(* and a List that fails at start.                                            *)
EXTENDS Naturals, FiniteSets

CONSTANTS
  Agents,        \* tool calls that may be under way at once
  Chats,         \* chat sessions they belong to
  MaxSeq,        \* bound: sessions created
  MaxProcesses, MaxContexts,
  MaxLogins,     \* bound: logins seen by a session
  MaxToolCalls, MaxTakeovers, MaxRestarts,
  NoRow, NoChat

ASSUME BrowserAssumption ==
  MaxSeq \in Nat /\ MaxProcesses \in Nat \ {0} /\ MaxContexts \in Nat \ {0} /\ NoRow \notin Nat /\ NoChat \notin Chats

Ids == 1 .. MaxSeq
Processes == 1 .. MaxProcesses

VARIABLES
  seq,         \* SessionStore.seq
  table,       \* SessionStore.byID: the sessions known
  byChat,      \* chat -> its session, 0 when none
  home,        \* session -> the process of its context, 0 without one
  page,        \* sessions with an active page
  login,       \* session -> the login its context holds, 0 for none
  takeover,    \* sessions under manual takeover
  row,         \* session -> the login in its row, or NoRow
  processes,   \* processes that run
  toolCall,    \* agent -> its call's operation, session and next step
  told,        \* session ids that callers were given
  human,       \* the session of an injection past its checks, or 0
  victim,      \* the session the reaper is about to evict, or 0
  leaving,     \* sessions a full Close has still to evict
  down,        \* a full Close is under way
  callsMade, takeovers, restarts,
  latest,      \* ghost: session -> the login of its latest context
  overtaken,   \* ghost: sessions opened while being closed, or after
  closed,      \* ghost: sessions whose close ran to its end, row included
  spared       \* ghost: session -> calls past the gate when it was taken over
sessionVars == <<seq, table, byChat, home, page, login, takeover, row>>
actorVars == <<toolCall, told, human, victim, leaving, down>>
boundVars == <<callsMade, takeovers, restarts>>
browserGhosts == <<latest, overtaken, closed, spared>>
browserVars == <<sessionVars, processes, actorVars, boundVars, browserGhosts>>

NoCall == [op |-> "none", id |-> 0, chat |-> NoChat, step |-> "idle"]

\* NewRuntime, with no session on record: one process is started at once.
BrowserInit ==
  /\ seq = 0 /\ table = {} /\ byChat = [c \in Chats |-> 0]
  /\ home = [s \in Ids |-> 0] /\ page = {} /\ login = [s \in Ids |-> 0]
  /\ takeover = {} /\ row = [s \in Ids |-> NoRow] /\ processes = {1}
  /\ toolCall = [a \in Agents |-> NoCall] /\ told = {} /\ human = 0
  /\ victim = 0 /\ leaving = {} /\ down = FALSE
  /\ callsMade = 0 /\ takeovers = 0 /\ restarts = 0
  /\ latest = [s \in Ids |-> 0] /\ overtaken = {} /\ closed = {}
  /\ spared = [s \in Ids |-> {}]

(***************************************************************************)
(* The pool.                                                               *)
(***************************************************************************)
Contexts(p) == Cardinality({s \in Ids : home[s] = p})

\* A running process with room (the oldest in the code), or a new one when all
\* are full; otherwise RESOURCE_EXHAUSTED.
Acquire(p) ==
  \/ p \in processes /\ Contexts(p) < MaxContexts
  \/ /\ p \in Processes \ processes
     /\ \A q \in processes : Contexts(q) >= MaxContexts

\* RecycleBloated closes an idle process that is over its memory limit.
RecycleBloated(p) ==
  /\ ~down /\ p \in processes /\ Contexts(p) = 0 /\ processes' = processes \ {p}
  /\ UNCHANGED <<sessionVars, actorVars, boundVars, browserGhosts>>

(***************************************************************************)
(* A tool call begins.                                                     *)
(***************************************************************************)
Step(a, s) == toolCall' = [toolCall EXCEPT ![a].step = s]
Finish(a) ==
  /\ toolCall' = [toolCall EXCEPT ![a] = NoCall]
  /\ spared' = [s \in Ids |-> spared[s] \ {a}]

Begin(a, op, s, c, step) ==
  /\ ~down /\ toolCall[a] = NoCall /\ callsMade < MaxToolCalls /\ callsMade' = callsMade + 1
  /\ toolCall' = [toolCall EXCEPT ![a] = [op |-> op, id |-> s, chat |-> c, step |-> step]]
  /\ UNCHANGED <<processes, told, human, victim, leaving, down, takeovers, restarts>>

\* Open, with the id of a session ...
OpenById(a, s) ==
  /\ s \in told \cap table /\ Begin(a, "open", s, NoChat, "gate")
  /\ UNCHANGED <<sessionVars, browserGhosts>>

\* ... in a chat that is bound to one: a binding to a closed session is dropped ...
FindByChatSession(c) == IF byChat[c] \in table THEN byChat[c] ELSE 0

OpenInChat(a, c) ==
  /\ FindByChatSession(c) # 0 /\ Begin(a, "open", FindByChatSession(c), c, "gate")
  /\ UNCHANGED <<sessionVars, browserGhosts>>

\* ... or a new one, where memory allows (admitNewSession): Create puts it in
\* the table.
Create(a, c) ==
  LET s == seq + 1 IN
  /\ c # NoChat => FindByChatSession(c) = 0
  /\ s \in Ids /\ Begin(a, "open", s, c, "save")
  /\ seq' = s /\ table' = table \cup {s}
  /\ takeover' = takeover \ {s}
  /\ latest' = [latest EXCEPT ![s] = 0] /\ closed' = closed \ {s} /\ overtaken' = overtaken \ {s}
  /\ spared' = [spared EXCEPT ![s] = {}]
  /\ UNCHANGED <<byChat, home, page, login, row>>

\* Click, Type and Read; the gate, where there is one, reads the table.
Act(a, op, s) ==
  /\ op \in {"write", "read"} /\ s \in told \cap table
  /\ Begin(a, op, s, NoChat, IF op = "write" THEN "gate" ELSE "page")
  /\ UNCHANGED <<sessionVars, browserGhosts>>

Close(a, s) ==
  /\ s \in told \cap table /\ Begin(a, "close", s, NoChat, "release")
  /\ UNCHANGED <<sessionVars, browserGhosts>>

(***************************************************************************)
(* Its steps.                                                              *)
(***************************************************************************)
Is(b, op, s) == toolCall[b].op = op /\ toolCall[b].id = s

Overtake(s) ==
  IF s \notin table \/ \E b \in Agents : Is(b, "close", s) /\ toolCall[b].step # "release"
  THEN overtaken \cup {s} ELSE overtaken

\* Create writes the row once the store's lock is free; a failure is logged.
SaveNew(a) ==
  /\ toolCall[a].step = "save" /\ Step(a, "bind")
  /\ row' \in {row, [row EXCEPT ![toolCall[a].id] = 0]} /\ overtaken' = Overtake(toolCall[a].id)
  /\ UNCHANGED <<seq, table, byChat, home, page, login, takeover, processes, told, human,
                 victim, leaving, down, boundVars, latest, closed, spared>>

BindChat(a) ==
  /\ toolCall[a].step = "bind" /\ Step(a, "gate")
  /\ byChat' = [c \in Chats |-> IF c = toolCall[a].chat THEN toolCall[a].id ELSE byChat[c]]
  /\ UNCHANGED <<seq, table, home, page, login, takeover, row, processes, told, human,
                 victim, leaving, down, boundVars, browserGhosts>>

takeoverOf(s, op) == s \in takeover

Gate(a) ==
  LET s == toolCall[a].id IN
  /\ toolCall[a].step = "gate"
  /\ IF takeoverOf(s, toolCall[a].op) THEN Finish(a)
     ELSE /\ Step(a, IF toolCall[a].op = "open" THEN "act" ELSE "page") /\ UNCHANGED spared
  /\ UNCHANGED <<sessionVars, processes, told, human, victim, leaving, down, boundVars,
                 latest, overtaken, closed>>

activePage(a) ==
  /\ toolCall[a].step = "page"
  /\ IF toolCall[a].id \in page THEN Step(a, "act") /\ UNCHANGED spared ELSE Finish(a)
  /\ UNCHANGED <<sessionVars, processes, told, human, victim, leaving, down, boundVars,
                 latest, overtaken, closed>>

Saved(s) == IF row[s] = NoRow THEN 0 ELSE row[s]

\* A page that is used may log its session in anew.
Logins(now) == {now} \cup (IF now < MaxLogins THEN {now + 1} ELSE {})

\* Open under the session's lock: rebuildContextLocked when there is no context,
\* with the login of the row unless that cannot be restored; then the navigation.
Rebuilt(s) == {Saved(s), 0}

Navigate(a) ==
  LET s == toolCall[a].id IN
  /\ toolCall[a].step = "act" /\ toolCall[a].op = "open"
  /\ \/ home[s] # 0 /\ home' = home /\ processes' = processes
        /\ \E l \in Logins(login[s]) : login' = [login EXCEPT ![s] = l]
     \/ home[s] = 0 /\ \E p \in Processes : Acquire(p)
        /\ home' = [home EXCEPT ![s] = p] /\ processes' = processes \cup {p}
        /\ \E l \in Rebuilt(s) : \E n \in Logins(l) : login' = [login EXCEPT ![s] = n]
  /\ latest' = [latest EXCEPT ![s] = login'[s]]
  /\ overtaken' = Overtake(s)
  /\ \/ page' = page \cup {s} /\ Step(a, "touch") /\ UNCHANGED spared
     \/ page' \in {page, page \cup {s}} /\ Finish(a)       \* the page, or its observation, failed
  /\ UNCHANGED <<seq, table, byChat, takeover, row, told, human, victim, leaving, down,
                 boundVars, closed>>

\* No context can be had: the session stays, without one.
NavigateFails(a) ==
  /\ toolCall[a].step = "act" /\ toolCall[a].op = "open" /\ home[toolCall[a].id] = 0 /\ Finish(a)
  /\ UNCHANGED <<sessionVars, processes, told, human, victim, leaving, down, boundVars,
                 latest, overtaken, closed>>

\* Click, Type and Read on the page they were given, gone or not.
UsePage(a) ==
  LET s == toolCall[a].id IN
  /\ toolCall[a].step = "act" /\ toolCall[a].op \in {"write", "read"}
  /\ \/ /\ s \in page /\ Step(a, "touch") /\ UNCHANGED spared
        /\ \E l \in IF toolCall[a].op = "write" THEN Logins(login[s]) ELSE {login[s]} :
             login' = [login EXCEPT ![s] = l] /\ latest' = [latest EXCEPT ![s] = l]
     \/ Finish(a) /\ UNCHANGED <<login, latest>>
  /\ UNCHANGED <<seq, table, byChat, home, page, takeover, row, processes, told, human, 
                 victim, leaving, down, boundVars, overtaken, closed>>

\* TouchBrowserSession updates fields of a row that is there, never the login.
Touched(s) == row

touch(a) ==
  LET s == toolCall[a].id IN
  /\ toolCall[a].step = "touch" /\ Finish(a)
  /\ row' = Touched(s)
  /\ told' = IF toolCall[a].op = "open" THEN told \cup {s} ELSE told
  /\ UNCHANGED <<seq, table, byChat, home, page, login, takeover, processes, human, victim,
                 leaving, down, boundVars, latest, overtaken, closed>>

Release(s) == home' = [home EXCEPT ![s] = 0]

\* Close under the session's lock, ...
CloseContext(a) ==
  LET s == toolCall[a].id IN
  /\ toolCall[a].step = "release" /\ Step(a, "delete")
  /\ Release(s) /\ page' = page \ {s} /\ takeover' = takeover \ {s}
  /\ login' = [login EXCEPT ![s] = 0]
  /\ latest' = [latest EXCEPT ![s] = Saved(s)]           \* given up with the session
  /\ UNCHANGED <<seq, table, byChat, row, processes, told, human, victim, leaving, down,
                 boundVars, overtaken, closed, spared>>

\* ... the table and the binding, ...
DeleteSession(a) ==
  LET s == toolCall[a].id IN
  /\ toolCall[a].step = "delete" /\ Step(a, "row")
  /\ table' = table \ {s} /\ byChat' = [c \in Chats |-> IF byChat[c] = s THEN 0 ELSE byChat[c]]
  /\ UNCHANGED <<seq, home, page, login, takeover, row, processes, told, human, victim,
                 leaving, down, boundVars, browserGhosts>>

\* ... and the row; a failure is logged.
DeleteRow(a) ==
  LET s == toolCall[a].id IN
  /\ toolCall[a].step = "row" /\ Finish(a)
  /\ \/ row' = [row EXCEPT ![s] = NoRow] /\ closed' = closed \cup {s}
     \/ UNCHANGED <<row, closed>>
  /\ UNCHANGED <<seq, table, byChat, home, page, login, takeover, processes, told, human, 
                 victim, leaving, down, boundVars, latest, overtaken>>

(***************************************************************************)
(* The human.                                                              *)
(***************************************************************************)
SetTakeover(s, on) ==
  /\ ~down /\ s \in table /\ takeovers < MaxTakeovers /\ takeovers' = takeovers + 1
  /\ takeover' = IF on THEN takeover \cup {s} ELSE takeover \ {s}
  /\ spared' = [spared EXCEPT ![s] =
       IF on /\ s \notin takeover
       THEN {a \in Agents : toolCall[a].id = s /\ toolCall[a].step \in {"page", "act"}} ELSE @]
  /\ UNCHANGED <<seq, table, byChat, home, page, login, row, processes, actorVars, callsMade, restarts,
                 latest, overtaken, closed>>

\* InjectInput and NavigateTakeover check, ...
InjectInput(s) ==
  /\ ~down /\ human = 0 /\ s \in table \cap page \cap takeover /\ human' = s
  /\ UNCHANGED <<sessionVars, processes, toolCall, told, victim, leaving, down, boundVars, browserGhosts>>

\* ... then work on the page, outside the session's lock, and touch the session.
Inject ==
  LET s == human IN
  /\ s # 0 /\ human' = 0
  /\ \/ /\ s \in page
        /\ \E l \in Logins(login[s]) : login' = [login EXCEPT ![s] = l] /\ latest' = [latest EXCEPT ![s] = l]
     \/ UNCHANGED <<login, latest>>
  /\ UNCHANGED <<seq, table, byChat, home, page, takeover, row, processes, toolCall, told, victim,
                 leaving, down, boundVars, overtaken, closed, spared>>

(***************************************************************************)
(* The reaper, the shutdown and the restart.                               *)
(***************************************************************************)
\* reapIdle looks at each session of a snapshot, some of them closed by then; one
\* unused for SessionTTL, as any may be, is evicted unless it is taken over.
reapIdle(s) ==
  /\ ~down /\ victim = 0 /\ s <= seq /\ s \notin takeover /\ victim' = s
  /\ UNCHANGED <<sessionVars, processes, toolCall, told, human, leaving, down, boundVars, browserGhosts>>

\* A slip of evictSession: the context goes whether the row was written or not.
Bug_Evicted(s) ==
  /\ row' \in {row, [row EXCEPT ![s] = login[s]]}
  /\ home' = [home EXCEPT ![s] = 0] /\ page' = page \ {s} /\ login' = [login EXCEPT ![s] = 0]

\* evictSession: the whole row first, then the context; nothing when the cookies
\* cannot be read or the row not be written.
Evicted(s) ==
  /\ row' = [row EXCEPT ![s] = login[s]]
  /\ home' = [home EXCEPT ![s] = 0] /\ page' = page \ {s} /\ login' = [login EXCEPT ![s] = 0]

evictSession(s) ==
  \/ home[s] # 0 /\ Evicted(s)
  \/ UNCHANGED <<row, home, page, login>>

Reap ==
  /\ victim # 0 /\ evictSession(victim) /\ victim' = 0
  /\ UNCHANGED <<seq, table, byChat, takeover, processes, toolCall, told, human, leaving, down,
                 boundVars, browserGhosts>>

\* A full Close comes once the tasks have drained: every session is evicted.
Shutdown ==
  /\ ~down /\ restarts < MaxRestarts /\ \A a \in Agents : toolCall[a] = NoCall
  /\ down' = TRUE /\ leaving' = table
  /\ UNCHANGED <<sessionVars, processes, toolCall, told, human, victim, boundVars, browserGhosts>>

Leave(s) ==
  /\ s \in leaving /\ leaving' = leaving \ {s} /\ evictSession(s)
  /\ UNCHANGED <<seq, table, byChat, takeover, processes, toolCall, told, human, victim, down,
                 boundVars, browserGhosts>>

\* The process is gone, with the logins that no eviction had saved; the next one
\* adopts the rows.
Adopt ==
  LET known == {s \in Ids : row[s] # NoRow} IN
  /\ restarts' = restarts + 1
  /\ table' = known /\ seq' = IF known = {} THEN 0 ELSE CHOOSE s \in known : \A t \in known : t <= s
  /\ byChat' = [c \in Chats |-> 0] /\ home' = [s \in Ids |-> 0] /\ page' = {} /\ login' = [s \in Ids |-> 0]
  /\ takeover' = {} /\ processes' = {1} /\ toolCall' = [a \in Agents |-> NoCall] /\ human' = 0
  /\ victim' = 0 /\ leaving' = {} /\ down' = FALSE
  /\ latest' = [s \in Ids |-> IF home[s] # 0 THEN Saved(s) ELSE latest[s]]
  /\ overtaken' = {s \in overtaken : s \in known} /\ spared' = [s \in Ids |-> {}]
  /\ told' = told \cap known     \* a number that comes free is given again: callers that remember it are left out
  /\ UNCHANGED <<row, callsMade, takeovers, closed>>

Exit == down /\ leaving = {} /\ Adopt
Crash == ~down /\ restarts < MaxRestarts /\ Adopt

BrowserNext ==
  \/ \E a \in Agents :
       \/ \E s \in Ids : OpenById(a, s) \/ Act(a, "write", s) \/ Act(a, "read", s) \/ Close(a, s)
       \/ \E c \in Chats : OpenInChat(a, c)
       \/ \E c \in Chats \cup {NoChat} : Create(a, c)
       \/ SaveNew(a) \/ BindChat(a) \/ Gate(a) \/ activePage(a) \/ Navigate(a) \/ NavigateFails(a)
       \/ UsePage(a) \/ touch(a) \/ CloseContext(a) \/ DeleteSession(a) \/ DeleteRow(a)
  \/ \E s \in Ids :
       \/ (\E on \in BOOLEAN : SetTakeover(s, on)) \/ InjectInput(s)
       \/ reapIdle(s) \/ Leave(s)
  \/ Inject \/ Reap \/ Shutdown \/ Exit \/ Crash
  \/ \E p \in Processes : RecycleBloated(p)
BrowserSpec == BrowserInit /\ [][BrowserNext]_browserVars

(***************************************************************************)
(* Properties.                                                             *)
(***************************************************************************)
\* A context lives in a process that runs, no process has more than it may, and
\* pages belong to contexts.
BrowserTypeOK ==
  /\ processes \subseteq Processes /\ \A s \in Ids : home[s] \in processes \cup {0}
  /\ \A p \in processes : Contexts(p) <= MaxContexts
  /\ \A s \in page : home[s] # 0

\* No context is stranded: one that is held belongs to a session still in the
\* table, or on its way out, unless an open came upon a session being closed.
ContextsAreOwned == \A s \in Ids : home[s] # 0 =>
  s \in table \cup overtaken \/ \E a \in Agents : Is(a, "close", s)

\* A session without a context can have its login back: its row holds what its
\* latest context held, through evictions, shutdowns, failed writes and restarts
\* (a crash takes what no eviction saved).
LoginKept == \A s \in table :
  home[s] = 0 /\ ~(\E a \in Agents : Is(a, "close", s)) =>
    latest[s] = Saved(s)

\* A closed session does not come back, in the table or, with a restart in view,
\* as a row: no late touch or eviction writes it again.
ClosedStaysClosed == \A s \in closed \ overtaken : s \notin table /\ row[s] = NoRow

\* A step in which an agent's Open, Click or Type takes effect.
Acts(a, s) ==
  toolCall[a].id = s /\ toolCall[a].step = "act" /\ toolCall[a].op # "read" /\ toolCall'[a].step = "touch"

\* A human who takes a session over is disturbed by no more than the calls that
\* had passed their gate before: no other Open, Click or Type acts on the page.
GateHolds == [][\A a \in Agents : \A s \in takeover :
  Acts(a, s) => a \in spared[s]]_browserVars

\* Neither an agent's write nor the reaper acts on a session under takeover.
TakeoverHolds == [][\A s \in takeover \cap takeover' :
  /\ ~(\E a \in Agents : Acts(a, s))
  /\ s \in page /\ victim = s => s \in page']_browserVars

(* A context in a browser process always belongs to a session of the table, its
   login outlives evictions and restarts, a closed session does not come back,
   and once a human has taken over only calls that had passed the gate act on
   the page (runtime.go, with the reaper and the shutdown between any two
   sections). *)
BrowserSafe ==
  /\ [](BrowserTypeOK /\ ContextsAreOwned /\ LoginKept /\
       ClosedStaysClosed)
  /\ GateHolds
===============================================================================
