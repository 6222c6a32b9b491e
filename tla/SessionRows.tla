------------------------------ MODULE SessionRows ------------------------------
(***************************************************************************)
(* The rows of agent sessions (storage), as the HTTP handlers and a        *)
(* terminal on the same database change them.  A PATCH, the terminal's     *)
(* /mode and /cwd, and every submitted task load a row and later save all  *)
(* of it; recording a turn touches one column.  A session's on-disk state  *)
(* is filed under its working directory of the moment, or the root.        *)
(***************************************************************************)
EXTENDS Integers, FiniteSets

CONSTANTS
  Sessions,   \* ids, each given out once
  Clients,    \* HTTP requests in flight
  Tui,        \* the terminal's own load and save
  Modes, AutoMode,
  Dirs,
  Root,       \* no working directory, and the base of its state
  NoRow,
  MaxTurns    \* BOUND on the events of a session

ASSUME SessionsAssumption ==
  /\ Tui \notin Clients /\ Root \notin Dirs /\ AutoMode \in Modes /\ MaxTurns \in Nat /\ NoRow \notin Sessions
  /\ \A r \in [mode : Modes, dir : Dirs \cup {Root}] : r # NoRow

VARIABLES
  row,      \* agent_sessions: mode stands for every field that is freely set
  issued,   \* ids given out
  events,   \* how many events the session's log has
  filed,    \* bases that hold some of its state
  req,      \* each request: its step, its session, the row it loaded, its change
  jobs,     \* tasks submitted: <<session, working directory>>
  current,  \* the terminal's session, and what it knows of its row
  mirror,
  turn,     \* its exchange: the step, the message, the seq it has read
  cached,   \* its cache: events the cached history of a session covers, or -1
  recorded, \* GHOST the last event of the last exchange it completed
  acked,    \* GHOST the row as callers were last told it is
  stale     \* GHOST sessions once saved from an outdated copy

rowVars == <<row, issued, acked, stale>>
tuiVars == <<current, mirror, turn, cached, recorded>>
sessionVars == <<rowVars, events, filed, req, jobs, tuiVars>>

Bases == Dirs \cup {Root}
Rows == [mode : Modes, dir : Bases]
NoReq == [at |-> "none", s |-> NoRow, copy |-> NoRow, to |-> NoRow]
AtRest == [at |-> "rest", half |-> 0, seq |-> 0]

SessionsInit ==
  /\ row = [s \in Sessions |-> NoRow] /\ issued = {} /\ events = [s \in Sessions |-> 0]
  /\ filed = [s \in Sessions |-> {}] /\ req = [c \in Clients \cup {Tui} |-> NoReq] /\ jobs = {}
  /\ current = NoRow /\ mirror = NoRow /\ turn = AtRest
  /\ cached = [s \in Sessions |-> -1] /\ recorded = [s \in Sessions |-> 0]
  /\ acked = [s \in Sessions |-> NoRow] /\ stale = {}

---------------------------------------------------------------------------
(* New sessions. *)

\* The time of day in nanoseconds.
NewId(s) == s \notin issued

SaveNew(s, r) ==
  /\ row' = [row EXCEPT ![s] = r] /\ acked' = [acked EXCEPT ![s] = r]
  /\ issued' = issued \cup {s} /\ UNCHANGED stale

handleCreateSession(s) ==
  /\ NewId(s) /\ \E r \in Rows : SaveNew(s, r)
  /\ UNCHANGED <<events, filed, req, jobs, tuiVars>>

InvalidateSession(s) == cached' = IF s \in Sessions THEN [cached EXCEPT ![s] = -1] ELSE cached

AtPrompt == turn.at = "rest" /\ req[Tui].at = "none"

\* Also how the terminal starts when it finds no session, and /clear-session.
NewSession(s) ==
  /\ AtPrompt /\ NewId(s)
  /\ SaveNew(s, [mode |-> AutoMode, dir |-> Root]) /\ mirror' = [mode |-> AutoMode, dir |-> Root]
  /\ InvalidateSession(current) /\ current' = s
  /\ UNCHANGED <<events, filed, req, jobs, turn, recorded>>

\* /switch, and restoring the latest session.
SwitchSession(s) ==
  /\ AtPrompt /\ row[s] # NoRow
  /\ InvalidateSession(current) /\ current' = s /\ mirror' = row[s]
  /\ UNCHANGED <<rowVars, events, filed, req, jobs, turn, recorded>>

---------------------------------------------------------------------------
(* Load, and save the whole row. *)

Step(c, next) == req' = [req EXCEPT ![c].at = next]
Answer(c) == req' = [req EXCEPT ![c] = NoReq]

\* A missing session is a 404, and changes nothing.
NotFound(c, s) == req[c].at = "none" /\ row[s] = NoRow /\ UNCHANGED sessionVars

GetAgentSession(c, s, op, to) ==
  /\ req[c].at = "none" /\ row[s] # NoRow
  /\ c = Tui => AtPrompt /\ s = current /\ op = "patch"
  /\ req' = [req EXCEPT ![c] = [at |-> op, s |-> s, copy |-> row[s], to |-> to]]
  /\ UNCHANGED <<rowVars, events, filed, jobs, tuiVars>>

\* The statement writes every column, and inserts a row that is not there.
SaveAgentSession(c, r) ==
  LET s == req[c].s
  IN /\ row' = [row EXCEPT ![s] = r]
     /\ stale' = IF row[s] = req[c].copy THEN stale ELSE stale \cup {s}
     /\ UNCHANGED issued

\* A slip of the check: only a directory in place of another is refused.
Bug_mayMove(old, new) == old # Root /\ new # Root => new = old

\* A working directory may be set once.
mayMove(old, new) == old # Root => new = old

\* handlePatchSession; SetMode and SetWorkingDir of the terminal.
SavePatch(c) ==
  /\ req[c].at = "patch"
  /\ IF mayMove(req[c].copy.dir, req[c].to.dir)
     THEN /\ SaveAgentSession(c, req[c].to)
          /\ acked' = [acked EXCEPT ![req[c].s] = req[c].to]
          /\ IF c = Tui THEN mirror' = req[c].to /\ InvalidateSession(current)
                        ELSE UNCHANGED <<mirror, cached>>
     ELSE UNCHANGED <<rowVars, mirror, cached>>
  /\ Answer(c)
  /\ UNCHANGED <<events, filed, jobs, current, turn, recorded>>

\* handleCreateTask floats the session before it adds the task.
touchSessionOnSubmit(c) ==
  /\ req[c].at = "submit"
  /\ SaveAgentSession(c, req[c].copy) /\ Step(c, "add")
  /\ UNCHANGED <<acked, events, filed, jobs, tuiVars>>

\* The task has the loaded row's directory; its id may be taken.
AddTask(c) ==
  /\ req[c].at = "add" /\ Answer(c)
  /\ jobs' \in {jobs, jobs \cup {<<req[c].s, req[c].copy.dir>>}}
  /\ UNCHANGED <<rowVars, events, filed, tuiVars>>

---------------------------------------------------------------------------
(* handleDeleteSession: the row and its events, then the directory. *)

DeleteAgentSession(c) ==
  LET s == req[c].s
  IN /\ req[c].at = "delete"
     /\ IF row[s] = NoRow
        THEN Answer(c) /\ UNCHANGED <<row, events, acked, recorded>>
        ELSE /\ row' = [row EXCEPT ![s] = NoRow] /\ acked' = [acked EXCEPT ![s] = NoRow]
             /\ events' = [events EXCEPT ![s] = 0] /\ recorded' = [recorded EXCEPT ![s] = 0]
             /\ Step(c, "clean")
     /\ UNCHANGED <<issued, stale, filed, jobs, current, mirror, turn, cached>>

RemoveAll(c) ==
  /\ req[c].at = "clean" /\ Answer(c)
  /\ filed' \in {filed, [filed EXCEPT ![req[c].s] = @ \ {req[c].copy.dir}]}
  /\ UNCHANGED <<rowVars, events, jobs, tuiVars>>

---------------------------------------------------------------------------
(* The tasks' runs: they file state, record events, and end. *)

RunJob(j) ==
  /\ \/ filed' = [filed EXCEPT ![j[1]] = @ \cup {j[2]}] /\ UNCHANGED <<jobs, events>>
     \/ events[j[1]] < MaxTurns /\ events' = [events EXCEPT ![j[1]] = @ + 1] /\ UNCHANGED <<jobs, filed>>
     \/ jobs' = jobs \ {j} /\ UNCHANGED <<filed, events>>
  /\ UNCHANGED <<rowVars, req, tuiVars>>

---------------------------------------------------------------------------
(* An exchange at the terminal. *)

\* The history the model is given.
RecentTurns ==
  /\ AtPrompt /\ current # NoRow
  /\ cached' = IF cached[current] = -1 THEN [cached EXCEPT ![current] = events[current]] ELSE cached
  /\ turn' = [at |-> "read", half |-> 1, seq |-> 0]
  /\ UNCHANGED <<rowVars, events, filed, req, jobs, current, mirror, recorded>>

\* The run fails, or its prompt and then its answer are recorded.
ReadFrom ==
  /\ turn.at = "read"
  /\ turn' \in {AtRest, [turn EXCEPT !.at = "append", !.seq = events[current]]}
  /\ UNCHANGED <<rowVars, events, filed, req, jobs, current, mirror, cached, recorded>>

\* Only onto the log that was read.
appendTurnEvent ==
  /\ turn.at = "append"
  /\ IF events[current] = turn.seq /\ turn.seq < MaxTurns
     THEN events' = [events EXCEPT ![current] = @ + 1] /\ turn' = [turn EXCEPT !.at = "touch"]
     ELSE turn' = AtRest /\ UNCHANGED events
  /\ UNCHANGED <<rowVars, filed, req, jobs, current, mirror, cached, recorded>>

\* No field but the time of use, which is not modelled.
TouchAgentSession == row[current] # NoRow /\ UNCHANGED rowVars

Dropped == InvalidateSession(current)

\* A touch fails when the row is gone, or for the database's reasons, and
\* the cache is then left alone.
touchCurrentSession ==
  /\ turn.at = "touch"
  /\ \/ /\ TouchAgentSession /\ Dropped
        /\ IF turn.half = 1
           THEN turn' = [turn EXCEPT !.at = "read", !.half = 2] /\ UNCHANGED recorded
           ELSE turn' = AtRest /\ recorded' = [recorded EXCEPT ![current] = turn.seq + 1]
     \/ turn' = AtRest /\ UNCHANGED <<rowVars, cached, recorded>>
  /\ UNCHANGED <<events, filed, req, jobs, current, mirror>>

SessionsNext ==
  \/ \E s \in Sessions : handleCreateSession(s) \/ NewSession(s) \/ SwitchSession(s)
  \/ \E c \in Clients \cup {Tui}, s \in Sessions :
       \/ \E r \in Rows : GetAgentSession(c, s, "patch", r)
       \/ NotFound(c, s)
       \/ \E op \in {"submit", "delete"} : GetAgentSession(c, s, op, NoRow)
  \/ \E c \in Clients \cup {Tui} :
       \/ SavePatch(c) \/ touchSessionOnSubmit(c) \/ AddTask(c)
       \/ DeleteAgentSession(c) \/ RemoveAll(c)
  \/ \E j \in jobs : RunJob(j)
  \/ RecentTurns \/ ReadFrom \/ appendTurnEvent \/ touchCurrentSession

SessionsSpec == SessionsInit /\ [][SessionsNext]_sessionVars

---------------------------------------------------------------------------

\* Types; a request acts on a row it has loaded.
SessionsTypeOK ==
  /\ \A c \in Clients \cup {Tui} : req[c].at # "none" => req[c].copy \in Rows
  /\ \A s \in Sessions :
       /\ row[s] \in Rows \cup {NoRow} /\ acked[s] \in Rows \cup {NoRow}
       /\ filed[s] \subseteq Bases /\ events[s] \in 0..MaxTurns /\ cached[s] \in -1..MaxTurns
  /\ issued \subseteq Sessions /\ jobs \subseteq Sessions \X Bases
  /\ current \in Sessions \cup {NoRow} /\ turn.half \in 0..2

\* What a caller was told the row is stands until another asks for a change,
\* or deletes it: neither a submitted task nor a recorded turn takes it back.
\* The exception is a save from a copy that another save had overtaken.
AnsweredStands == \A s \in Sessions \ stale : row[s] = acked[s]

\* With the same exception, a working directory once set stays, and
WorkingDirOnce ==
  [][\A s \in Sessions : row[s] # NoRow /\ row'[s] # NoRow /\ row[s].dir # Root
       => row'[s].dir = row[s].dir \/ s \in stale']_sessionVars

\* a session's state lies only where recovery looks for it: under the root or
\* the directory its row names.
StateReachable ==
  \A s \in Sessions \ stale : row[s] # NoRow => filed[s] \subseteq {Root, row[s].dir}

\* The same without the exception.
NothingStranded == \A s \in Sessions : row[s] # NoRow => filed[s] \subseteq {Root, row[s].dir}

\* A deleted session does not come back, but for the same exception.
DeletedStays ==
  [][\A s \in issued : row[s] = NoRow => row'[s] = NoRow \/ s \in stale']_sessionVars

\* An exchange the terminal has recorded is in the history of the next one,
\* unless the session was deleted and such a save brought its row back.
Remembered == \A s \in Sessions \ stale : cached[s] = -1 \/ cached[s] >= recorded[s]

(* A session's row is what its callers were told, its state is filed where
   recovery looks, its history holds what was recorded and a deleted one stays
   deleted, but for a save from a copy that another had overtaken. *)
RowsSafe ==
  /\ [](SessionsTypeOK /\ AnsweredStands /\ StateReachable /\ Remembered)
  /\ WorkingDirOnce
  /\ DeletedStays
===============================================================================
