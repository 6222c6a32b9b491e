----------------------------- MODULE Delegation -----------------------------
(***************************************************************************)
(* Executions of RunTask and what they leave behind: the task they serve,  *)
(* the children they delegate to (internal/runtime/delegation.go), the row *)
(* of each (task_runs), the boundary tokens each holds, and the way of a    *)
(* background child's result back to its parent: a runtime event, which a  *)
(* background job turns into an agent message (cli/subtask_reinject.go).   *)
(*                                                                         *)
(* A child of a batch runs while its parent waits.  A background child     *)
(* takes a token and opens its row on its parent's goroutine, then runs on *)
(* one of its own and may outlive the parent.                              *)
(***************************************************************************)
EXTENDS Naturals, Sequences, FiniteSets

CONSTANTS
  Legs,           \* the executions, each with a run id of its own
  KindOf,         \* "task", "batch" or "background"
  ParentOf,       \* the task whose tool call delegated
  Agents,         \* agents with an inbox
  Letters,        \* ids of messages agents send each other
  MaxConcurrent,  \* children of a batch at work at a time
  MaxApplies,     \* bound: plugin changes
  MaxCrashes,     \* bound: ends of the process
  Faults          \* whether a write to the database may fail

Kinds == {"task", "batch", "background"}

ASSUME DelegationAssumption ==
  /\ KindOf \in [Legs -> Kinds]
  /\ ParentOf \in [Legs -> Legs]
  /\ \A l \in Legs : KindOf[l] # "task" => KindOf[ParentOf[l]] = "task"
  /\ Letters \cap Legs = {}
  /\ MaxConcurrent \in Nat \ {0} /\ MaxApplies \in Nat /\ MaxCrashes \in Nat
  /\ Faults \in BOOLEAN

VARIABLES
  row,          \* row[l]: the status column of the execution's row
  place,        \* where the execution is
  told,      \* what its caller is told
  held,      \* tokens of the task gate: <<l, "run">> and <<l, "work">>
  applyPending,   \* a plugin change waits for a boundary
  version,   \* the plugin set in force, counted
  seen,      \* the plugin set when the execution's work began
  unwritten, \* executions whose last write failed
  events,    \* subtask_completed events in the order published
  inbox,     \* agent messages by id: a child's result has its child's id
  lost,      \* children whose event was not published: an audit event or the log says so
  surfaced,  \* ids of messages an agent has been shown
  up,        \* the process serves
  crashes

tokenVars == <<held, applyPending, version, seen>>
mailVars == <<events, lost, inbox, surfaced>>
legVars == <<row, place, told, unwritten>>
delegationVars == <<legVars, tokenVars, mailVars, up, crashes>>

(***************************************************************************)
(* The table task_runs (internal/storage/task_runs.go): one row for each   *)
(* execution, written when it starts and once more when it ends.  A row    *)
(* still running when a process starts was left by a process that is gone; *)
(* the start-up sweep says so.                                             *)
(***************************************************************************)
EndedStatus == {"completed", "failed", "suspended"}
RowStatus == {"absent", "running", "interrupted"} \cup EndedStatus

RowsInit == row = [l \in Legs |-> "absent"]

\* The id is the primary key: a second insert fails.
StartTaskRun(l) ==
  /\ row[l] = "absent"
  /\ row' = [row EXCEPT ![l] = "running"]

\* Updates by id, whatever the status was; an id never started is an error.
FinishTaskRun(l, status) ==
  /\ status \in EndedStatus
  /\ row[l] # "absent"
  /\ row' = [row EXCEPT ![l] = status]

SweepRunning ==
  row' = [l \in Legs |-> IF row[l] = "running" THEN "interrupted" ELSE row[l]]

(***************************************************************************)
(* The executions.                                                         *)
(***************************************************************************)
Places == {"idle", "dispatched", "spawned", "entered", "looping", "closing",
           "ending", "publishing", "leaving", "returned", "dead"}

\* A goroutine, or the caller's, is at work for the execution.
Working(l) == place[l] \notin {"idle", "returned", "dead"}

Background == {l \in Legs : KindOf[l] = "background"}
Nobody == "nobody"
NoMessage == [to |-> Nobody, from |-> Nobody, status |-> "none"]
Mail == Background \cup Letters
Messages == [to : Agents \cup {Nobody}, from : Agents \cup {Nobody, "delegate-runtime"},
             status : {"none", "unread", "read"}]

DelegationInit ==
  /\ RowsInit
  /\ place = [l \in Legs |-> "idle"]
  /\ told = [l \in Legs |-> "nothing"]
  /\ held = {} /\ applyPending = FALSE /\ version = 0
  /\ seen = [l \in Legs |-> 0]
  /\ unwritten = {} /\ events = <<>> /\ lost = {} /\ surfaced = {}
  /\ inbox = [i \in Mail |-> NoMessage]
  /\ up = TRUE /\ crashes = 0

Goto(l, p) == place' = [place EXCEPT ![l] = p]
Tell(l, what) == told' = [told EXCEPT ![l] = what]

-----------------------------------------------------------------------------
(* Starting.                                                               *)

\* A task arrives at depth 0, where the gate can turn it away.
Admit(l) ==
  /\ up /\ KindOf[l] = "task" /\ place[l] = "idle"
  /\ IF applyPending
     THEN Goto(l, "returned") /\ Tell(l, "refused") /\ UNCHANGED <<held, seen>>
     ELSE /\ Goto(l, "entered")
          /\ held' = held \cup {<<l, "run">>}
          /\ seen' = [seen EXCEPT ![l] = version]
          /\ UNCHANGED told
  /\ UNCHANGED <<row, unwritten, applyPending, version, mailVars, up, crashes>>

AtWork(p) == {l \in Legs : KindOf[l] = "batch" /\ ParentOf[l] = p /\ Working(l)}

\* RunSubTasks: a slot of the batch's semaphore, then RunTask of the child,
\* whose BeginChild is never refused.
StartInBatch(l) ==
  /\ KindOf[l] = "batch" /\ place[l] = "idle"
  /\ place[ParentOf[l]] = "looping"
  /\ Cardinality(AtWork(ParentOf[l])) < MaxConcurrent
  /\ Goto(l, "entered")
  /\ held' = held \cup {<<l, "run">>}
  /\ seen' = [seen EXCEPT ![l] = version]
  /\ UNCHANGED <<row, told, unwritten, applyPending, version, mailVars, up, crashes>>

\* A slip of RunSubTaskAsync: the child's own BeginChild is trusted to cover it.
Bug_NoTokenOfItsOwn(l) ==
  /\ KindOf[l] = "background" /\ place[l] = "idle"
  /\ place[ParentOf[l]] = "looping"
  /\ Goto(l, "dispatched")
  /\ seen' = [seen EXCEPT ![l] = version]
  /\ UNCHANGED <<row, told, unwritten, held, applyPending, version, mailVars, up, crashes>>

\* RunSubTaskAsync on the parent's goroutine: a token for the work to come ...
Dispatch(l) ==
  /\ KindOf[l] = "background" /\ place[l] = "idle"
  /\ place[ParentOf[l]] = "looping"
  /\ Goto(l, "dispatched")
  /\ held' = held \cup {<<l, "work">>}
  /\ seen' = [seen EXCEPT ![l] = version]
  /\ UNCHANGED <<row, told, unwritten, applyPending, version, mailVars, up, crashes>>

\* ... and its opening row; without the row there is no child, and no token.
OpenAhead(l) ==
  /\ place[l] = "dispatched"
  /\ \/ /\ StartTaskRun(l)
        /\ Goto(l, "spawned")
        /\ UNCHANGED <<told, held>>
     \/ /\ Faults
        /\ Goto(l, "returned") /\ Tell(l, "refused")
        /\ held' = held \ {<<l, "work">>}
        /\ UNCHANGED row
  /\ UNCHANGED <<unwritten, applyPending, version, seen, mailVars, up, crashes>>

\* The child's goroutine reaches RunTask.
EnterChild(l) ==
  /\ place[l] = "spawned"
  /\ Goto(l, "entered")
  /\ held' = held \cup {<<l, "run">>}
  /\ UNCHANGED <<row, told, unwritten, applyPending, version, seen, mailVars, up, crashes>>

\* RunTask writes the opening row unless the dispatcher has; a task whose start
\* is not on disk does not run.
Open(l) ==
  /\ place[l] = "entered"
  /\ \/ KindOf[l] = "background" /\ Goto(l, "looping") /\ UNCHANGED <<row, told>>
     \/ KindOf[l] # "background" /\ StartTaskRun(l) /\ Goto(l, "looping") /\ UNCHANGED told
     \/ /\ KindOf[l] # "background" /\ Faults
        /\ Goto(l, "ending") /\ Tell(l, "failed")
        /\ UNCHANGED row
  /\ UNCHANGED <<unwritten, tokenVars, mailVars, up, crashes>>

-----------------------------------------------------------------------------
(* Ending.                                                                 *)

\* The parent's tool call waits for the whole of its batch.
ChildrenBack(l) == AtWork(l) = {}

\* The successful ends of RunTask.  The write may fail, and may have reached
\* the table when its budget ran out: the run then counts as failed and the
\* deferred write follows.
Complete(l) ==
  /\ place[l] = "looping" /\ ChildrenBack(l)
  /\ \/ FinishTaskRun(l, "completed") /\ Tell(l, "completed") /\ Goto(l, "ending")
     \/ /\ Faults
        /\ Tell(l, "failed") /\ Goto(l, "closing")
        /\ FinishTaskRun(l, "completed") \/ UNCHANGED row
  /\ UNCHANGED <<unwritten, tokenVars, mailVars, up, crashes>>

\* The other ends; children run in Auto mode, so only a task can suspend.
Break(l) ==
  /\ place[l] = "looping" /\ ChildrenBack(l)
  /\ \/ Tell(l, "failed")
     \/ KindOf[l] = "task" /\ Tell(l, "suspended")
  /\ Goto(l, "closing")
  /\ UNCHANGED <<row, unwritten, tokenVars, mailVars, up, crashes>>

\* The deferred write, detached from the caller's cancellation.
Close(l) ==
  /\ place[l] = "closing"
  /\ Goto(l, "ending")
  /\ \/ FinishTaskRun(l, told[l]) /\ UNCHANGED unwritten
     \/ Faults /\ unwritten' = unwritten \cup {l} /\ UNCHANGED row
  /\ UNCHANGED <<told, tokenVars, mailVars, up, crashes>>

\* RunTask returns and its own token with it.
End(l) ==
  /\ place[l] = "ending"
  /\ held' = held \ {<<l, "run">>}
  /\ Goto(l, IF KindOf[l] = "background" THEN "publishing" ELSE "returned")
  /\ UNCHANGED <<row, told, unwritten, applyPending, version, seen, mailVars, up, crashes>>

\* A slip of the goroutine: only an answer is worth an event.
Bug_PublishesSuccess(l) ==
  /\ place[l] = "publishing"
  /\ events' = IF told[l] = "completed" THEN Append(events, l) ELSE events
  /\ Goto(l, "leaving")
  /\ UNCHANGED <<row, told, unwritten, tokenVars, lost, inbox, surfaced, up, crashes>>

\* The outcome, good or bad, is published; when that fails an audit event and
\* the log are all that is left, and neither is read back.
Publish(l) ==
  /\ place[l] = "publishing"
  /\ Goto(l, "leaving")
  /\ \/ events' = Append(events, l) /\ UNCHANGED lost
     \/ Faults /\ lost' = lost \cup {l} /\ UNCHANGED events
  /\ UNCHANGED <<row, told, unwritten, tokenVars, inbox, surfaced, up, crashes>>

\* The goroutine's deferred end of its token.
Leave(l) ==
  /\ place[l] = "leaving"
  /\ held' = held \ {<<l, "work">>}
  /\ Goto(l, "returned")
  /\ UNCHANGED <<row, told, unwritten, applyPending, version, seen, mailVars, up, crashes>>

-----------------------------------------------------------------------------
(* The gate, as Boundary has it.                                           *)

RequestApply ==
  /\ up /\ ~applyPending /\ version < MaxApplies
  /\ applyPending' = TRUE
  /\ UNCHANGED <<legVars, held, version, seen, mailVars, up, crashes>>

\* The change lands at a boundary, or the wait for one is given up.
SettleApply ==
  /\ up /\ applyPending
  /\ applyPending' = FALSE
  /\ \/ held = {} /\ version' = version + 1
     \/ held # {} /\ UNCHANGED version
  /\ UNCHANGED <<legVars, held, seen, mailVars, up, crashes>>

-----------------------------------------------------------------------------
(* Messages.                                                               *)

\* SaveAgentMessage inserts or overwrites every column.
SaveAgentMessage(i, m) == inbox' = [inbox EXCEPT ![i] = m]

SendMessage(i) ==
  \E from, to \in Agents :
    /\ up /\ inbox[i] = NoMessage
    /\ SaveAgentMessage(i, [to |-> to, from |-> from, status |-> "unread"])
    /\ UNCHANGED <<legVars, tokenVars, events, lost, surfaced, up, crashes>>

\* The scan saves a message for every event there is, in order, at each tick;
\* a save that fails ends the scan.
Reinjected == [to |-> Nobody, from |-> "delegate-runtime", status |-> "unread"]
Reinject ==
  /\ up /\ events # <<>>
  /\ \E n \in 1 .. Len(events) :
       /\ n = Len(events) \/ Faults
       /\ LET saved == {events[i] : i \in 1 .. n}
          IN inbox' = [i \in Mail |-> IF i \in saved THEN Reinjected ELSE inbox[i]]
  /\ UNCHANGED <<legVars, tokenVars, events, lost, surfaced, up, crashes>>

\* ListAgentMessages as its callers use it: each asks for what was sent to an
\* agent, the read_messages tool also for what its caller sent.
Inbox(a) == {i \in Mail : inbox[i].to = a}
Outbox(a) == {i \in Mail : inbox[i].from = a}
ReadMessages(a) ==
  /\ up
  /\ \E ids \in {Inbox(a), Outbox(a)} :
       /\ surfaced' = surfaced \cup ids
       /\ inbox' = [i \in Mail |-> IF i \in ids /\ inbox[i].status = "unread"
                                   THEN [inbox[i] EXCEPT !.status = "read"] ELSE inbox[i]]
  /\ UNCHANGED <<legVars, tokenVars, events, lost, up, crashes>>

-----------------------------------------------------------------------------
(* The end of the process, and the next one.                               *)

Crash ==
  /\ up /\ crashes < MaxCrashes
  /\ crashes' = crashes + 1
  /\ up' = FALSE /\ held' = {} /\ applyPending' = FALSE
  /\ place' = [l \in Legs |-> IF Working(l) THEN "dead" ELSE place[l]]
  /\ UNCHANGED <<row, told, unwritten, version, seen, mailVars>>

\* sweepInterruptedRuns before a task is taken; if it cannot be recorded the
\* process does not come up, though the rows are swept.
Startup ==
  /\ ~up
  /\ SweepRunning
  /\ up' \in {TRUE, ~Faults}
  /\ UNCHANGED <<place, told, unwritten, tokenVars, mailVars, crashes>>

-----------------------------------------------------------------------------
Step(l) ==
  \/ Admit(l) \/ StartInBatch(l) \/ Dispatch(l) \/ OpenAhead(l) \/ EnterChild(l)
  \/ Open(l) \/ Complete(l) \/ Break(l) \/ Close(l) \/ End(l) \/ Publish(l) \/ Leave(l)

DelegationNext ==
  \/ \E l \in Legs : Step(l)
  \/ \E a \in Agents : ReadMessages(a)
  \/ \E i \in Letters : SendMessage(i)
  \/ RequestApply \/ SettleApply \/ Reinject \/ Crash \/ Startup

DelegationSpec == DelegationInit /\ [][DelegationNext]_delegationVars

\* The goroutines of background children run on, the background scheduler
\* ticks, and an agent looks at its messages again and again.
ChildStep(l) == OpenAhead(l) \/ EnterChild(l) \/ Open(l) \/ Complete(l)
                \/ Close(l) \/ End(l) \/ Publish(l) \/ Leave(l)

DelegationFairness ==
  /\ \A l \in Background : WF_delegationVars(ChildStep(l))
  /\ WF_delegationVars(Reinject) /\ WF_delegationVars(Startup)
  /\ \A a \in Agents : WF_delegationVars(ReadMessages(a))

-----------------------------------------------------------------------------
(* Properties.                                                             *)

DelegationTypeOK ==
  /\ row \in [Legs -> RowStatus]
  /\ place \in [Legs -> Places]
  /\ told \in [Legs -> {"nothing", "refused"} \cup EndedStatus]
  /\ held \subseteq Legs \X {"run", "work"}
  /\ applyPending \in BOOLEAN /\ up \in BOOLEAN
  /\ version \in Nat /\ crashes \in Nat
  /\ seen \in [Legs -> Nat]
  /\ unwritten \subseteq Legs /\ lost \subseteq Background
  /\ events \in Seq(Background)
  /\ inbox \in [Mail -> Messages]
  /\ surfaced \subseteq Mail

\* What a caller was told has happened is what the table says: a completed run
\* is a completed row, and with the last write through every end is the row's.
TruthfulEnding ==
  \A l \in Legs : place[l] = "returned" =>
    /\ told[l] = "completed" => row[l] = "completed"
    /\ told[l] \in EndedStatus /\ l \notin unwritten /\ row[l] # "absent"
         => row[l] = told[l]

\* Only a run whose process is gone, or whose last write failed, is called
\* interrupted.  (The premise is the sweep's own: one process at a time.)
InterruptedIsDead ==
  \A l \in Legs : row[l] = "interrupted" => place[l] = "dead" \/ l \in unwritten

\* A row that has ended stays as it ended: no sweep and no other leg touches it.
EndedForGood ==
  [][\A l \in Legs : row[l] \in EndedStatus /\ place[l] \in {"returned", "dead"}
                       => row'[l] = row[l]]_delegationVars

\* From its dispatch to the publishing of its outcome a leg works under one plugin
\* set, also when it outlives the task that delegated it.
OneCatalog ==
  \A l \in Legs : Working(l) => seen[l] = version

\* A leg that is over holds no token: a change waits for nobody in vain.
NoTokenLeft == \A t \in held : Working(t[1])

\* The outcome of a background child, good or bad, becomes a message; else its
\* loss was recorded, or the process is gone and the sweep has told of it.
ResultArrives ==
  \A l \in Background : place[l] = "spawned" ~>
    \/ inbox[l].status # "none" \/ l \in lost
    \/ place[l] = "dead" /\ row[l] # "running"

\* The message is one its reader gets to see.
ResultSurfaces ==
  \A l \in Background : place[l] = "spawned" ~> l \in surfaced \/ place[l] = "dead"

(* What a delegating task was told is what the table says, only the dead are
   called interrupted, and a leg works under one plugin set, holds its token no
   longer, and ends for good, whatever order runs, sweeps and crashes take. *)
DelegationSafe ==
  /\ [](DelegationTypeOK /\ TruthfulEnding /\ InterruptedIsDead /\
       OneCatalog /\ NoTokenLeft)
  /\ EndedForGood
===============================================================================
