---------------------------- MODULE EventRecorder ----------------------------
(***************************************************************************)
(* The executions of RunTask on one session, one after another under the   *)
(* session's run lock, and the events they record                          *)
(* (internal/runtime/eventlog.go, and newTaskRecorder, runToolLoop,        *)
(* generateStep and executeToolCalls of runtime.go).  Events are buffered  *)
(* and written at barriers: before a model request, before a tool's body,  *)
(* before the next step.  A write that fails stops what the barrier        *)
(* guards.  The process may end anywhere, and Load may mend the log when   *)
(* no execution is at work.                                                *)
(***************************************************************************)
EXTENDS SessionEvents

CONSTANTS
  Answers,      \* what a model may ask for: sequences of ids as the provider sends them
  MaxRounds,    \* maxToolRounds
  MaxRuns,      \* bound: executions of RunTask
  MaxFaults,    \* bound: writes that fail
  MaxCrashes,   \* bound: ends of the process
  MaxLoads      \* bound: recoveries that mend

ASSUME RecorderAssumption ==
  /\ Answers \subseteq Seq(Ids) /\ <<>> \in Answers
  /\ MaxRounds \in Nat \ {0} /\ MaxRuns \in Nat /\ MaxFaults \in Nat
  /\ MaxCrashes \in Nat /\ MaxLoads \in Nat

\* "At most len(calls) ids are used and len(calls) arrived": there are others.
ASSUME IdsSuffice ==
  \A calls \in Answers, used \in SUBSET Ids :
    IsFiniteSet(used) /\ Cardinality(used) < Len(calls)
    => \E id \in Ids : id \notin used \cup Range(calls)

VARIABLES
  pc,          \* where the execution is
  rec,         \* its eventRecorder
  asked,       \* the calls of the response in hand
  todo,        \* those not yet recorded
  round,
  checkpoint,  \* calls of the session's suspended run
  executed,    \* keys of the calls whose tool ran
  spent,       \* responses the model gave for each task
  runs, faults, crashes, loads

loopVars == <<asked, todo, round, checkpoint>>
bounds == <<runs, crashes, loads>>
vars == <<log, pc, rec, loopVars, executed, spent, faults, bounds>>

\* Places where a flush is due, and where it leads.
After == [resuming |-> "deciding", asking |-> "thinking", asking_last |-> "thinking_last",
          calling |-> "dispatching", stepped |-> "between", spent |-> "last",
          answered |-> "finishing", closing |-> "idle", suspending |-> "idle",
          ended |-> "idle"]

Places == DOMAIN After \cup {After[p] : p \in DOMAIN After} \cup {"choosing"}

NoRecorder == [task |-> "none", pending |-> <<>>, nextSeq |-> 0, seqKnown |-> FALSE,
               turn |-> 0, step |-> 0]

NoCalls == <<"nothing">>

Init ==
  /\ log = <<>> /\ pc = "idle" /\ rec = NoRecorder
  /\ asked = <<>> /\ todo = <<>> /\ round = 0 /\ checkpoint = NoCalls
  /\ executed = {} /\ spent = [t \in Tasks |-> 0]
  /\ runs = 0 /\ faults = 0 /\ crashes = 0 /\ loads = 0

-----------------------------------------------------------------------------
(* The record methods: each appends to the buffer of a recorder.           *)

Put(r, type, id, calls, usage) ==
  [r EXCEPT !.pending = Append(@,
     [type |-> type, seq |-> -1, turn |-> r.turn, step |-> r.step, task |-> r.task,
      id |-> id, calls |-> calls, usage |-> usage, by |-> "run", owner |-> "none"])]

Plain(r, type) == Put(r, type, "none", <<>>, 0)

recordTurnStart(r, turn) == Plain([r EXCEPT !.turn = turn, !.step = 0], "turn/start")
recordUserMessage(r) == Plain(r, "user")
recordStepStart(r) == Plain(r, "step/start")
recordAssistantMessage(r, calls, usage) == Put(r, "assistant", "none", calls, usage)
recordToolCall(r, id) == Put(r, "call", id, <<>>, 0)
recordToolResult(r, id) == Put(r, "result", id, <<>>, 0)
recordStepEnd(r) == [Plain(r, "step/end") EXCEPT !.step = @ + 1]
recordTurnEnd(r) == Plain(r, "turn/end")

\* The call a failed barrier kept from its tool is taken back.
dropBufferedToolCall(r) == [r EXCEPT !.pending = SubSeq(@, 1, Len(@) - 1)]

\* newTaskRecorder: one past the highest turn on record.
NextTurn == IF log = <<>> THEN 0 ELSE 1 + Max({log[i].turn : i \in DOMAIN log})

\* disambiguateCallIDs: an id that is taken gives way to one no call arrived with.
Disambiguated(calls) ==
  LET ids[i \in 0 .. Len(calls)] ==
        IF i = 0 THEN <<>>
        ELSE Append(ids[i - 1],
               IF calls[i] \in Range(ids[i - 1])
               THEN CHOOSE id \in Ids : id \notin Range(ids[i - 1]) \cup Range(calls)
               ELSE calls[i])
  IN ids[Len(calls)]

-----------------------------------------------------------------------------
(* Barriers.                                                               *)

\* persistPending: the first flush of an execution aligns its cursor with the
\* log, the later ones go by their own count.
Cursor == IF rec.seqKnown THEN rec.nextSeq ELSE Len(log)

Unwritten(r) == [r EXCEPT !.seqKnown = TRUE, !.nextSeq = Cursor]
Written(r) == [r EXCEPT !.seqKnown = TRUE, !.nextSeq = Cursor + Len(r.pending), !.pending = <<>>]

Over == rec' = NoRecorder /\ asked' = <<>> /\ todo' = <<>> /\ round' = 0

\* flush: the buffer goes to the log, and the last flush of an execution ends it.
Flush ==
  /\ pc \in DOMAIN After
  /\ AppendBatch(Numbered(Cursor, rec.pending))
  /\ pc' = After[pc]
  /\ IF After[pc] = "idle" THEN Over
     ELSE rec' = Written(rec) /\ UNCHANGED <<asked, todo, round>>
  /\ UNCHANGED <<checkpoint, executed, spent, faults, bounds>>

\* What the error path records on its way to closeTurnOnError.
Stopped(p, r) ==
  recordTurnEnd(CASE p \in {"asking", "asking_last"} -> recordStepEnd(r)
                  [] p = "calling" -> recordStepEnd(dropBufferedToolCall(r))
                  [] OTHER -> r)

\* The write fails and the buffer is kept.  Whoever waited at the barrier gives
\* up; an execution that was on its way out is over, its buffer lost.
FlushFails ==
  /\ pc \in DOMAIN After
  /\ faults < MaxFaults /\ faults' = faults + 1
  /\ IF After[pc] = "idle" THEN pc' = "idle" /\ Over
     ELSE /\ pc' = "closing" /\ rec' = Stopped(pc, Unwritten(rec))
          /\ UNCHANGED <<asked, todo, round>>
  /\ UNCHANGED <<log, checkpoint, executed, spent, bounds>>

\* The turn is closed for a reason other than the log.
Fail(r) ==
  /\ pc' = "closing" /\ rec' = recordTurnEnd(r)
  /\ UNCHANGED <<log, loopVars, executed, spent, faults, bounds>>

-----------------------------------------------------------------------------
(* An execution.                                                           *)

\* newEventRecorder and the first two events of a turn.
Opening(t, turn) == recordUserMessage(recordTurnStart([NoRecorder EXCEPT !.task = t], turn))

ResumedUsage == 0

\* RunTask from the session lock on: a suspended run is taken up where it
\* stopped, in a turn of its own, any other starts with a model request.
RunTask(t) ==
  /\ pc = "idle" /\ runs < MaxRuns /\ runs' = runs + 1
  /\ LET r == recordStepStart(Opening(t, NextTurn))
     IN IF checkpoint # NoCalls
        THEN /\ rec' = recordAssistantMessage(r, checkpoint, ResumedUsage)
             /\ asked' = checkpoint /\ pc' = "resuming"
        ELSE rec' = r /\ pc' = "asking" /\ UNCHANGED asked
  /\ UNCHANGED <<log, todo, round, checkpoint, executed, spent, faults, crashes, loads>>

\* The checkpoint cannot be read, or the prompt not built.
RunTaskFails(t) ==
  /\ pc = "idle" /\ runs < MaxRuns /\ runs' = runs + 1
  /\ pc' = "closing" /\ rec' = recordTurnEnd(Opening(t, NextTurn))
  /\ UNCHANGED <<log, loopVars, executed, spent, faults, crashes, loads>>

Spend == spent' = [spent EXCEPT ![rec.task] = @ + 1]

\* generateStep: the model's response opens a step the loop will close.
ModelAnswers ==
  \E calls \in Answers :
    /\ pc = "thinking" /\ pc' = "deciding"
    /\ asked' = Disambiguated(calls)
    /\ rec' = recordAssistantMessage(rec, asked', 1)
    /\ Spend
    /\ UNCHANGED <<log, todo, round, checkpoint, executed, faults, bounds>>

\* generateFinalStep: what it asks for is recorded and left undone.
ModelConcludes ==
  \E calls \in Answers :
    /\ pc = "thinking_last" /\ pc' = "answered"
    /\ asked' = Disambiguated(calls)
    /\ rec' = recordStepEnd(recordAssistantMessage(rec, asked', 1))
    /\ Spend
    /\ UNCHANGED <<log, todo, round, checkpoint, executed, faults, bounds>>

ModelFails == pc \in {"thinking", "thinking_last"} /\ Fail(recordStepEnd(rec))

\* checkSuspend: the round waits for a human and its turn ends here.
Suspend ==
  /\ pc = "deciding" /\ round < MaxRounds /\ asked # <<>>
  /\ pc' = "suspending"
  /\ checkpoint' = asked
  /\ rec' = recordTurnEnd(recordStepEnd(rec))
  /\ UNCHANGED <<log, asked, todo, round, executed, spent, faults, bounds>>

SuspendFails == pc = "deciding" /\ round < MaxRounds /\ asked # <<>> /\ Fail(recordStepEnd(rec))

StartRound ==
  /\ pc = "deciding" /\ round < MaxRounds /\ asked # <<>>
  /\ pc' = "choosing" /\ todo' = asked
  /\ UNCHANGED <<log, rec, asked, round, checkpoint, executed, spent, faults, bounds>>

\* executeToolCalls: a call is on record ...
RecordCall ==
  /\ pc = "choosing" /\ todo # <<>>
  /\ pc' = "calling"
  /\ rec' = recordToolCall(rec, Head(todo))
  /\ UNCHANGED <<log, loopVars, executed, spent, faults, bounds>>

\* A slip of executeToolCalls: a tool that fails leaves no result.
Bug_Dispatch ==
  /\ pc = "dispatching" /\ pc' = "choosing"
  /\ executed' = executed \cup {<<rec.turn, rec.step, Head(todo)>>}
  /\ rec' \in {rec, recordToolResult(rec, Head(todo))}
  /\ todo' = Tail(todo)
  /\ UNCHANGED <<log, asked, round, checkpoint, spent, faults, bounds>>

\* ... before its tool runs; the result, an error too, is only buffered.
Dispatch ==
  /\ pc = "dispatching" /\ pc' = "choosing"
  /\ executed' = executed \cup {<<rec.turn, rec.step, Head(todo)>>}
  /\ rec' = recordToolResult(rec, Head(todo))
  /\ todo' = Tail(todo)
  /\ UNCHANGED <<log, asked, round, checkpoint, spent, faults, bounds>>

\* An event of the bus, before a call or after a result, cannot be published.
RoundFails == pc = "choosing" /\ Fail(recordStepEnd(rec))

EndStep(p) ==
  /\ pc' = p /\ rec' = recordStepEnd(rec)
  /\ UNCHANGED <<log, loopVars, executed, spent, faults, bounds>>

EndRound == pc = "choosing" /\ todo = <<>> /\ EndStep("stepped")

\* Rounds are used up: the calls in hand are never dispatched.
GiveUp == pc = "deciding" /\ round = MaxRounds /\ asked # <<>> /\ EndStep("spent")

NothingAsked == pc = "deciding" /\ asked = <<>> /\ EndStep("answered")

StartStep(p) ==
  /\ pc' = p /\ rec' = recordStepStart(rec)
  /\ UNCHANGED <<log, asked, todo, checkpoint, executed, spent, faults, bounds>>

NextRound == pc = "between" /\ StartStep("asking") /\ round' = round + 1

\* The loop is cut (repeated calls, a tool called too often) or used up: one
\* last request, without tools.
Conclude == pc \in {"between", "last"} /\ StartStep("asking_last") /\ UNCHANGED round

\* finishRun, or the event that tells of the cut, fails.
FinishFails == pc \in {"between", "finishing"} /\ Fail(rec)

\* finishRun drops the checkpoint and the turn is complete.
Finish ==
  /\ pc = "finishing" /\ pc' = "ended"
  /\ checkpoint' = NoCalls
  /\ rec' = recordTurnEnd(rec)
  /\ UNCHANGED <<log, asked, todo, round, executed, spent, faults, bounds>>

-----------------------------------------------------------------------------
(* The environment.                                                        *)

Crash ==
  /\ pc # "idle" /\ pc' = "idle"
  /\ crashes < MaxCrashes /\ crashes' = crashes + 1
  /\ Over
  /\ UNCHANGED <<log, checkpoint, executed, spent, faults, runs, loads>>

\* Load's contract: nobody writes to the session.
Recover ==
  /\ pc = "idle"
  /\ loads < MaxLoads /\ loads' = loads + 1
  /\ Load
  /\ UNCHANGED <<pc, rec, loopVars, executed, spent, faults, runs, crashes>>

Next ==
  \/ \E t \in Tasks : RunTask(t) \/ RunTaskFails(t)
  \/ Flush \/ FlushFails
  \/ ModelAnswers \/ ModelConcludes \/ ModelFails
  \/ Suspend \/ SuspendFails \/ StartRound \/ RecordCall \/ Dispatch \/ RoundFails
  \/ EndRound \/ GiveUp \/ NothingAsked \/ NextRound \/ Conclude \/ FinishFails \/ Finish
  \/ Crash \/ Recover

Spec == Init /\ [][Next]_vars

-----------------------------------------------------------------------------
(* Properties.                                                             *)

TypeOK ==
  /\ log \in Seq(Events)
  /\ pc \in Places
  /\ rec.pending \in Seq(Events) /\ rec.task \in Tasks \cup {"none"}
  /\ asked \in Seq(Ids) /\ todo \in Seq(Ids)
  /\ checkpoint \in Seq(Ids) \cup {NoCalls}
  /\ executed \subseteq Nat \X Nat \X Ids
  /\ spent \in [Tasks -> Nat]

\* No barrier stops a run for a sequence number: the buffer of the one writer
\* always continues the log, whatever failed, crashed or was mended before.
NeverRefused == pc \in DOMAIN After => Accepted(log, Numbered(Cursor, rec.pending))

Recorded(type) == {Key(log[i]) : i \in Indices(log, type)}

\* A tool that ran, with whatever it did to the world, has its call on record.
RecordedFirst == executed \subseteq Recorded("call")

\* A call on record ran, is about to, or is where its execution broke off: a run
\* that closed its turn itself left no call that never happened.
NothingInvented ==
  \A i \in Indices(log, "call") :
    \/ Key(log[i]) \in executed
    \/ pc = "dispatching" /\ rec.turn = log[i].turn
    \/ \A j \in i + 1 .. Len(log) : log[j].turn = log[i].turn => log[j].by = "recovery"

\* In a turn that is closed every call is answered.
ClosedIsAnswered ==
  \A i \in Indices(log, "call"), j \in Indices(log, "turn/end") :
    log[i].turn = log[j].turn => Key(log[i]) \in Recorded("result")

\* No end without its start: what Load would take for a damaged log for good.
NoStrayEnd == ~StrayEnd(log, "turn") /\ ~StrayEnd(log, "step")

\* The history sent to the model can be built, whatever happened, and every
\* result on record is in it: none is left without the message that asked for it.
Readable == Transcribable(log) /\ Transcribed(log) = Indices(log, "result")

\* An execution is one turn: its number is its own and its events lie together,
\* but for what a recovery adds.
TurnsApart ==
  /\ \A i, j \in Indices(log, "turn/start") : log[i].turn = log[j].turn => i = j
  /\ \A i, j \in DOMAIN log :
       i < j /\ log[i].turn > log[j].turn => log[j].by = "recovery"

\* The tokens shown for a task are never more than it was charged.
ChargedOnce == \A t \in Tasks : Tokens(log, t) <= spent[t]

\* A search hit on a tool's call or result is shown under the task that made it.
OwnersTrue ==
  \A i \in DOMAIN log : ToolEvent(log[i]) /\ log[i].by = "run" => log[i].owner = log[i].task

\* A log that was just mended needs no more mending, and its last turn is whole:
\* a second Load changes nothing.
LoadSettles ==
  [][loads' # loads => ~Refused(log') /\ Closers(log') = <<>>]_vars

\* After a recovery every call has its result and every turn its end.
LoadMendsAll ==
  [][loads' # loads =>
       /\ \A i \in Indices(log', "call") :
            \E j \in Indices(log', "result") : Key(log'[j]) = Key(log'[i])
       /\ \A i \in Indices(log', "turn/start") :
            \E j \in Indices(log', "turn/end") : log'[j].turn = log'[i].turn]_vars

\* A turn that is closed has its steps closed.
StepsClosed ==
  \A i \in Indices(log, "step/start"), j \in Indices(log, "turn/end") :
    log[i].turn = log[j].turn =>
      \E k \in Indices(log, "step/end") : log[k].turn = log[i].turn /\ log[k].step = log[i].step

(* The log of a session can always be continued, mended and turned back into
   the history the model is sent: tools are on record before they run, closed
   turns are answered, and a Load settles what a crash or a failed append left
   (eventlog.go and the store's Load). *)
RecorderSafe ==
  /\ [](TypeOK /\ NeverRefused /\ RecordedFirst /\ NothingInvented /\
       ClosedIsAnswered /\ NoStrayEnd /\ Readable /\ TurnsApart /\
       ChargedOnce /\ OwnersTrue)
  /\ LoadSettles
===============================================================================
