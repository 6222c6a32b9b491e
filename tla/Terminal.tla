------------------------------ MODULE Terminal ------------------------------
(* The terminal UI (tui/interactive.go) and the Manual-mode gate of the runs  *)
(* it starts (tui/approvalgate.go).  Update handles one message at a time;    *)
(* the commands it returns are goroutines of their own, whose messages arrive *)
(* in any order: one that pumps the stream of a run, one that listens for an  *)
(* approval, one that watches a run's context, one that hands over a decision.*)
(* The gate's two channels are unbuffered and live as long as the program.   *)
(* Views, the composer's text and the session commands are left out: those    *)
(* that change a session are SessionRows'.                                    *)
EXTENDS Naturals, Sequences, FiniteSets

CONSTANTS
  MaxRuns,     \* bound: tasks started in one program
  MaxEvents,   \* bound: events a run publishes
  MaxCalls,    \* bound: sensitive tool calls in Manual mode, of all runs together
  Buffer       \* the stream channel's capacity, 256 in the code

ASSUME TerminalAssumption == MaxRuns \in Nat \ {0} /\ Buffer \in Nat \ {0}

Runs == 1 .. MaxRuns
None == 0

VARIABLES
  taskSeq,        \* the number of the latest run
  running,        \* "task", "skill" or "no"
  taskCtx,        \* the run whose context the model holds, or None
  streamCh,       \* the run whose stream the model thinks it pumps, or None
  approval,       \* <<run, call>> on the screen, or <<>>
  quitting,
  live,           \* run -> its context is not cancelled
  at,             \* run -> where its goroutine is
  calls, sent,    \* run -> sensitive calls made, events published
  stream, closed, \* run -> its stream channel
  pumps,          \* run -> waitStream commands that read this channel
  listeners,      \* waitApproval commands in flight
  watchers,       \* runs with a watchTaskCancel command in flight
  decisions,      \* sendApprovalDecision commands: <<run of the context, allow, call shown>>
  inbox,          \* messages not yet handled
  closings,       \* of them, interactiveStreamClosedMsg
  command         \* the command's context (Ctrl-C, shutdown) still stands
modelVars == <<taskSeq, running, taskCtx, streamCh, approval, quitting>>
runVars == <<live, at, calls, sent, stream, closed>>
cmdVars == <<pumps, listeners, watchers, decisions, inbox, closings>>
terminalVars == <<modelVars, runVars, cmdVars, command>>

\* NewInteractiveModel, and Init, which starts the one listener.
TerminalInit ==
  /\ taskSeq = 0 /\ running = "no" /\ taskCtx = None /\ streamCh = None
  /\ approval = <<>> /\ quitting = FALSE
  /\ live = [n \in Runs |-> FALSE] /\ at = [n \in Runs |-> "none"]
  /\ calls = [n \in Runs |-> 0] /\ sent = [n \in Runs |-> 0]
  /\ stream = [n \in Runs |-> <<>>] /\ closed = [n \in Runs |-> FALSE]
  /\ pumps = [n \in Runs |-> 0] /\ listeners = 1 /\ watchers = {}
  /\ decisions = {} /\ inbox = {} /\ closings = 0
  /\ command = TRUE

(***************************************************************************)
(* The run's goroutine: run, emit and approvalGate.Resolve.                *)
(***************************************************************************)
\* An event to publish, or a sensitive call to ask for; a model's answer and
\* Publish need a context that stands.
Wants(n) ==
  /\ at[n] = "works" /\ live[n]
  /\ \/ sent[n] < MaxEvents /\ at' = [at EXCEPT ![n] = "emits"] /\ UNCHANGED calls
     \/ Cardinality(UNION {{m} \X (1 .. calls[m]) : m \in Runs}) < MaxCalls /\ at' = [at EXCEPT ![n] = "asks"] /\ calls' = [calls EXCEPT ![n] = @ + 1]
  /\ UNCHANGED <<modelVars, live, sent, stream, closed, cmdVars, command>>

\* emit: a send with no way out but room in the buffer.
Emit(n) ==
  /\ at[n] = "emits" /\ Len(stream[n]) < Buffer
  /\ stream' = [stream EXCEPT ![n] = Append(@, sent[n] + 1)]
  /\ sent' = [sent EXCEPT ![n] = @ + 1] /\ at' = [at EXCEPT ![n] = "works"]
  /\ UNCHANGED <<modelVars, live, calls, closed, cmdVars, command>>

\* Resolve publishes the call to whoever listens ...
Publish(n) ==
  /\ at[n] = "asks" /\ listeners > 0 /\ listeners' = listeners - 1
  /\ inbox' = inbox \cup {<<"pending", n, calls[n]>>}
  /\ at' = [at EXCEPT ![n] = "parked"]
  /\ UNCHANGED <<modelVars, live, calls, sent, stream, closed, pumps, watchers, decisions, closings, command>>

\* ... and takes whichever decision is offered.
Answered(n, d) ==
  /\ at[n] = "parked" /\ d \in decisions /\ decisions' = decisions \ {d}
  /\ at' = [at EXCEPT ![n] = "works"]
  /\ UNCHANGED <<modelVars, live, calls, sent, stream, closed, pumps, listeners, watchers, inbox, closings, command>>

\* A slip of Resolve: a parked call does not look at its context.
Bug_Resolve(n) == at[n] = "asks" /\ ~live[n]

\* Either wait ends with the run's context.
Resolve(n) == at[n] \in {"asks", "parked"} /\ ~live[n]

\* The runner returns: the deferred close of the stream, then the message.
Return(n) ==
  /\ at[n] = "works" \/ Resolve(n)
  /\ at' = [at EXCEPT ![n] = "over"] /\ closed' = [closed EXCEPT ![n] = TRUE]
  /\ inbox' = inbox \cup {<<"done", n>>}
  /\ UNCHANGED <<modelVars, live, calls, sent, stream, pumps, listeners, watchers, decisions, closings, command>>

(***************************************************************************)
(* The commands.                                                           *)
(***************************************************************************)
waitStream(n) ==
  /\ pumps[n] > 0 /\ pumps' = [pumps EXCEPT ![n] = @ - 1]
  /\ \/ /\ stream[n] # <<>> /\ stream' = [stream EXCEPT ![n] = Tail(@)]
        /\ inbox' = inbox \cup {<<"event", n, Head(stream[n])>>} /\ UNCHANGED closings
     \/ /\ stream[n] = <<>> /\ closed[n] /\ closings' = closings + 1 /\ UNCHANGED <<stream, inbox>>
  /\ UNCHANGED <<modelVars, live, at, calls, sent, closed, listeners, watchers, decisions, command>>

watchTaskCancel(n) ==
  /\ n \in watchers /\ ~live[n] /\ watchers' = watchers \ {n}
  /\ inbox' = inbox \cup {<<"cancelled", n>>}
  /\ UNCHANGED <<modelVars, runVars, pumps, listeners, decisions, closings, command>>

Ended(n) == IF n = None THEN ~command ELSE ~live[n]

\* sendApprovalDecision, when the context it took is cancelled first.
abortDecision(d) ==
  /\ d \in decisions /\ Ended(d[1]) /\ decisions' = decisions \ {d}
  /\ inbox' = inbox \cup {<<"aborted", d[3]>>}
  /\ UNCHANGED <<modelVars, runVars, pumps, listeners, watchers, closings, command>>

(***************************************************************************)
(* Update.                                                                 *)
(***************************************************************************)
\* endTask's part of the contexts.
Cancelled(ctx) == IF ctx = None THEN live ELSE [live EXCEPT ![ctx] = FALSE]

mayBegin == approval = <<>> /\ running = "no"

beginTask ==
  LET n == taskSeq + 1 IN
  /\ mayBegin /\ n \in Runs
  /\ taskSeq' = n /\ running' = "task" /\ taskCtx' = n /\ streamCh' = n
  /\ live' = [Cancelled(taskCtx) EXCEPT ![n] = command]
  /\ at' = [at EXCEPT ![n] = "works"]
  /\ pumps' = [pumps EXCEPT ![n] = 1] /\ watchers' = watchers \cup {n}
  /\ UNCHANGED <<approval, quitting, calls, sent, stream, closed, listeners, decisions, inbox, closings, command>>

\* `/skill ...`: the composer waits as for a task.
runSkill ==
  /\ approval = <<>> /\ running = "no" /\ running' = "skill"
  /\ UNCHANGED <<taskSeq, taskCtx, streamCh, approval, quitting, runVars, cmdVars, command>>
skillDone ==
  /\ running = "skill" /\ running' = "no"
  /\ UNCHANGED <<taskSeq, taskCtx, streamCh, approval, quitting, runVars, cmdVars, command>>

\* A slip of resolveApproval: the prompt stays up.
Bug_resolveApproval_shown(allow) ==
  /\ approval # <<>> /\ approval' = approval
  /\ decisions' = decisions \cup {<<taskCtx, allow, approval>>} /\ listeners' = listeners
  /\ UNCHANGED <<taskSeq, running, taskCtx, streamCh, quitting, runVars, pumps, watchers, inbox, closings, command>>

\* y or n, while an approval is on the screen; other keys are swallowed.
resolveApproval(allow) ==
  /\ approval # <<>> /\ approval' = <<>>
  /\ decisions' = decisions \cup {<<taskCtx, allow, approval>>} /\ listeners' = listeners + 1
  /\ UNCHANGED <<taskSeq, running, taskCtx, streamCh, quitting, runVars, pumps, watchers, inbox, closings, command>>

\* Ctrl-C and Esc, always; q on an empty line.
Quit ==
  /\ quitting' = TRUE /\ live' = Cancelled(taskCtx) /\ taskCtx' = None /\ approval' = <<>>
  /\ UNCHANGED <<taskSeq, running, streamCh, at, calls, sent, stream, closed, cmdVars, command>>

Take(m) == m \in inbox /\ inbox' = inbox \ {m}

onPending(n, c) ==
  /\ Take(<<"pending", n, c>>) /\ approval' = <<n, c>>
  /\ UNCHANGED <<taskSeq, running, taskCtx, streamCh, quitting, runVars, pumps, listeners, watchers, decisions, closings, command>>

onCancelled(n) ==
  /\ Take(<<"cancelled", n>>)
  /\ approval' = IF n = taskSeq THEN <<>> ELSE approval
  /\ UNCHANGED <<taskSeq, running, taskCtx, streamCh, quitting, runVars, pumps, listeners, watchers, decisions, closings, command>>

onAborted(a) ==
  /\ Take(<<"aborted", a>>) /\ approval' = <<>>
  /\ UNCHANGED <<taskSeq, running, taskCtx, streamCh, quitting, runVars, pumps, listeners, watchers, decisions, closings, command>>

\* interactiveRunDoneMsg: endTask.
onDone(n) ==
  /\ Take(<<"done", n>>) /\ running' = "no"
  /\ live' = Cancelled(taskCtx) /\ taskCtx' = None /\ approval' = <<>>
  /\ UNCHANGED <<taskSeq, streamCh, quitting, at, calls, sent, stream, closed, pumps, listeners, watchers, decisions, closings, command>>

\* An event is shown under the current task and the current stream is read on.
onEvent(n, k) ==
  /\ Take(<<"event", n, k>>)
  /\ pumps' = IF streamCh = None THEN pumps ELSE [pumps EXCEPT ![streamCh] = @ + 1]
  /\ UNCHANGED <<modelVars, runVars, listeners, watchers, decisions, closings, command>>

onClosed ==
  /\ closings > 0 /\ closings' = closings - 1 /\ streamCh' = None
  /\ UNCHANGED <<taskSeq, running, taskCtx, approval, quitting, runVars, pumps, listeners, watchers, decisions, inbox, command>>

\* The command's context is cancelled under the running program.
Interrupt ==
  /\ command /\ command' = FALSE /\ live' = [n \in Runs |-> FALSE]
  /\ UNCHANGED <<modelVars, at, calls, sent, stream, closed, cmdVars>>

Handle(n) ==
  \/ onCancelled(n) \/ onDone(n)
  \/ \E c \in 1 .. MaxCalls : onPending(n, c) \/ onAborted(<<n, c>>)
  \/ \E k \in 1 .. MaxEvents : onEvent(n, k)
Goroutine(n) == Emit(n) \/ Publish(n) \/ (\E d \in decisions : Answered(n, d)) \/ Return(n)
Command(n) == waitStream(n) \/ watchTaskCancel(n)

\* With Quit the process ends, and every goroutine with it.
TerminalNext == ~quitting /\
  ( \/ \E n \in Runs : Wants(n) \/ Goroutine(n) \/ Command(n) \/ Handle(n)
    \/ \E d \in decisions : abortDecision(d)
    \/ beginTask \/ runSkill \/ skillDone \/ Quit \/ onClosed \/ Interrupt
    \/ \E allow \in BOOLEAN : resolveApproval(allow) )

\* Goroutines run and messages are handled; keys are pressed if the human likes.
TerminalFairness == \A n \in Runs :
  /\ WF_terminalVars(~quitting /\ Goroutine(n))
  /\ WF_terminalVars(~quitting /\ Command(n))
  /\ WF_terminalVars(~quitting /\ Handle(n))
TerminalSpec == TerminalInit /\ [][TerminalNext]_terminalVars /\ TerminalFairness

(***************************************************************************)
(* Properties.                                                             *)
(***************************************************************************)
Parked == {n \in Runs : at[n] = "parked"}

\* One approval for one listener: what is listening, what was heard and is not
\* handled, and what is on the screen never exceed one.
TerminalTypeOK ==
  /\ running \in {"no", "task", "skill"} /\ taskCtx \in {None, taskSeq}
  /\ listeners + Cardinality({m \in inbox : m[1] = "pending"}) + (IF approval # <<>> THEN 1 ELSE 0) <= 1

\* The decision a parked call takes is the one the human made about that call: no
\* answer reaches another call, of this run or of the next.
AnswerIsForTheQuestion == [][\A n \in Runs : (at[n] = "parked" /\ at'[n] = "works") =>
  \E d \in decisions \ decisions' : d[3] = <<n, calls[n]>>]_terminalVars

\* While its run's context stands, a prompt on the screen is one the run is
\* parked on, at that very call: no answer is asked for in vain.
PromptIsLive == approval # <<>> /\ live[approval[1]] =>
  at[approval[1]] = "parked" /\ calls[approval[1]] = approval[2]

\* A call that asks is shown to the human or its run is cancelled: the chain of
\* listeners does not end before the program does.
AskedIsShown == \A n \in Runs : (at[n] = "asks") ~> (at[n] # "asks" \/ quitting)

\* A prompt whose run is cancelled while it is parked goes away by itself.
NoDeadQuestion == \A n \in Runs :
  (approval # <<>> /\ approval[1] = n /\ at[n] = "parked" /\ ~live[n]) ~> (approval = <<>> \/ quitting)

\* The pump makes room for every event a run has to publish: "the stream pump"
\* is among the commands that drive a run, and mirrors the approval listener of
\* which "exactly one instance is ever in flight".
PumpGoesOn == \A n \in Runs : (at[n] = "emits") ~> (at[n] # "emits" \/ quitting)

(* While its run lives, the prompt on the screen is the one that run is parked
   on, and an answer goes to the call it was made about and no other, through
   listeners, cancelled runs and the next run's questions. *)
TerminalSafe ==
  /\ [](TerminalTypeOK /\ PromptIsLive)
  /\ AnswerIsForTheQuestion

(* A question of the running task is shown, and a dead one does not stay.       *)
QuestionsLive == AskedIsShown /\ NoDeadQuestion
===============================================================================
