--------------------------- MODULE TaskLifecycle ---------------------------
(* A task from POST /v1/tasks to its end, and back from suspension: the      *)
(* coordinator (internal/runtime/coordinator.go) that hands pending tasks to *)
(* worker goroutines and resumes suspended ones, RunTask and its tool loop   *)
(* (runtime.go), the checkpoint that carries a suspended run over            *)
(* (sessionstate/checkpoint.go), and the recovery at start-up                *)
(* (cli/command.go). The background thread runs one tick after another: the  *)
(* coordinator's heartbeat, then the approval sweep.                         *)
EXTENDS Approvals, SequencesExt

CONSTANTS
  SessionOf,     \* the session of each task
  Workers,       \* the semaphore's slots (MaxWorkers)
  Interrupts,    \* whether users stop tasks
  Refusals,      \* whether the plugin gate may turn a starting task away
  Distrust,      \* whether the trust gate may block an agent
  HardLoops,     \* whether the evaluator may find a hard loop
  ShortLeases,   \* whether a run may outlive its lease
  MaxCrashes,    \* bound on restarts of the process
  Nil

Sessions == {SessionOf[t] : t \in Tasks}

ASSUME LifecycleAssumption ==
  /\ IsFiniteSet(Tasks) /\ IsFiniteSet(Calls) /\ IsFiniteSet(Workers)
  /\ MaxResponses \in Nat /\ MaxCrashes \in Nat
  /\ {IdsAreFresh, Faults, Interrupts, Refusals, Distrust, HardLoops, ShortLeases} \subseteq BOOLEAN
  /\ Nil \notin Tasks \cup Workers
  /\ Sweeper \notin Humans

VARIABLES
  submitted,   \* tasks that have been created (ids are never reused)
  run,         \* what the goroutine in each slot is doing
  resuming,    \* Coordinator.resuming
  cancels,     \* Coordinator.cancels: the slot an Interrupt of the task reaches
  tick,        \* where the background thread is
  scan,        \* running tasks resumeScan has listed and not yet looked at
  session,     \* the run that holds each session's lock (see SessionLock)
  cp,          \* the checkpoint file of each session, or Nil
  responses,   \* how many responses the model has given
  executed,    \* how many times each sensitive call was dispatched (to Often)
  crashes

coordinatorVars == <<run, resuming, cancels, tick, scan, session>>
diskVars == <<cp, executed>>
vars == <<schedulerVars, approvalVars, coordinatorVars, diskVars, submitted, responses, crashes>>

\* A goroutine at its start; and a slot without one.
Goroutine(t, pc, resumed) ==
  [pc |-> pc, task |-> t, resp |-> 0, left |-> {}, ask |-> FALSE,
   resumed |-> resumed, cancelled |-> FALSE]
Idle == Goroutine(Nil, "idle", FALSE)

At(w, pc) == run[w].pc = pc
Key(w) == SessionOf[run[w].task]
Request(w, c) == <<run[w].task, run[w].resp, c>>
Slots == {w \in Workers : At(w, "idle")}
FreeSlot == CHOOSE w \in Slots : TRUE

Init ==
  /\ SchedulerInit
  /\ ApprovalsInit
  /\ submitted = {}
  /\ run = [w \in Workers |-> Idle]
  /\ resuming = {}
  /\ cancels = [t \in Tasks |-> Nil]
  /\ tick = "idle"
  /\ scan = {}
  /\ session = [s \in Sessions |-> Nil]
  /\ cp = [s \in Sessions |-> Nil]
  /\ responses = 0
  /\ executed = [q \in Requests |-> 0]
  /\ crashes = 0

-----------------------------------------------------------------------------
(* Users.                                                                    *)

Submit(t) ==
  /\ t \notin submitted
  /\ Add(t)
  /\ submitted' = submitted \cup {t}
  /\ UNCHANGED <<leased, approvalVars, coordinatorVars, diskVars, responses, crashes>>

\* Interrupt cancels the context of the run registered for the task.
Interrupt(t) ==
  /\ Interrupts
  /\ cancels[t] # Nil
  /\ ~run[cancels[t]].cancelled
  /\ run' = [run EXCEPT ![cancels[t]].cancelled = TRUE]
  /\ UNCHANGED <<schedulerVars, approvalVars, resuming, cancels, tick, scan, session,
                 diskVars, submitted, responses, crashes>>

Decide(d) ==
  /\ (\E k \in Tickets : HumanLook(d, k)) \/ DeciderStep(d)
  /\ UNCHANGED <<coordinatorVars, diskVars, submitted, responses, crashes>>

-----------------------------------------------------------------------------
(* The background thread.                                                    *)

\* Heartbeat begins with resumeScan's List; the loop then goes through the tasks
\* that were running, the earliest first.
Tick ==
  /\ tick = "idle"
  /\ tick' = "scan"
  /\ scan' = {t \in Tasks : status[t] = "running"}
  /\ UNCHANGED <<schedulerVars, approvalVars, run, resuming, cancels, session,
                 diskVars, submitted, responses, crashes>>

\* Load of the listed task's session; a task without one is passed over.
ScanLoad ==
  /\ tick = "scan"
  /\ \E t \in Tasks :
       /\ Earliest(t, scan)
       /\ IF cp[SessionOf[t]] # Nil
          THEN tick' = "claim" /\ UNCHANGED scan
          ELSE scan' = scan \ {t} /\ UNCHANGED tick
  /\ UNCHANGED <<schedulerVars, approvalVars, run, resuming, cancels, session,
                 diskVars, submitted, responses, crashes>>

\* A goroutine for t under its own context, registered for Interrupt.
Spawn(t, pc, resumed) ==
  /\ Slots # {}
  /\ run' = [run EXCEPT ![FreeSlot] = Goroutine(t, pc, resumed)]
  /\ cancels' = [cancels EXCEPT ![t] = FreeSlot]

\* A slot, tryMarkResuming, then TryLock; a task that fails either is passed
\* over, and with no slot the scan ends.
ClaimUnless(busy) ==
  /\ tick = "claim"
  /\ \/ /\ Slots = {}
        /\ tick' = "dispatch"
        /\ scan' = {}
        /\ UNCHANGED <<run, cancels, resuming, leased>>
     \/ \E t \in Tasks :
        /\ Slots # {}
        /\ Earliest(t, scan)
        /\ tick' = "scan"
        /\ scan' = scan \ {t}
        /\ \/ /\ t \in busy
              /\ UNCHANGED <<run, cancels, resuming, leased>>
           \/ /\ t \notin busy
              /\ leased' = leased \cup {t}
              /\ resuming' = resuming \cup {t}
              /\ Spawn(t, "gate", TRUE)
  /\ UNCHANGED <<status, order, approvalVars, session, diskVars, submitted, responses, crashes>>

\* A slip of resumeScan: only the leases are looked at.
Bug_ClaimIgnoresResuming == ClaimUnless(leased)

Claim == ClaimUnless(resuming \cup leased)

ScanDone ==
  /\ tick = "scan"
  /\ scan = {}
  /\ tick' = "dispatch"
  /\ UNCHANGED <<schedulerVars, approvalVars, run, resuming, cancels, scan, session,
                 diskVars, submitted, responses, crashes>>

\* Heartbeat's loop: Next, then a goroutine, while there are slots and tasks.
Dispatch ==
  /\ tick = "dispatch"
  /\ \E t \in Tasks : Hand(t) /\ Spawn(t, "lock", FALSE)
  /\ UNCHANGED <<order, leased, approvalVars, resuming, tick, scan, session,
                 diskVars, submitted, responses, crashes>>

\* A checkpoint could not be read, or an assignment not persisted: the tick
\* ends there, with tasks neither resumed, dispatched nor swept.
TickFails ==
  /\ Faults
  /\ \/ tick = "scan" /\ scan # {}
     \/ tick = "dispatch" /\ Slots # {} /\ Pending # {}
  /\ tick' = "idle"
  /\ scan' = {}
  /\ UNCHANGED <<schedulerVars, approvalVars, run, resuming, cancels, session,
                 diskVars, submitted, responses, crashes>>

\* The heartbeat is over and the sweep job begins.
Sweep ==
  /\ tick = "dispatch"
  /\ Slots = {} \/ Pending = {}
  /\ tick' = "sweep"
  /\ StartSweep
  /\ UNCHANGED <<schedulerVars, tickets, shown, overdue, dec, run, resuming, cancels, scan,
                 session, diskVars, submitted, responses, crashes>>

SweepStep ==
  /\ tick = "sweep"
  /\ SweepNext \/ DeciderStep(Sweeper)
  /\ UNCHANGED <<coordinatorVars, diskVars, submitted, responses, crashes>>

SweepDone ==
  /\ tick = "sweep"
  /\ todo = {}
  /\ dec[Sweeper].pc = "idle"
  /\ tick' = "idle"
  /\ UNCHANGED <<schedulerVars, approvalVars, run, resuming, cancels, scan, session,
                 diskVars, submitted, responses, crashes>>

Background ==
  Tick \/ ScanLoad \/ Claim \/ ScanDone \/ Dispatch \/ TickFails
  \/ Sweep \/ SweepStep \/ SweepDone

-----------------------------------------------------------------------------
(* A worker goroutine: runAssigned or runResume, with RunTask inside. Calls  *)
(* made under the task's context fail once it is cancelled.                  *)

Goto(w, pc) == run' = [run EXCEPT ![w].pc = pc]

\* What a call under the context may do.
Succeeds(w) == ~run[w].cancelled
MayFail(w) == run[w].cancelled \/ Faults

\* runAssigned: the lease. Failing to get it leaves the task assigned.
Lease(w) ==
  /\ At(w, "lock")
  /\ \/ /\ Succeeds(w)
        /\ TryLock(run[w].task)
        /\ Goto(w, "mark")
     \/ /\ run[w].cancelled \/ run[w].task \in leased
        /\ Goto(w, "exit")
        /\ UNCHANGED leased
  /\ UNCHANGED <<status, order, approvalVars, resuming, cancels, tick, scan, session,
                 diskVars, submitted, responses, crashes>>

\* abandonClaim unlocks and releases the task, each under the same context.
AbandonClaim(w) ==
  /\ IF run[w].cancelled THEN UNCHANGED leased ELSE Unlock(run[w].task)
  /\ \/ Succeeds(w) /\ PutBack(run[w].task)
     \/ MayFail(w) /\ UNCHANGED status

\* Assigned -> Running; if the audit or the transition fails, the claim is undone.
MarkRunning(w) ==
  /\ At(w, "mark")
  /\ \/ /\ Succeeds(w)
        /\ Transition(run[w].task, "running")
        /\ Goto(w, "trust")
        /\ UNCHANGED leased
     \/ /\ MayFail(w)
        /\ AbandonClaim(w)
        /\ Goto(w, "exit")
  /\ UNCHANGED <<order, approvalVars, resuming, cancels, tick, scan, session,
                 diskVars, submitted, responses, crashes>>

\* The audit of task_running, then the trust gate: a blocked agent's task is
\* suspended, its lease kept.
Trust(w) ==
  /\ At(w, "trust")
  /\ \/ /\ Succeeds(w)
        /\ Goto(w, "gate")
        /\ UNCHANGED status
     \/ /\ Distrust
        /\ Succeeds(w)
        /\ Transition(run[w].task, "suspended")
        /\ Goto(w, "exit")
     \/ /\ MayFail(w)
        /\ Goto(w, "exit")
        /\ UNCHANGED status
  /\ UNCHANGED <<order, leased, approvalVars, resuming, cancels, tick, scan, session,
                 diskVars, submitted, responses, crashes>>

\* RunTask: the plugin gate (see TaskGate), which may be shut.
Gate(w) ==
  /\ At(w, "gate")
  /\ \/ Goto(w, "session")
     \/ (Refusals \/ Faults) /\ Goto(w, "fail")
  /\ UNCHANGED <<schedulerVars, approvalVars, resuming, cancels, tick, scan, session,
                 diskVars, submitted, responses, crashes>>

\* The session's lock, held until RunTask returns.
EnterSession(w) ==
  /\ At(w, "session")
  /\ session[Key(w)] = Nil
  /\ session' = [session EXCEPT ![Key(w)] = w]
  /\ Goto(w, "load")
  /\ UNCHANGED <<schedulerVars, approvalVars, resuming, cancels, tick, scan,
                 diskVars, submitted, responses, crashes>>

\* Whose run it is comes from the checkpoint of the session, if there is one.
Load(w) ==
  /\ At(w, "load")
  /\ Succeeds(w)
  /\ LET c == cp[Key(w)] IN
     run' = [run EXCEPT ![w] =
       IF c = Nil THEN [@ EXCEPT !.pc = "generate"]
       ELSE [@ EXCEPT !.pc = "ask", !.resp = c.resp, !.left = Calls]]
  /\ UNCHANGED <<schedulerVars, approvalVars, resuming, cancels, tick, scan, session,
                 diskVars, submitted, responses, crashes>>

\* The model answers, asking for sensitive calls or not.
Generate(w) ==
  /\ At(w, "generate")
  /\ Succeeds(w)
  /\ \/ /\ responses < MaxResponses
        /\ responses' = responses + 1
        /\ run' = [run EXCEPT ![w] =
             [@ EXCEPT !.pc = "ask", !.resp = responses + 1, !.left = Calls]]
     \/ /\ Goto(w, "finish")
        /\ UNCHANGED responses
  /\ UNCHANGED <<schedulerVars, approvalVars, resuming, cancels, tick, scan, session,
                 diskVars, submitted, crashes>>

\* ShouldSuspend, one call at a time: an undecided call gets a ticket, and one
\* such call is enough to suspend.
AskAbout(w, c, settled) ==
  /\ At(w, "ask")
  /\ c \in run[w].left
  /\ IF settled
     THEN /\ run' = [run EXCEPT ![w].left = @ \ {c}]
          /\ UNCHANGED approvalVars
     ELSE /\ OpenTicket(Request(w, c))
          /\ run' = [run EXCEPT ![w] = [run[w] EXCEPT !.left = @ \ {c}, !.ask = TRUE]]
  /\ UNCHANGED <<schedulerVars, resuming, cancels, tick, scan, session,
                 diskVars, submitted, responses, crashes>>

Ask(w) == \E c \in Calls : AskAbout(w, c, Decided(Request(w, c)))

Asked(w) ==
  /\ At(w, "ask")
  /\ run[w].left = {}
  /\ run' = [run EXCEPT ![w] =
       IF @.ask THEN [@ EXCEPT !.pc = "save", !.ask = FALSE]
       ELSE [@ EXCEPT !.pc = "exec", !.left = Calls]]
  /\ UNCHANGED <<schedulerVars, approvalVars, resuming, cancels, tick, scan, session,
                 diskVars, submitted, responses, crashes>>

\* Bound: more dispatches of a call than this are not told apart.
Often == 2

\* A slip of Resolve: a denied call is resolved like an approved one.
Bug_DenialIgnored(q) == Decided(q)

\* Resolve: whether the decision lets the call through.
Resolve(q) == Approved(q)

\* executeToolCalls: a call goes to its tool if its ticket says so.
DispatchCall(w) ==
  /\ At(w, "exec")
  /\ Succeeds(w)
  /\ \E c \in run[w].left :
       /\ run' = [run EXCEPT ![w].left = @ \ {c}]
       /\ executed' = IF Resolve(Request(w, c))
                      THEN [executed EXCEPT ![Request(w, c)] = IF @ = Often THEN @ ELSE @ + 1]
                      ELSE executed
  /\ UNCHANGED <<schedulerVars, approvalVars, resuming, cancels, tick, scan, session,
                 cp, submitted, responses, crashes>>

RoundDone(w) ==
  /\ At(w, "exec")
  /\ run[w].left = {}
  /\ Goto(w, "generate")
  /\ UNCHANGED <<schedulerVars, approvalVars, resuming, cancels, tick, scan, session,
                 diskVars, submitted, responses, crashes>>

\* checkSuspend's Save.
SaveCheckpoint(w) ==
  /\ At(w, "save")
  /\ cp' = [cp EXCEPT ![Key(w)] = [task |-> run[w].task, resp |-> run[w].resp]]
  /\ Goto(w, "suspend")
  /\ UNCHANGED <<schedulerVars, approvalVars, resuming, cancels, tick, scan, session,
                 executed, submitted, responses, crashes>>

\* RunTask returns: the session's lock is released.
Return(w, pc) ==
  /\ Goto(w, pc)
  /\ session' = [s \in Sessions |-> IF session[s] = w THEN Nil ELSE session[s]]

\* The turn is flushed and RunTask returns ErrSuspended.
ReturnSuspended(w) ==
  /\ At(w, "suspend")
  /\ Succeeds(w)
  /\ Return(w, "park")
  /\ UNCHANGED <<schedulerVars, approvalVars, resuming, cancels, tick, scan,
                 diskVars, submitted, responses, crashes>>

\* A slip of finishRun: the checkpoint outlives its run.
Bug_FinishKeepsCheckpoint(w) ==
  /\ At(w, "finish")
  /\ Succeeds(w)
  /\ Goto(w, "close")
  /\ UNCHANGED <<schedulerVars, approvalVars, resuming, cancels, tick, scan, session,
                 diskVars, submitted, responses, crashes>>

\* finishRun deletes the session's checkpoint, whoever's it is.
DeleteCheckpoint(w) ==
  /\ At(w, "finish")
  /\ Succeeds(w)
  /\ cp' = [cp EXCEPT ![Key(w)] = Nil]
  /\ Goto(w, "close")
  /\ UNCHANGED <<schedulerVars, approvalVars, resuming, cancels, tick, scan, session,
                 executed, submitted, responses, crashes>>

\* The turn is flushed and RunTask returns a result.
ReturnResult(w) ==
  /\ At(w, "close")
  /\ Succeeds(w)
  /\ Return(w, "review")
  /\ UNCHANGED <<schedulerVars, approvalVars, resuming, cancels, tick, scan,
                 diskVars, submitted, responses, crashes>>

\* RunTask returns an error: context.Canceled out of a call under the context,
\* or a failure of storage, model or tools.
ReturnError(w) ==
  /\ \/ /\ run[w].cancelled
        /\ run[w].pc \in {"session", "load", "generate", "exec", "suspend", "finish", "close"}
        /\ Return(w, "cancel")
     \/ /\ Faults
        /\ run[w].pc \in {"session", "load", "generate", "ask", "exec", "save", "suspend", "finish", "close"}
        /\ Return(w, "fail")
  /\ UNCHANGED <<schedulerVars, approvalVars, resuming, cancels, tick, scan,
                 diskVars, submitted, responses, crashes>>

-----------------------------------------------------------------------------
(* Landing the task.                                                         *)

\* Moves the task, goes on to ok; if the move fails, goes to bad.
LandIf(w, next, ok, bad, possible, mayFail) ==
  \/ /\ possible
     /\ Transition(run[w].task, next)
     /\ Goto(w, ok)
  \/ /\ mayFail \/ ~MayTransition(run[w].task, next)
     /\ Goto(w, bad)
     /\ UNCHANGED status

Land(w, next, ok, bad) == LandIf(w, next, ok, bad, Succeeds(w), MayFail(w))

\* After ErrSuspended: Suspended, then the lease is given back.
Park(w) ==
  /\ At(w, "park")
  /\ Land(w, "suspended", "unlock", "exit")
  /\ UNCHANGED <<order, leased, approvalVars, resuming, cancels, tick, scan, session,
                 diskVars, submitted, responses, crashes>>

GiveBack(w) ==
  /\ At(w, "unlock")
  /\ \/ Succeeds(w) /\ Unlock(run[w].task)
     \/ MayFail(w) /\ UNCHANGED leased
  /\ Goto(w, "exit")
  /\ UNCHANGED <<status, order, approvalVars, resuming, cancels, tick, scan, session,
                 diskVars, submitted, responses, crashes>>

\* afterRun: a hard loop is suspended for a human, anything else reviewed.
Evaluate(w) ==
  /\ At(w, "review")
  /\ \/ Land(w, "review", "judge", "exit")
     \/ HardLoops /\ Land(w, "suspended", "exit", "exit")
  /\ UNCHANGED <<order, leased, approvalVars, resuming, cancels, tick, scan, session,
                 diskVars, submitted, responses, crashes>>

Judge(w) ==
  /\ At(w, "judge")
  /\ \E verdict \in {"done", "failed"} : Land(w, verdict, "exit", "exit")
  /\ UNCHANGED <<order, leased, approvalVars, resuming, cancels, tick, scan, session,
                 diskVars, submitted, responses, crashes>>

\* failTask: whatever the transition does, the goroutine ends.
FailTask(w) ==
  /\ At(w, "fail")
  /\ Land(w, "failed", "exit", "exit")
  /\ UNCHANGED <<order, leased, approvalVars, resuming, cancels, tick, scan, session,
                 diskVars, submitted, responses, crashes>>

\* landCancelled works under a context freed of the cancellation.
LandCancelled(w) ==
  /\ At(w, "cancel")
  /\ LandIf(w, "cancelled", "freed", "exit", TRUE, Faults)
  /\ UNCHANGED <<order, leased, approvalVars, resuming, cancels, tick, scan, session,
                 diskVars, submitted, responses, crashes>>

UnlockCancelled(w) ==
  /\ At(w, "freed")
  /\ Unlock(run[w].task) \/ (Faults /\ UNCHANGED leased)
  /\ Goto(w, "exit")
  /\ UNCHANGED <<status, order, approvalVars, resuming, cancels, tick, scan, session,
                 diskVars, submitted, responses, crashes>>

\* A slip of the deferred calls: the semaphore is not given back.
Bug_ExitLeaksSlot(w) ==
  /\ At(w, "exit")
  /\ cancels' = [cancels EXCEPT ![run[w].task] = Nil]
  /\ resuming' = IF run[w].resumed THEN resuming \ {run[w].task} ELSE resuming
  /\ UNCHANGED <<schedulerVars, approvalVars, run, tick, scan, session,
                 diskVars, submitted, responses, crashes>>

\* The goroutine's deferred calls: unregister, unmark, free the slot.
Exit(w) ==
  /\ At(w, "exit")
  /\ cancels' = [cancels EXCEPT ![run[w].task] = Nil]
  /\ resuming' = IF run[w].resumed THEN resuming \ {run[w].task} ELSE resuming
  /\ run' = [run EXCEPT ![w] = Idle]
  /\ UNCHANGED <<schedulerVars, approvalVars, tick, scan, session,
                 diskVars, submitted, responses, crashes>>

Worker(w) ==
  \/ Lease(w) \/ MarkRunning(w) \/ Trust(w)
  \/ Gate(w) \/ EnterSession(w) \/ Load(w) \/ Generate(w)
  \/ Ask(w) \/ Asked(w) \/ DispatchCall(w) \/ RoundDone(w)
  \/ SaveCheckpoint(w) \/ ReturnSuspended(w)
  \/ DeleteCheckpoint(w) \/ ReturnResult(w) \/ ReturnError(w)
  \/ Park(w) \/ GiveBack(w) \/ Evaluate(w) \/ Judge(w)
  \/ FailTask(w) \/ LandCancelled(w) \/ UnlockCancelled(w) \/ Exit(w)

-----------------------------------------------------------------------------
(* The process stops and starts again.                                       *)

Volatile ==
  /\ leased' = {}
  /\ resuming' = {}
  /\ cancels' = [t \in Tasks |-> Nil]
  /\ run' = [w \in Workers |-> Idle]
  /\ tick' = "idle"
  /\ scan' = {}
  /\ session' = [s \in Sessions |-> Nil]
  /\ dec' = [d \in Deciders |-> NotDeciding]
  /\ todo' = {}

\* The scheduler starts empty; RecoverSuspended adds the task of every
\* checkpoint, and ReconcileResume wakes those whose tickets were all decided.
Suspended == {cp[s].task : s \in {x \in Sessions : cp[x] # Nil}}

ReconcileIf(t, ready) == IF ready THEN "running" ELSE "suspended"
Reconcile(t) == ReconcileIf(t, TicketsOf(t) # {} /\ AllDecided(t))

CrashRestart ==
  /\ crashes < MaxCrashes
  /\ crashes' = crashes + 1
  /\ Volatile
  /\ status' = [t \in Tasks |-> IF t \in Suspended THEN Reconcile(t) ELSE "absent"]
  /\ order' \in SetToSeqs(Suspended)
  /\ UNCHANGED <<tickets, shown, overdue, diskVars, submitted, responses>>

-----------------------------------------------------------------------------
Expire(k) ==
  /\ TicketExpires(k)
  /\ UNCHANGED <<coordinatorVars, diskVars, submitted, responses, crashes>>

LeaseEnds(t) ==
  /\ ShortLeases
  /\ LeaseExpires(t)
  /\ UNCHANGED <<approvalVars, coordinatorVars, diskVars, submitted, responses, crashes>>

Next ==
  \/ \E t \in Tasks : Submit(t) \/ Interrupt(t) \/ LeaseEnds(t)
  \/ \E d \in Humans : Decide(d)
  \/ \E k \in Tickets : Expire(k)
  \/ Background
  \/ \E w \in Workers : Worker(w)
  \/ CrashRestart

Spec == Init /\ [][Next]_vars

\* The Go scheduler runs every goroutine, the ticker ticks, a request being
\* served finishes, and time passes. No human need answer, no user interrupt.
Fairness ==
  /\ WF_vars(Background)
  /\ \A w \in Workers : WF_vars(Worker(w))
  /\ \A d \in Humans : WF_vars(DeciderStep(d) /\ UNCHANGED <<coordinatorVars, diskVars, submitted, responses, crashes>>)
  /\ \A k \in Tickets : WF_vars(Expire(k))
  /\ \A t \in Tasks : WF_vars(LeaseEnds(t))

FairSpec == Spec /\ Fairness

-----------------------------------------------------------------------------
(* Properties.                                                               *)

Phases == {"idle", "lock", "mark", "trust", "gate", "session", "load", "generate",
           "ask", "exec", "save", "suspend", "finish", "close", "park", "unlock",
           "review", "judge", "fail", "cancel", "freed", "exit"}
\* Inside RunTask; and where its session lock is held.
InRunTask == {"gate", "session", "load", "generate", "ask", "exec", "save", "suspend",
              "finish", "close"}
InSession == InRunTask \ {"gate", "session"}

Runs == [pc : Phases, task : Tasks \cup {Nil}, resp : 0 .. MaxResponses, left : SUBSET Calls,
         ask : BOOLEAN, resumed : BOOLEAN, cancelled : BOOLEAN]
Checkpoints == [task : Tasks, resp : 1 .. MaxResponses]

RunsTypeOK ==
  /\ run \in [Workers -> Runs]
  /\ responses \in 0 .. MaxResponses
  /\ cp \in [Sessions -> Checkpoints \cup {Nil}]
  /\ executed \in [Requests -> 0 .. Often]
  /\ \A w \in Workers :
       /\ At(w, "idle") => run[w] = Idle
       /\ ~At(w, "idle") => run[w].task \in Tasks
       /\ run[w].pc \in {"ask", "exec", "save"} => run[w].resp > 0

CoordinatorTypeOK ==
  /\ submitted \subseteq Tasks
  /\ resuming \subseteq Tasks
  /\ cancels \in [Tasks -> Workers \cup {Nil}]
  /\ tick \in {"idle", "scan", "claim", "dispatch", "sweep"}
  /\ scan \subseteq Tasks
  /\ crashes \in 0 .. MaxCrashes
  /\ \A t \in Tasks : cancels[t] # Nil => run[cancels[t]].task = t

\* A session is locked exactly by the run that is in it.
SessionsHeld ==
  /\ session \in [Sessions -> Workers \cup {Nil}]
  /\ \A w \in Workers :
       /\ run[w].pc \in InSession => session[Key(w)] = w
       /\ \A s \in Sessions : session[s] = w => run[w].pc \in InSession /\ s = Key(w)

\* Types; and the locks of sessions, the responses of runs that deal with
\* calls, the slots of goroutines that ended and the cancel entries are as
\* they should be.
TypeOK ==
  SchedulerTypeOK /\ ApprovalsTypeOK /\ RunsTypeOK /\ CoordinatorTypeOK /\ SessionsHeld

\* Every call that executeToolCalls is still to dispatch has been decided: the
\* round's gate would have suspended otherwise, and no ticket is ever reopened
\* (Resolve calls the opposite a control-flow violation).
DispatchedIsDecided ==
  \A w \in Workers : At(w, "exec") => \A c \in run[w].left : Decided(Request(w, c))

\* A sensitive call reaches its tool only if a human who was shown that very
\* call, of that response and with its arguments, approved it.
ExecutedWasApproved ==
  \A q \in Requests : executed[q] > 0 => Approved(q) /\ shown[TicketID(q)] = q

\* The tickets and the tool loop implement the promise of Manual mode, across
\* suspensions, restarts and whatever fails.
Promise == INSTANCE ApprovedExecution WITH
  answer <- [q \in Requests |->
              IF shown[TicketID(q)] = q THEN tickets[TicketID(q)] ELSE "none"],
  performed <- {q \in Requests : executed[q] > 0}

ImplementsPromise == Promise!Spec

\* Whatever is resumed from a checkpoint has its calls on file: a crash can
\* come between opening the tickets and saving the checkpoint, not leave a
\* checkpoint nobody is asked about.
CheckpointWasAsked ==
  \A s \in Sessions : cp[s] # Nil =>
    \A c \in Calls : tickets[TicketID(<<cp[s].task, cp[s].resp, c>>)] # "none"

\* One task is never inside RunTask twice at a time, as long as its runs end
\* within their lease; past it, a fresh run is in no resuming set.
NoDoubleRun ==
  \A v, w \in Workers :
    v # w /\ run[v].pc \in InRunTask /\ run[w].pc \in InRunTask => run[v].task # run[w].task

\* At most one goroutine resumes a task, and the resuming set says so.
NoDoubleResume ==
  /\ \A v, w \in Workers : v # w /\ run[v].resumed /\ run[w].resumed => run[v].task # run[w].task
  /\ \A t \in Tasks : t \in resuming <=> \E w \in Workers : run[w].resumed /\ run[w].task = t

InHand(t) == \E w \in Workers : run[w].task = t
OwnCheckpoint(t) == cp[SessionOf[t]] # Nil /\ cp[SessionOf[t]].task = t

\* A task that was handed out has a goroutine until it is running or back in
\* the queue: assigned, nothing else would ever look at it.
AssignedIsInHand == \A t \in Tasks : status[t] = "assigned" => InHand(t)

\* Nor is a task left behind in its review.
ReviewIsInHand == \A t \in Tasks : status[t] = "review" => InHand(t)

\* Without a crash no call reaches its tool twice, though a run can be
\* suspended, resumed, cancelled or failed anywhere between.
ExecutedOnce == crashes = 0 => \A q \in Requests : executed[q] <= 1

\* A task that has ended never comes back: a restart forgets it (its row stays
\* in the store) and does not recover it.
TerminalForGood ==
  [][\A t \in Tasks : status[t] \in Terminal => status'[t] \in {status[t], "absent"}]_vars

\* Every submitted task is started.
PendingIsServed == \A t \in Tasks : status[t] = "pending" ~> status[t] # "pending" /\ status[t] # "assigned"

\* Nobody's silence holds a task up: each ticket of a suspended task is
\* answered in the end, by the sweep if by no human.
TicketsAnswered ==
  \A k \in Tickets :
    tickets[k] = "pending" /\ status[k[1]] = "suspended" ~> tickets[k] # "pending"

\* A suspended task whose tickets are all decided goes on.
DecidedTaskWakes ==
  \A t \in Tasks : status[t] = "suspended" /\ AllDecided(t) ~> status[t] # "suspended"

\* No run keeps its slot for ever, whoever it waits for.
SlotsComeBack == \A w \in Workers : ~At(w, "idle") ~> At(w, "idle")

\* Every submitted task is started, and no run keeps its slot for ever: with few
\* slots the one does not hold without the other.
SlotsServe == PendingIsServed /\ SlotsComeBack

(* Whatever else fails, a run is dispatched only once everything asked for is   *)
(* decided, and nothing is resumed by two runs at a time.                       *)
DispatchSafe == TypeOK /\ DispatchedIsDecided /\ NoDoubleResume
(* Without outlived leases and failing stores: one run per task, no tool before *)
(* its approval, and a checkpoint only for what was asked.                      *)
RunsSafe == NoDoubleRun /\ ExecutedWasApproved /\ CheckpointWasAsked
(* What is done stays done: a call runs once, a terminal task keeps its status. *)
DoneIsDone == []ExecutedOnce /\ TerminalForGood
(* A task assigned or under review is in the hand of a worker.                  *)
NobodyForgotten == AssignedIsInHand /\ ReviewIsInHand
===============================================================================
