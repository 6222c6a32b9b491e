------------------------ MODULE TaskLifecycleProofs ------------------------
(* Theorems of TaskLifecycle, for any finite sets of tasks, sessions, calls  *)
(* and slots, any bound on responses and restarts, and whatever may fail.    *)
(* Each part of the type invariant and each safety property has a lemma that *)
(* says which steps it survives, and why.                                    *)
EXTENDS TaskLifecycle, FiniteSetTheorems, TLAPS

\* Every step is one of these; the proofs below split on them.
Steps ==
  \/ \E t \in Tasks : Submit(t) \/ Interrupt(t) \/ LeaseEnds(t)
  \/ \E d \in Humans : Decide(d)
  \/ \E k \in Tickets : Expire(k)
  \/ Background
  \/ \E w \in Workers : Worker(w)
  \/ CrashRestart
  \/ UNCHANGED vars

\* The cases of a step.
LEMMA StepCases == [Next]_vars => Steps
  BY DEF Next, Steps

-----------------------------------------------------------------------------
(* Types of the task table.                                                  *)

\* The scheduler and the lock store start empty.
LEMMA SchedulerTypeInit == Init => SchedulerTypeOK
  BY DEF Init, SchedulerInit, SchedulerTypeOK, Statuses

\* What a slot is given: FreeSlot is a free slot.
LEMMA SlotIsFree == Slots # {} => FreeSlot \in Workers /\ At(FreeSlot, "idle")
  BY DEF Slots, FreeSlot

\* What RecoverSuspended finds in checkpoints are tasks, finitely many.
LEMMA SuspendedAreTasks == RunsTypeOK => Suspended \subseteq Tasks /\ IsFiniteSet(Suspended)
<1>1. RunsTypeOK => Suspended \subseteq Tasks
  BY LifecycleAssumption DEF RunsTypeOK, Suspended, Checkpoints
<1> QED BY <1>1, LifecycleAssumption, FS_Subset

\* An enumeration of a finite set is a sequence over it.
LEMMA SetToSeqsAreSeqs ==
  ASSUME NEW S, IsFiniteSet(S), NEW s \in SetToSeqs(S)
  PROVE  s \in Seq(S)
<1>1. Cardinality(S) \in Nat
  BY FS_CardinalityType
<1>2. s \in [1 .. Cardinality(S) -> S]
  BY DEF SetToSeqs
<1> QED BY <1>1, <1>2

\* Statuses, the order and the leases keep their types.
LEMMA SchedulerTypeStep == TypeOK /\ [Next]_vars => SchedulerTypeOK'
<1>. SUFFICES ASSUME TypeOK, Steps PROVE SchedulerTypeOK'
  BY StepCases
<1>. USE DEF TypeOK
<1>1. CASE UNCHANGED schedulerVars
  BY <1>1 DEF SchedulerTypeOK, schedulerVars
<1>2. ASSUME NEW t \in Tasks, Submit(t) PROVE SchedulerTypeOK'
  <2>1. order' \in Seq(Tasks)
    BY <1>2 DEF Submit, Add, SchedulerTypeOK
  <2> QED BY <2>1, <1>2 DEF Submit, Add, SchedulerTypeOK, Statuses
<1>3. ASSUME NEW t \in Tasks, LeaseEnds(t) PROVE SchedulerTypeOK'
  BY <1>3 DEF LeaseEnds, LeaseExpires, SchedulerTypeOK
<1>4. ASSUME NEW d \in Deciders, DeciderStep(d) PROVE SchedulerTypeOK'
  <2>1. CASE Flip(d)
    BY <2>1 DEF Flip, Transition, SchedulerTypeOK, Statuses
  <2>2. CASE Record(d) \/ ListTickets(d) \/ DecideFails(d)
    BY <2>2, <1>1 DEF Record, RecordIf, ListTickets, DecideFails
  <2> QED BY <1>4, <2>1, <2>2 DEF DeciderStep
<1>5. ASSUME NEW d \in Humans, Decide(d) PROVE SchedulerTypeOK'
  <2>1. CASE \E k \in Tickets : HumanLook(d, k)
    BY <2>1, <1>1 DEF HumanLook, Look
  <2> QED BY <1>5, <1>4, <2>1 DEF Decide, Deciders
<1>6. CASE Background
  <2>1. CASE Tick \/ ScanLoad \/ ScanDone \/ TickFails \/ Sweep \/ SweepDone
    BY <2>1, <1>1 DEF Tick, ScanLoad, ScanDone, TickFails, Sweep, SweepDone, schedulerVars
  <2>2. CASE Claim
    BY <2>2 DEF Claim, ClaimUnless, SchedulerTypeOK
  <2>3. CASE Dispatch
    BY <2>3 DEF Dispatch, Hand, SchedulerTypeOK, Statuses
  <2>4. CASE SweepStep
    <3>1. CASE SweepNext
      BY <3>1, <1>1 DEF SweepNext, Look
    <3> QED BY <2>4, <3>1, <1>4 DEF SweepStep, Deciders
  <2> QED BY <1>6, <2>1, <2>2, <2>3, <2>4 DEF Background
<1>7. ASSUME NEW w \in Workers, Worker(w) PROVE SchedulerTypeOK'
  <2>. DEFINE t == run[w].task
  <2>1. CASE \/ Gate(w) \/ EnterSession(w) \/ Load(w) \/ Generate(w) \/ Ask(w) \/ Asked(w)
             \/ DispatchCall(w) \/ RoundDone(w) \/ SaveCheckpoint(w) \/ ReturnSuspended(w)
             \/ DeleteCheckpoint(w) \/ ReturnResult(w) \/ ReturnError(w) \/ Exit(w)
    BY <2>1, <1>1 DEF Gate, EnterSession, Load, Generate, Ask, AskAbout, Asked, DispatchCall,
       RoundDone, SaveCheckpoint, ReturnSuspended, DeleteCheckpoint, ReturnResult, ReturnError, Exit
  <2>2. CASE Lease(w)
    <3>1. t \in Tasks
      BY <2>2 DEF Lease, At, RunsTypeOK
    <3> QED BY <2>2, <3>1 DEF Lease, TryLock, SchedulerTypeOK
  <2>3. CASE \/ MarkRunning(w) \/ Trust(w) \/ Park(w) \/ GiveBack(w) \/ Evaluate(w) \/ Judge(w)
             \/ FailTask(w) \/ LandCancelled(w) \/ UnlockCancelled(w)
    <3>1. leased' \subseteq leased /\ order' = order
      BY <2>3 DEF MarkRunning, AbandonClaim, Trust, Park, GiveBack, Evaluate, Judge, FailTask, LandCancelled,
         UnlockCancelled, Unlock
    <3>2. status' = status \/ \E s \in Statuses : status' = [status EXCEPT ![t] = s]
      BY <2>3 DEF MarkRunning, AbandonClaim, Trust, Park, GiveBack, Evaluate, Judge, FailTask, LandCancelled,
         UnlockCancelled, Land, LandIf, Transition, PutBack, Statuses
    <3> QED BY <3>1, <3>2 DEF SchedulerTypeOK
  <2> QED BY <1>7, <2>1, <2>2, <2>3 DEF Worker
<1>8. CASE CrashRestart
  <2>1. order' \in Seq(Suspended) /\ Suspended \subseteq Tasks
    BY <1>8, SuspendedAreTasks, SetToSeqsAreSeqs DEF CrashRestart
  <2>2. order' \in Seq(Tasks)
    BY <2>1
  <2> QED BY <1>8, <2>2 DEF CrashRestart, Volatile, Reconcile, ReconcileIf, SchedulerTypeOK, Statuses
<1>9. CASE \/ \E t \in Tasks : Interrupt(t)
           \/ \E k \in Tickets : Expire(k)
           \/ UNCHANGED vars
  BY <1>9, <1>1 DEF Interrupt, Expire, TicketExpires, vars
<1> QED BY <1>2, <1>3, <1>5, <1>6, <1>7, <1>8, <1>9 DEF Steps

-----------------------------------------------------------------------------
(* Types of tickets and deciders.                                            *)

\* Every sensitive call has the id of a ticket.
LEMMA TicketIDType == ASSUME NEW q \in Requests PROVE TicketID(q) \in Tickets
  BY LifecycleAssumption DEF Requests, TicketID, Tickets

\* The calls a run deals with are requests.
LEMMA RequestType ==
  ASSUME RunsTypeOK, NEW w \in Workers, NEW c \in Calls, run[w].pc \in {"ask", "exec", "save"}
  PROVE  Request(w, c) \in Requests
<1>1. run[w].task \in Tasks /\ run[w].resp \in 0 .. MaxResponses /\ run[w].resp > 0
  BY DEF RunsTypeOK, Runs, At
<1> QED BY <1>1, LifecycleAssumption DEF Request, Requests

\* No ticket is on file and nobody is deciding.
LEMMA ApprovalsTypeInit == Init => ApprovalsTypeOK
  BY DEF Init, ApprovalsInit, ApprovalsTypeOK, Decisions, NotDeciding, NoTicket, Statuses

\* A decider that begins has a ticket and a status.
LEMMA LookType ==
  ASSUME SchedulerTypeOK, ApprovalsTypeOK, NEW d \in Deciders, NEW k \in Tickets, Look(d, k)
  PROVE  /\ dec' \in [Deciders -> Decisions]
         /\ \A e \in Deciders : dec'[e].pc # "idle" => dec'[e].ticket \in Tickets
<1>1. status[k[1]] \in Statuses
  BY DEF SchedulerTypeOK, Tickets
<1> QED BY <1>1 DEF Look, ApprovalsTypeOK, Decisions

\* A decider that goes on, finishes or fails keeps its types.
LEMMA DeciderTypeStep ==
  ASSUME ApprovalsTypeOK, NEW d \in Deciders, DeciderStep(d)
  PROVE  ApprovalsTypeOK'
<1>. USE DEF ApprovalsTypeOK
<1>1. /\ dec' \in [Deciders -> Decisions]
      /\ \A e \in Deciders : dec'[e].pc # "idle" => dec'[e].ticket \in Tickets
  <2>1. \/ Finished(d)
        \/ dec[d].pc # "idle" /\ \E pc \in {"list", "flip"} : Proceed(d, pc)
    BY DEF DeciderStep, Record, RecordIf, ListTickets, Flip, DecideFails
  <2>2. CASE Finished(d)
    BY <2>2 DEF Finished, NotDeciding, NoTicket, Decisions, Statuses
  <2>3. ASSUME dec[d].pc # "idle", NEW pc \in {"list", "flip"}, Proceed(d, pc)
        PROVE  /\ dec' \in [Deciders -> Decisions]
               /\ \A e \in Deciders : dec'[e].pc # "idle" => dec'[e].ticket \in Tickets
    BY <2>3 DEF Proceed, Decisions
  <2> QED BY <2>1, <2>2, <2>3
<1>2. /\ tickets' \in [Tickets -> {"none", "pending"} \cup Verdicts]
      /\ overdue' \subseteq Tickets
  BY DEF DeciderStep, Record, RecordIf, ListTickets, Flip, DecideFails, Verdicts
<1>3. shown' = shown /\ todo' \subseteq Tickets
  BY DEF DeciderStep, Record, RecordIf, ListTickets, Flip, DecideFails
<1> QED BY <1>1, <1>2, <1>3

\* Tickets, deciders and the sweep's list keep their types.
LEMMA ApprovalsTypeStep == TypeOK /\ [Next]_vars => ApprovalsTypeOK'
<1>. SUFFICES ASSUME TypeOK, Steps PROVE ApprovalsTypeOK'
  BY StepCases
<1>. USE DEF TypeOK
<1>1. CASE UNCHANGED approvalVars
  BY <1>1 DEF ApprovalsTypeOK, approvalVars
<1>2. ASSUME NEW d \in Humans, Decide(d) PROVE ApprovalsTypeOK'
  <2>1. ASSUME NEW k \in Tickets, HumanLook(d, k) PROVE ApprovalsTypeOK'
    BY <2>1, LookType DEF HumanLook, Look, Deciders, ApprovalsTypeOK
  <2> QED BY <1>2, <2>1, DeciderTypeStep DEF Decide, Deciders
<1>3. CASE Background
  <2>1. CASE Tick \/ ScanLoad \/ Claim \/ ScanDone \/ Dispatch \/ TickFails \/ SweepDone
    BY <2>1, <1>1 DEF Tick, ScanLoad, Claim, ClaimUnless, ScanDone, Dispatch, TickFails, SweepDone
  <2>2. CASE Sweep
    BY <2>2 DEF Sweep, StartSweep, ApprovalsTypeOK
  <2>3. CASE SweepStep
    <3>1. ASSUME SweepNext PROVE ApprovalsTypeOK'
      <4>1. todo' \subseteq Tickets
        BY <3>1 DEF SweepNext, ApprovalsTypeOK
      <4>2. tickets' = tickets /\ shown' = shown /\ overdue' = overdue
        BY <3>1 DEF SweepNext, Look
      <4>3. dec' = dec \/ \E k \in Tickets : Look(Sweeper, k)
        BY <3>1 DEF SweepNext, ApprovalsTypeOK
      <4> QED BY <4>1, <4>2, <4>3, LookType DEF ApprovalsTypeOK, Deciders
    <3> QED BY <2>3, <3>1, DeciderTypeStep DEF SweepStep, Deciders
  <2> QED BY <1>3, <2>1, <2>2, <2>3 DEF Background
<1>4. ASSUME NEW w \in Workers, Worker(w) PROVE ApprovalsTypeOK'
  <2>1. CASE UNCHANGED approvalVars
    BY <2>1, <1>1
  <2>2. ASSUME NEW c \in Calls, At(w, "ask"), OpenTicket(Request(w, c)) PROVE ApprovalsTypeOK'
    <3>1. Request(w, c) \in Requests /\ TicketID(Request(w, c)) \in Tickets
      BY <2>2, RequestType, TicketIDType DEF At
    <3> QED BY <2>2, <3>1 DEF OpenTicket, ApprovalsTypeOK
  <2>3. CASE Ask(w)
    BY <2>3, <2>1, <2>2 DEF Ask, AskAbout
  <2>4. CASE ~Ask(w)
    <3>1. UNCHANGED approvalVars
      BY <1>4, <2>4 DEF Worker, Lease, MarkRunning, Trust, Gate, EnterSession, Load, Generate, Asked,
         DispatchCall, RoundDone, SaveCheckpoint, ReturnSuspended, DeleteCheckpoint, ReturnResult,
         ReturnError, Park, GiveBack, Evaluate, Judge, FailTask, LandCancelled, UnlockCancelled, Exit
    <3> QED BY <3>1, <1>1
  <2> QED BY <2>3, <2>4
<1>5. ASSUME NEW k \in Tickets, Expire(k) PROVE ApprovalsTypeOK'
  BY <1>5 DEF Expire, TicketExpires, ApprovalsTypeOK
<1>6. CASE CrashRestart
  <2>1. dec' \in [Deciders -> Decisions] /\ \A d \in Deciders : dec'[d].pc = "idle"
    BY <1>6 DEF CrashRestart, Volatile, NotDeciding, NoTicket, Decisions, Statuses
  <2>2. todo' = {} /\ tickets' = tickets /\ shown' = shown /\ overdue' = overdue
    BY <1>6 DEF CrashRestart, Volatile
  <2> QED BY <2>1, <2>2 DEF ApprovalsTypeOK
<1>7. CASE \/ \E t \in Tasks : Submit(t) \/ Interrupt(t) \/ LeaseEnds(t)
           \/ UNCHANGED vars
  BY <1>7, <1>1 DEF Submit, Interrupt, LeaseEnds, vars
<1> QED BY <1>2, <1>3, <1>4, <1>5, <1>6, <1>7 DEF Steps

-----------------------------------------------------------------------------
(* Types of runs, checkpoints and counters.                                  *)

\* What RunsTypeOK says of one slot.
RunOK(r) ==
  /\ r \in Runs
  /\ r.pc = "idle" => r = Idle
  /\ r.pc # "idle" => r.task \in Tasks
  /\ r.pc \in {"ask", "exec", "save"} => r.resp > 0

\* RunsTypeOK, slot by slot.
LEMMA RunsAreOK == ASSUME RunsTypeOK, NEW w \in Workers PROVE RunOK(run[w])
  BY DEF RunsTypeOK, RunOK, At

\* Replacing one slot's run by a good one leaves all of them good.
LEMMA RunReplaced ==
  ASSUME RunsTypeOK, NEW w \in Workers, NEW r, RunOK(r), run' = [run EXCEPT ![w] = r],
         responses' \in 0 .. MaxResponses, UNCHANGED <<cp, executed>>
  PROVE  RunsTypeOK'
<1>1. run' \in [Workers -> Runs] /\ \A v \in Workers : run'[v] = IF v = w THEN r ELSE run[v]
  BY DEF RunsTypeOK, RunOK
<1>2. \A v \in Workers : RunOK(run'[v])
  BY <1>1, RunsAreOK
<1> QED BY <1>1, <1>2 DEF RunsTypeOK, RunOK, At

\* A slot without a goroutine is well typed.
LEMMA IdleOK == RunOK(Idle)
<1>1. Idle \in Runs
  BY LifecycleAssumption DEF Idle, Goroutine, Runs, Phases
<1> QED BY <1>1 DEF Idle, Goroutine, RunOK

\* Moving a run that is under way to a phase where it needs no response.
LEMMA GotoOK ==
  ASSUME RunsTypeOK, NEW w \in Workers, ~At(w, "idle"),
         NEW pc \in Phases \ {"idle", "ask", "exec", "save"}
  PROVE  RunOK([run[w] EXCEPT !.pc = pc])
<1>1. run[w] \in Runs /\ run[w].task \in Tasks
  BY DEF RunsTypeOK, At
<1> QED BY <1>1 DEF RunOK, Runs

\* Such a move keeps the types of all runs.
LEMMA GotoTypes ==
  ASSUME RunsTypeOK, NEW w \in Workers, ~At(w, "idle"),
         NEW pc \in Phases \ {"idle", "ask", "exec", "save"}, Goto(w, pc)
  PROVE  /\ UNCHANGED <<responses, cp, executed>> => RunsTypeOK'
         /\ run' \in [Workers -> Runs]
         /\ \A v \in Workers : RunOK(run'[v])
<1>1. run' = [run EXCEPT ![w] = [run[w] EXCEPT !.pc = pc]]
  BY DEF Goto
<1>2. UNCHANGED <<responses, cp, executed>> => RunsTypeOK'
  BY <1>1, GotoOK, RunReplaced DEF RunsTypeOK
<1>3. run' \in [Workers -> Runs] /\ \A v \in Workers : RunOK(run'[v])
  BY <1>1, GotoOK, RunsAreOK DEF RunsTypeOK, RunOK
<1> QED BY <1>2, <1>3

\* The steps of a goroutine that only go from one phase to another.
Moves(w) ==
  \/ Lease(w) \/ MarkRunning(w) \/ Trust(w) \/ Gate(w) \/ EnterSession(w) \/ RoundDone(w)
  \/ ReturnSuspended(w) \/ ReturnResult(w) \/ ReturnError(w) \/ Park(w) \/ GiveBack(w)
  \/ Evaluate(w) \/ Judge(w) \/ FailTask(w) \/ LandCancelled(w) \/ UnlockCancelled(w)

\* They start from a goroutine and write none of its data.
LEMMA MovesMove ==
  ASSUME NEW w \in Workers, Moves(w)
  PROVE  /\ ~At(w, "idle")
         /\ \E pc \in Phases \ {"idle", "ask", "exec", "save"} : Goto(w, pc)
         /\ UNCHANGED <<responses, cp, executed>>
<1>. USE DEF Phases
<1>1. CASE Lease(w) \/ MarkRunning(w) \/ Trust(w)
  BY <1>1 DEF Lease, MarkRunning, AbandonClaim, Trust, At, diskVars
<1>2. CASE Gate(w) \/ EnterSession(w) \/ RoundDone(w)
  BY <1>2 DEF Gate, EnterSession, RoundDone, At, diskVars
<1>3. CASE ReturnSuspended(w) \/ ReturnResult(w) \/ ReturnError(w)
  BY <1>3 DEF ReturnSuspended, ReturnResult, ReturnError, Return, At, diskVars
<1>4. CASE Park(w) \/ GiveBack(w)
  BY <1>4 DEF Park, GiveBack, Land, LandIf, At, diskVars
<1>5. CASE Evaluate(w) \/ Judge(w) \/ FailTask(w)
  BY <1>5 DEF Evaluate, Judge, FailTask, Land, LandIf, At, diskVars
<1>6. CASE LandCancelled(w) \/ UnlockCancelled(w)
  BY <1>6 DEF LandCancelled, UnlockCancelled, LandIf, At, diskVars
<1> QED BY <1>1, <1>2, <1>3, <1>4, <1>5, <1>6 DEF Moves

\* All slots are free, nothing is on disk.
LEMMA RunsTypeInit == Init => RunsTypeOK
<1>. SUFFICES ASSUME Init PROVE RunsTypeOK
  OBVIOUS
<1>1. \A w \in Workers : run[w] = Idle
  BY DEF Init
<1>2. run \in [Workers -> Runs]
  BY <1>1, IdleOK DEF Init, RunOK
<1>3. responses \in 0 .. MaxResponses /\ executed \in [Requests -> 0 .. Often]
  BY LifecycleAssumption DEF Init, Often
<1>4. cp \in [Sessions -> Checkpoints \cup {Nil}]
  BY DEF Init
<1> QED BY <1>1, <1>2, <1>3, <1>4 DEF RunsTypeOK, At, Idle, Goroutine

\* A goroutine at its start is well typed, fresh or resuming.
LEMMA GoroutineOK ==
  ASSUME NEW t \in Tasks
  PROVE  RunOK(Goroutine(t, "lock", FALSE)) /\ RunOK(Goroutine(t, "gate", TRUE))
<1>1. Goroutine(t, "lock", FALSE) \in Runs /\ Goroutine(t, "gate", TRUE) \in Runs
  BY LifecycleAssumption DEF Goroutine, Runs, Phases
<1> QED BY <1>1 DEF RunOK, Goroutine

\* A goroutine that is spawned gets a free slot.
LEMMA SpawnTypes ==
  ASSUME RunsTypeOK, NEW t \in Tasks, UNCHANGED <<responses, cp, executed>>,
         Spawn(t, "lock", FALSE) \/ Spawn(t, "gate", TRUE)
  PROVE  RunsTypeOK'
<1>1. FreeSlot \in Workers
  BY SlotIsFree DEF Spawn
<1>2. \/ run' = [run EXCEPT ![FreeSlot] = Goroutine(t, "lock", FALSE)]
      \/ run' = [run EXCEPT ![FreeSlot] = Goroutine(t, "gate", TRUE)]
  BY DEF Spawn
<1> QED BY <1>1, <1>2, GoroutineOK, RunReplaced DEF RunsTypeOK

\* The session of a goroutine's task is one of the sessions.
LEMMA KeyType == ASSUME RunsTypeOK, NEW w \in Workers, ~At(w, "idle") PROVE Key(w) \in Sessions
  BY DEF RunsTypeOK, Key, Sessions

\* A run that takes up response n: field by field.
Answered(r, n) == [r EXCEPT !.pc = "ask", !.resp = n, !.left = Calls]

\* It is well typed.
LEMMA AnsweredOK ==
  ASSUME NEW r \in Runs, r.task \in Tasks, NEW n \in 1 .. MaxResponses
  PROVE  RunOK(Answered(r, n))
<1>1. ASSUME NEW q \in Runs PROVE [q EXCEPT !.pc = "ask"] \in Runs
  BY DEF Runs, Phases
<1>2. ASSUME NEW q \in Runs PROVE [q EXCEPT !.resp = n] \in Runs
  BY LifecycleAssumption DEF Runs
<1>3. ASSUME NEW q \in Runs, NEW L \in SUBSET Calls PROVE [q EXCEPT !.left = L] \in Runs
  BY DEF Runs
<1>4. Answered(r, n) \in Runs
  <2>1. Calls \in SUBSET Calls
    OBVIOUS
  <2> QED BY <1>1, <1>2, <1>3, <2>1 DEF Answered
<1>5. Answered(r, n).pc = "ask" /\ Answered(r, n).task = r.task /\ Answered(r, n).resp = n
  BY DEF Answered, Runs
<1> QED BY <1>4, <1>5 DEF RunOK

\* A run that loads a checkpoint takes up the response saved there.
LEMMA LoadTypes == ASSUME RunsTypeOK, NEW w \in Workers, Load(w) PROVE RunsTypeOK'
<1>. DEFINE c == cp[Key(w)]
<1>1. UNCHANGED <<responses, cp, executed>> /\ At(w, "load") /\ run[w] \in Runs
      /\ run[w].task \in Tasks /\ responses \in 0 .. MaxResponses
  BY DEF Load, diskVars, RunsTypeOK, At
<1>2. CASE c = Nil
  <2>1. Goto(w, "generate")
    BY <1>2 DEF Load, Goto
  <2> QED BY <1>1, <2>1, GotoTypes DEF Phases, At
<1>3. CASE c # Nil
  <2>1. c.resp \in 1 .. MaxResponses
    BY <1>1, <1>3, KeyType DEF RunsTypeOK, Checkpoints, At
  <2>2. run' = [run EXCEPT ![w] = Answered(run[w], c.resp)]
    BY <1>3 DEF Load, Answered
  <2> QED BY <1>1, <2>1, <2>2, AnsweredOK, RunReplaced
<1> QED BY <1>2, <1>3

\* A run that generates has one response more.
LEMMA GenerateTypes == ASSUME RunsTypeOK, NEW w \in Workers, Generate(w) PROVE RunsTypeOK'
<1>1. UNCHANGED <<cp, executed>> /\ At(w, "generate") /\ run[w] \in Runs
      /\ run[w].task \in Tasks /\ responses \in 0 .. MaxResponses
  BY DEF Generate, diskVars, RunsTypeOK, At
<1>2. CASE responses' = responses /\ Goto(w, "finish")
  BY <1>1, <1>2, GotoTypes DEF Phases, At
<1>3. CASE /\ responses < MaxResponses /\ responses' = responses + 1
           /\ run' = [run EXCEPT ![w] = Answered(run[w], responses + 1)]
  <2>1. responses + 1 \in 1 .. MaxResponses
    BY <1>1, <1>3, LifecycleAssumption
  <2>2. responses' \in 0 .. MaxResponses
    BY <1>3, <2>1
  <2> QED BY <1>1, <1>3, <2>1, <2>2, AnsweredOK, RunReplaced
<1> QED BY <1>2, <1>3 DEF Generate, Answered

\* The steps on the calls of a response keep task and response.
LEMMA CallTypes ==
  ASSUME RunsTypeOK, NEW w \in Workers, Ask(w) \/ Asked(w) \/ DispatchCall(w)
  PROVE  RunsTypeOK'
<1>1. run[w] \in Runs /\ run[w].task \in Tasks /\ run[w].resp > 0 /\ run[w].pc \in {"ask", "exec"}
  BY DEF RunsTypeOK, Ask, AskAbout, Asked, DispatchCall, At
<1>2. UNCHANGED <<responses, cp>> /\ responses \in 0 .. MaxResponses
  BY DEF RunsTypeOK, Ask, AskAbout, Asked, DispatchCall, diskVars
<1>3. CASE Ask(w)
  <2>1. PICK c \in Calls :
          \/ run' = [run EXCEPT ![w].left = @ \ {c}]
          \/ run' = [run EXCEPT ![w] = [run[w] EXCEPT !.left = @ \ {c}, !.ask = TRUE]]
    BY <1>3 DEF Ask, AskAbout
  <2>. DEFINE r1 == [run[w] EXCEPT !.left = @ \ {c}]
              r2 == [run[w] EXCEPT !.left = @ \ {c}, !.ask = TRUE]
  <2>2. r1 \in Runs /\ r1.pc = run[w].pc /\ r1.task = run[w].task /\ r1.resp = run[w].resp
    BY <1>1 DEF Runs
  <2>3. r2 \in Runs /\ r2.pc = run[w].pc /\ r2.task = run[w].task /\ r2.resp = run[w].resp
    BY <1>1 DEF Runs
  <2>4. run' = [run EXCEPT ![w] = r1] \/ run' = [run EXCEPT ![w] = r2]
    <3>1. CASE run' = [run EXCEPT ![w].left = @ \ {c}]
      BY <3>1
    <3>2. CASE run' = [run EXCEPT ![w] = [run[w] EXCEPT !.left = @ \ {c}, !.ask = TRUE]]
      BY <3>2
    <3> QED BY <2>1, <3>1, <3>2
  <2>. HIDE DEF r1, r2
  <2>5. RunOK(r1) /\ RunOK(r2)
    BY <1>1, <2>2, <2>3 DEF RunOK
  <2>6. UNCHANGED <<responses, cp, executed>>
    BY <1>3 DEF Ask, AskAbout, diskVars
  <2> QED BY <1>2, <2>4, <2>5, <2>6, RunReplaced
<1>4. CASE Asked(w)
  <2>. DEFINE r1 == [run[w] EXCEPT !.pc = "save", !.ask = FALSE]
              r2 == [run[w] EXCEPT !.pc = "exec", !.left = Calls]
  <2>1. run' = [run EXCEPT ![w] = r1] \/ run' = [run EXCEPT ![w] = r2]
    BY <1>4 DEF Asked
  <2>2. r1 \in Runs /\ r1.pc = "save" /\ r1.task = run[w].task /\ r1.resp = run[w].resp
    BY <1>1 DEF Runs, Phases
  <2>3. r2 \in Runs /\ r2.pc = "exec" /\ r2.task = run[w].task /\ r2.resp = run[w].resp
    BY <1>1 DEF Runs, Phases
  <2>4. RunOK(r1) /\ RunOK(r2)
    BY <1>1, <2>2, <2>3 DEF RunOK
  <2> QED BY <1>2, <1>4, <2>1, <2>4, RunReplaced DEF Asked, diskVars
<1>5. CASE DispatchCall(w)
  <2>1. PICK c \in run[w].left :
          /\ run' = [run EXCEPT ![w].left = @ \ {c}]
          /\ executed' = IF Resolve(Request(w, c))
                         THEN [executed EXCEPT ![Request(w, c)] = IF @ = Often THEN @ ELSE @ + 1]
                         ELSE executed
    BY <1>5 DEF DispatchCall
  <2>. DEFINE r == [run[w] EXCEPT !.left = @ \ {c}]
  <2>2. c \in Calls
    BY <1>1, <2>1 DEF Runs
  <2>3. executed' \in [Requests -> 0 .. Often]
    BY <1>1, <2>1, <2>2, RequestType DEF RunsTypeOK, Often
  <2>4. r \in Runs /\ r.pc = run[w].pc /\ r.task = run[w].task /\ r.resp = run[w].resp
    BY <1>1 DEF Runs
  <2>5. RunOK(r)
    BY <1>1, <2>4 DEF RunOK
  <2>6. run' \in [Workers -> Runs] /\ \A v \in Workers : run'[v] = IF v = w THEN r ELSE run[v]
    BY <2>1, <2>4 DEF RunsTypeOK
  <2>7. \A v \in Workers : RunOK(run'[v])
    BY <2>5, <2>6, RunsAreOK
  <2> QED BY <1>2, <2>3, <2>6, <2>7 DEF RunsTypeOK, RunOK, At
<1> QED BY <1>3, <1>4, <1>5

\* Saving, deleting, and the end of the goroutine.
LEMMA CheckpointTypes ==
  ASSUME RunsTypeOK, NEW w \in Workers, SaveCheckpoint(w) \/ DeleteCheckpoint(w) \/ Exit(w)
  PROVE  RunsTypeOK'
<1>1. CASE SaveCheckpoint(w)
  <2>1. ~At(w, "idle") /\ "suspend" \in Phases \ {"idle", "ask", "exec", "save"} /\ Goto(w, "suspend")
    BY <1>1 DEF SaveCheckpoint, At, Phases
  <2>2. [task |-> run[w].task, resp |-> run[w].resp] \in Checkpoints
    BY <1>1 DEF SaveCheckpoint, RunsTypeOK, Runs, Checkpoints, At
  <2>3. cp' \in [Sessions -> Checkpoints \cup {Nil}]
    BY <1>1, <2>2 DEF SaveCheckpoint, RunsTypeOK
  <2> QED BY <1>1, <2>1, <2>3, GotoTypes DEF SaveCheckpoint, RunsTypeOK, RunOK, At
<1>2. CASE DeleteCheckpoint(w)
  <2>1. ~At(w, "idle") /\ "close" \in Phases \ {"idle", "ask", "exec", "save"} /\ Goto(w, "close")
    BY <1>2 DEF DeleteCheckpoint, At, Phases
  <2>2. cp' \in [Sessions -> Checkpoints \cup {Nil}]
    BY <1>2 DEF DeleteCheckpoint, RunsTypeOK
  <2> QED BY <1>2, <2>1, <2>2, GotoTypes DEF DeleteCheckpoint, RunsTypeOK, RunOK, At
<1>3. CASE Exit(w)
  BY <1>3, IdleOK, RunReplaced DEF Exit, diskVars, RunsTypeOK
<1> QED BY <1>1, <1>2, <1>3

\* Runs, checkpoints and counts keep their types.
LEMMA RunsTypeStep == TypeOK /\ [Next]_vars => RunsTypeOK'
<1>. SUFFICES ASSUME TypeOK, Steps PROVE RunsTypeOK'
  BY StepCases
<1>. USE DEF TypeOK
<1>1. CASE UNCHANGED <<run, responses, cp, executed>>
  BY <1>1 DEF RunsTypeOK, At
<1>2. ASSUME NEW t \in Tasks, Interrupt(t) PROVE RunsTypeOK'
  <2>. DEFINE w == cancels[t]
              r == [run[w] EXCEPT !.cancelled = TRUE]
  <2>1. w \in Workers /\ run' = [run EXCEPT ![w] = r] /\ UNCHANGED <<responses, cp, executed>>
    BY <1>2 DEF Interrupt, CoordinatorTypeOK, diskVars
  <2>2. run[w] \in Runs /\ run[w].task = t
    BY <1>2, <2>1 DEF Interrupt, CoordinatorTypeOK, RunsTypeOK
  <2>3. run[w].pc # "idle"
    BY <2>1, <2>2, LifecycleAssumption DEF RunsTypeOK, At, Idle, Goroutine
  <2>4. r \in Runs /\ r.pc = run[w].pc /\ r.task = run[w].task /\ r.resp = run[w].resp
    BY <2>2 DEF Runs
  <2>5. RunOK(r)
    BY <2>1, <2>2, <2>3, <2>4, RunsAreOK DEF RunOK
  <2> QED BY <2>1, <2>5, RunReplaced DEF RunsTypeOK
<1>3. CASE Background
  <2>1. CASE Claim
    <3>1. UNCHANGED run \/ \E t \in Tasks : Spawn(t, "gate", TRUE)
      BY <2>1 DEF Claim, ClaimUnless
    <3>2. UNCHANGED <<responses, cp, executed>>
      BY <2>1 DEF Claim, ClaimUnless, diskVars
    <3> QED BY <3>1, <3>2, <1>1, SpawnTypes
  <2>2. CASE Dispatch
    BY <2>2, SpawnTypes DEF Dispatch, diskVars
  <2>3. CASE ~Claim /\ ~Dispatch
    BY <1>3, <2>3, <1>1 DEF Background, Tick, ScanLoad, ScanDone, TickFails, Sweep, SweepStep, SweepDone,
       diskVars, coordinatorVars
  <2> QED BY <2>1, <2>2, <2>3
<1>4. ASSUME NEW w \in Workers, Worker(w) PROVE RunsTypeOK'
  <2>1. CASE Moves(w)
    BY <2>1, MovesMove, GotoTypes
  <2>2. CASE ~Moves(w)
    BY <1>4, <2>2, LoadTypes, GenerateTypes, CallTypes, CheckpointTypes DEF Worker, Moves
  <2> QED BY <2>1, <2>2
<1>5. CASE CrashRestart
  <2>1. \A w \in Workers : run'[w] = Idle
    BY <1>5 DEF CrashRestart, Volatile
  <2>2. run' \in [Workers -> Runs]
    BY <1>5, IdleOK DEF CrashRestart, Volatile, RunOK
  <2>3. UNCHANGED <<responses, cp, executed>>
    BY <1>5 DEF CrashRestart, diskVars
  <2> QED BY <2>1, <2>2, <2>3 DEF RunsTypeOK, At, Idle, Goroutine
<1>6. CASE \/ \E t \in Tasks : Submit(t) \/ LeaseEnds(t)
           \/ \E d \in Humans : Decide(d)
           \/ \E k \in Tickets : Expire(k)
           \/ UNCHANGED vars
  BY <1>6, <1>1 DEF Submit, LeaseEnds, Decide, Expire, vars, coordinatorVars, diskVars
<1> QED BY <1>2, <1>3, <1>4, <1>5, <1>6 DEF Steps

-----------------------------------------------------------------------------
(* The coordinator's own tables.                                             *)

\* A goroutine's step changes its own slot only, and neither its task nor
\* whether it is a resumption, except for its last.
LEMMA OneRunMoves ==
  ASSUME RunsTypeOK, NEW w \in Workers, Worker(w)
  PROVE  /\ \A v \in Workers \ {w} : run'[v] = run[v]
         /\ ~Exit(w) => run'[w].task = run[w].task /\ run'[w].resumed = run[w].resumed
<1>1. run[w] \in Runs
  BY DEF RunsTypeOK
<1>2. ASSUME NEW pc, Goto(w, pc)
      PROVE  /\ \A v \in Workers \ {w} : run'[v] = run[v]
             /\ run'[w].task = run[w].task /\ run'[w].resumed = run[w].resumed
  BY <1>1, <1>2 DEF Goto, RunsTypeOK, Runs
<1>3. CASE Moves(w)
  BY <1>2, <1>3, MovesMove
<1>4. CASE SaveCheckpoint(w) \/ DeleteCheckpoint(w)
  BY <1>2, <1>4 DEF SaveCheckpoint, DeleteCheckpoint
<1>5. CASE Load(w) \/ Generate(w)
  BY <1>1, <1>2, <1>5 DEF Load, Generate, RunsTypeOK, Runs
<1>6. CASE Ask(w)
  BY <1>1, <1>6 DEF Ask, AskAbout, RunsTypeOK, Runs
<1>7. CASE Asked(w) \/ DispatchCall(w)
  BY <1>1, <1>7 DEF Asked, DispatchCall, RunsTypeOK, Runs
<1>8. CASE Exit(w)
  BY <1>8 DEF Exit, RunsTypeOK
<1> QED BY <1>3, <1>4, <1>5, <1>6, <1>7, <1>8 DEF Worker, Moves

\* An interrupt cancels a context and moves nothing.
LEMMA InterruptMoves ==
  ASSUME RunsTypeOK, CoordinatorTypeOK, NEW t \in Tasks, Interrupt(t), NEW v \in Workers
  PROVE  run'[v].task = run[v].task /\ run'[v].resumed = run[v].resumed /\ run'[v].pc = run[v].pc
  BY DEF Interrupt, RunsTypeOK, CoordinatorTypeOK, Runs

\* A spawned goroutine takes a free slot and leaves the others alone.
LEMMA SpawnMoves ==
  ASSUME RunsTypeOK, NEW t \in Tasks, NEW pc, NEW resumed, Spawn(t, pc, resumed)
  PROVE  \E f \in Workers :
           /\ run[f] = Idle
           /\ \A v \in Workers \ {f} : run'[v] = run[v]
           /\ run'[f] = Goroutine(t, pc, resumed)
           /\ cancels' = [cancels EXCEPT ![t] = f]
  BY SlotIsFree DEF Spawn, RunsTypeOK, At

\* The coordinator starts with empty tables.
LEMMA CoordinatorTypeInit == Init => CoordinatorTypeOK
  BY LifecycleAssumption DEF Init, CoordinatorTypeOK

\* The cancel entries of the coordinator's table reach the task's own run.
CancelsReach == \A t \in Tasks : cancels[t] # Nil => run[cancels[t]].task = t

\* An entry is written with its goroutine and erased with it.
LEMMA CancelsStep ==
  ASSUME TypeOK, Steps
  PROVE  cancels' \in [Tasks -> Workers \cup {Nil}] /\ CancelsReach'
<1>. USE DEF TypeOK
<1>1. CASE cancels' = cancels /\ \A v \in Workers : run'[v].task = run[v].task
  BY <1>1 DEF CancelsReach, CoordinatorTypeOK
<1>2. ASSUME NEW t \in Tasks, NEW pc, NEW resumed, Spawn(t, pc, resumed)
      PROVE  cancels' \in [Tasks -> Workers \cup {Nil}] /\ CancelsReach'
  <2>1. PICK f \in Workers :
          /\ run[f] = Idle
          /\ \A v \in Workers \ {f} : run'[v] = run[v]
          /\ run'[f] = Goroutine(t, pc, resumed)
          /\ cancels' = [cancels EXCEPT ![t] = f]
    BY <1>2, SpawnMoves
  <2>2. run[f].task = Nil /\ run'[f].task = t
    BY <2>1 DEF Idle, Goroutine
  <2>3. \A x \in Tasks : cancels[x] # f
    BY <2>2, LifecycleAssumption DEF CoordinatorTypeOK
  <2> QED BY <2>1, <2>2, <2>3 DEF CancelsReach, CoordinatorTypeOK
<1>3. ASSUME NEW t \in Tasks, Interrupt(t) PROVE cancels' = cancels /\ \A v \in Workers : run'[v].task = run[v].task
  BY <1>3, InterruptMoves DEF Interrupt
<1>4. CASE Background
  <2>1. CASE Dispatch
    BY <2>1, <1>2 DEF Dispatch
  <2>2. CASE Claim
    BY <2>2, <1>1, <1>2 DEF Claim, ClaimUnless
  <2>3. CASE ~Claim /\ ~Dispatch
    BY <1>4, <2>3, <1>1 DEF Background, Tick, ScanLoad, ScanDone, TickFails, Sweep, SweepStep, SweepDone,
       coordinatorVars
  <2> QED BY <2>1, <2>2, <2>3
<1>5. ASSUME NEW w \in Workers, Worker(w)
      PROVE  cancels' \in [Tasks -> Workers \cup {Nil}] /\ CancelsReach'
  <2>1. CASE ~Exit(w)
    <3>1. cancels' = cancels
      BY <1>5, <2>1 DEF Worker, Lease, MarkRunning, Trust, Gate, EnterSession, Load, Generate, Ask, AskAbout, Asked,
         DispatchCall, RoundDone, SaveCheckpoint, ReturnSuspended, DeleteCheckpoint, ReturnResult,
         ReturnError, Park, GiveBack, Evaluate, Judge, FailTask, LandCancelled, UnlockCancelled
    <3> QED BY <3>1, <1>1, <1>5, <2>1, OneRunMoves
  <2>2. CASE Exit(w)
    <3>1. run[w].task \in Tasks
      BY <2>2 DEF Exit, At, RunsTypeOK
    <3>2. \A x \in Tasks : cancels'[x] # Nil => cancels'[x] = cancels[x] /\ cancels[x] # w
      BY <2>2, <3>1 DEF Exit, CoordinatorTypeOK
    <3>3. \A v \in Workers \ {w} : run'[v] = run[v]
      BY <1>5, OneRunMoves
    <3> QED BY <2>2, <3>1, <3>2, <3>3 DEF Exit, CoordinatorTypeOK, CancelsReach
  <2> QED BY <2>1, <2>2
<1>6. CASE CrashRestart
  BY <1>6 DEF CrashRestart, Volatile, CancelsReach
<1>7. CASE \/ \E t \in Tasks : Submit(t) \/ LeaseEnds(t)
           \/ \E d \in Humans : Decide(d)
           \/ \E k \in Tickets : Expire(k)
           \/ UNCHANGED vars
  BY <1>7, <1>1 DEF Submit, LeaseEnds, Decide, Expire, vars, coordinatorVars
<1> QED BY <1>1, <1>3, <1>4, <1>5, <1>6, <1>7 DEF Steps

\* The coordinator's tables keep their types.
LEMMA CoordinatorTypeStep == TypeOK /\ [Next]_vars => CoordinatorTypeOK'
<1>. SUFFICES ASSUME TypeOK, Steps PROVE CoordinatorTypeOK'
  BY StepCases
<1>1. cancels' \in [Tasks -> Workers \cup {Nil}] /\ CancelsReach'
  BY CancelsStep
<1>. USE DEF TypeOK
<1>2. submitted' \subseteq Tasks
  <2>1. submitted' = submitted \/ \E t \in Tasks : Submit(t)
    <3>1. CASE Background
      BY <3>1 DEF Background, Tick, ScanLoad, Claim, ClaimUnless, ScanDone, Dispatch, TickFails, Sweep,
         SweepStep, SweepDone
    <3>2. CASE \E w \in Workers : Worker(w)
      BY <3>2 DEF Worker, Lease, MarkRunning, Trust, Gate, EnterSession, Load, Generate, Ask, AskAbout, Asked,
         DispatchCall, RoundDone, SaveCheckpoint, ReturnSuspended, DeleteCheckpoint, ReturnResult,
         ReturnError, Park, GiveBack, Evaluate, Judge, FailTask, LandCancelled, UnlockCancelled, Exit
    <3> QED BY <3>1, <3>2 DEF Steps, Interrupt, LeaseEnds, Decide, Expire, CrashRestart, vars
  <2> QED BY <2>1 DEF Submit, CoordinatorTypeOK
<1>3. crashes' \in 0 .. MaxCrashes
  <2>1. crashes' = crashes \/ CrashRestart
    <3>1. CASE Background
      BY <3>1 DEF Background, Tick, ScanLoad, Claim, ClaimUnless, ScanDone, Dispatch, TickFails, Sweep,
         SweepStep, SweepDone
    <3>2. CASE \E w \in Workers : Worker(w)
      BY <3>2 DEF Worker, Lease, MarkRunning, Trust, Gate, EnterSession, Load, Generate, Ask, AskAbout, Asked,
         DispatchCall, RoundDone, SaveCheckpoint, ReturnSuspended, DeleteCheckpoint, ReturnResult,
         ReturnError, Park, GiveBack, Evaluate, Judge, FailTask, LandCancelled, UnlockCancelled, Exit
    <3> QED BY <3>1, <3>2 DEF Steps, Submit, Interrupt, LeaseEnds, Decide, Expire, vars
  <2> QED BY <2>1, LifecycleAssumption DEF CrashRestart, CoordinatorTypeOK
<1>4. resuming' \subseteq Tasks /\ scan' \subseteq Tasks
      /\ tick' \in {"idle", "scan", "claim", "dispatch", "sweep"}
  <2>1. CASE Background
    BY <2>1 DEF Background, Tick, ScanLoad, Claim, ClaimUnless, ScanDone, Dispatch, TickFails, Sweep,
       SweepStep, SweepDone, CoordinatorTypeOK, coordinatorVars
  <2>2. ASSUME NEW w \in Workers, Worker(w)
        PROVE  resuming' \subseteq resuming /\ scan' = scan /\ tick' = tick
    BY <2>2 DEF Worker, Lease, MarkRunning, Trust, Gate, EnterSession, Load, Generate, Ask, AskAbout, Asked,
       DispatchCall, RoundDone, SaveCheckpoint, ReturnSuspended, DeleteCheckpoint, ReturnResult,
       ReturnError, Park, GiveBack, Evaluate, Judge, FailTask, LandCancelled, UnlockCancelled, Exit
  <2>3. CASE CrashRestart
    BY <2>3 DEF CrashRestart, Volatile
  <2>4. CASE \/ \E t \in Tasks : Submit(t) \/ Interrupt(t) \/ LeaseEnds(t)
             \/ \E d \in Humans : Decide(d)
             \/ \E k \in Tickets : Expire(k)
             \/ UNCHANGED vars
    BY <2>4 DEF Submit, Interrupt, LeaseEnds, Decide, Expire, vars, coordinatorVars, CoordinatorTypeOK
  <2> QED BY <2>1, <2>2, <2>3, <2>4 DEF Steps, CoordinatorTypeOK
<1> QED BY <1>1, <1>2, <1>3, <1>4 DEF CoordinatorTypeOK, CancelsReach

-----------------------------------------------------------------------------
(* The sessions' locks.                                                      *)

\* No session is locked.
LEMMA SessionsHeldInit == Init => SessionsHeld
  BY LifecycleAssumption DEF Init, SessionsHeld, Idle, Goroutine, InSession, InRunTask

\* While nobody's task or place relative to the lock changes, it stays right.
LEMMA SessionsKept ==
  ASSUME TypeOK, session' = session,
         \A v \in Workers : /\ run'[v].pc \in InSession <=> run[v].pc \in InSession
                            /\ run[v].pc \in InSession => run'[v].task = run[v].task
  PROVE  SessionsHeld'
  BY DEF TypeOK, SessionsHeld, Key

\* A run that leaves RunTask frees the lock it holds, and no other.
LEMMA SessionsReturn ==
  ASSUME TypeOK, NEW w \in Workers, ~At(w, "idle"),
         NEW pc \in Phases \ (InSession \cup {"idle", "ask", "exec", "save"}), Return(w, pc)
  PROVE  SessionsHeld'
<1>. USE DEF TypeOK
<1>1. run'[w].pc \notin InSession
  <2>1. run' = [run EXCEPT ![w] = [run[w] EXCEPT !.pc = pc]] /\ run[w] \in Runs
    BY DEF Return, Goto, RunsTypeOK
  <2> QED BY <2>1 DEF Runs, RunsTypeOK
<1>2. \A v \in Workers \ {w} : run'[v] = run[v]
  BY DEF Return, Goto, RunsTypeOK
<1>3. /\ session' \in [Sessions -> Workers \cup {Nil}]
      /\ \A s \in Sessions : session'[s] = IF session[s] = w THEN Nil ELSE session[s]
  BY DEF Return, SessionsHeld
<1>4. ASSUME NEW v \in Workers, run'[v].pc \in InSession PROVE session'[Key(v)'] = v
  <2>1. v # w /\ run'[v] = run[v]
    BY <1>1, <1>2, <1>4
  <2>2. Key(v)' = Key(v) /\ session[Key(v)] = v /\ Key(v) \in Sessions
    <3>1. ~At(v, "idle")
      BY <1>4, <2>1 DEF At, InSession, InRunTask
    <3> QED BY <1>4, <2>1, <3>1, KeyType DEF Key, SessionsHeld
  <2> QED BY <1>3, <2>1, <2>2
<1>5. ASSUME NEW v \in Workers, NEW s \in Sessions, session'[s] = v
      PROVE  run'[v].pc \in InSession /\ s = Key(v)'
  <2>1. v # w /\ session[s] = v
    BY <1>3, <1>5, LifecycleAssumption
  <2> QED BY <1>2, <2>1 DEF Key, SessionsHeld
<1> QED BY <1>3, <1>4, <1>5 DEF SessionsHeld

\* A lock is taken on entering RunTask and freed on leaving it, on every path.
LEMMA SessionsHeldStep == TypeOK /\ [Next]_vars => SessionsHeld'
<1>. SUFFICES ASSUME TypeOK, Steps PROVE SessionsHeld'
  BY StepCases
<1>. USE DEF TypeOK
<1>1. CASE session' = session /\ \A v \in Workers : run'[v].pc = run[v].pc /\ run'[v].task = run[v].task
  BY <1>1, SessionsKept
<1>2. ASSUME session' = session, NEW t \in Tasks, NEW pc \in {"lock", "gate"}, NEW resumed, Spawn(t, pc, resumed)
      PROVE  SessionsHeld'
  <2>1. PICK f \in Workers :
          /\ run[f] = Idle
          /\ \A v \in Workers \ {f} : run'[v] = run[v]
          /\ run'[f] = Goroutine(t, pc, resumed)
    BY <1>2, SpawnMoves
  <2>2. run[f].pc \notin InSession /\ run'[f].pc \notin InSession
    BY <2>1 DEF Idle, Goroutine, InSession, InRunTask
  <2> QED BY <1>2, <2>1, <2>2, SessionsKept
<1>3. CASE Background
  <2>0. session' = session
    BY <1>3 DEF Background, Tick, ScanLoad, Claim, ClaimUnless, ScanDone, Dispatch, TickFails, Sweep,
       SweepStep, SweepDone, coordinatorVars
  <2>1. CASE Dispatch
    BY <2>0, <2>1, <1>2 DEF Dispatch
  <2>2. CASE Claim
    BY <2>0, <2>2, <1>1, <1>2 DEF Claim, ClaimUnless
  <2>3. CASE ~Claim /\ ~Dispatch
    BY <1>3, <2>0, <2>3, <1>1 DEF Background, Tick, ScanLoad, ScanDone, TickFails, Sweep, SweepStep, SweepDone,
       coordinatorVars
  <2> QED BY <2>1, <2>2, <2>3
<1>4. ASSUME NEW w \in Workers, Worker(w) PROVE SessionsHeld'
  <2>0. /\ \A v \in Workers \ {w} : run'[v] = run[v]
        /\ ~Exit(w) => run'[w].task = run[w].task
    BY <1>4, OneRunMoves
  <2>1. CASE ReturnSuspended(w) \/ ReturnResult(w) \/ ReturnError(w)
    <3>1. ~At(w, "idle") /\ \E pc \in {"park", "review", "cancel", "fail"} : Return(w, pc)
      BY <2>1 DEF ReturnSuspended, ReturnResult, ReturnError, At
    <3> QED BY <3>1, SessionsReturn DEF Phases, InSession, InRunTask
  <2>2. CASE EnterSession(w)
    <3>1. At(w, "session") /\ session[Key(w)] = Nil /\ session' = [session EXCEPT ![Key(w)] = w] /\ Goto(w, "load")
      BY <2>2 DEF EnterSession
    <3>2. Key(w) \in Sessions /\ Key(w)' = Key(w)
      BY <3>1, <2>0, <2>2, KeyType DEF At, Key, EnterSession, Exit
    <3>3. run'[w].pc = "load" /\ "load" \in InSession
      BY <3>1 DEF Goto, RunsTypeOK, Runs, InSession, InRunTask
    <3>4. run[w].pc \notin InSession
      BY <3>1 DEF At, InSession, InRunTask
    <3>5. /\ session' \in [Sessions -> Workers \cup {Nil}]
          /\ \A s \in Sessions : session'[s] = IF s = Key(w) THEN w ELSE session[s]
      BY <3>1, <3>2 DEF SessionsHeld
    <3>6. ASSUME NEW v \in Workers \ {w}, run'[v].pc \in InSession PROVE session'[Key(v)'] = v
      <4>1. Key(v)' = Key(v) /\ session[Key(v)] = v /\ Key(v) \in Sessions
        <5>1. ~At(v, "idle")
          BY <3>6, <2>0 DEF At, InSession, InRunTask
        <5> QED BY <3>6, <2>0, <5>1, KeyType DEF Key, SessionsHeld
      <4> QED BY <3>1, <3>5, <4>1, LifecycleAssumption
    <3>7. ASSUME NEW v \in Workers \ {w}, NEW s \in Sessions, session'[s] = v
          PROVE  run'[v].pc \in InSession /\ s = Key(v)'
      <4>1. session[s] = v
        BY <3>5, <3>7
      <4> QED BY <4>1, <2>0 DEF Key, SessionsHeld
    <3>8. ASSUME NEW s \in Sessions, session'[s] = w PROVE s = Key(w)
      BY <3>4, <3>5, <3>8 DEF SessionsHeld
    <3> QED BY <3>2, <3>3, <3>5, <3>6, <3>7, <3>8 DEF SessionsHeld
  <2>3. CASE \/ Lease(w) \/ MarkRunning(w) \/ Trust(w) \/ Gate(w) \/ Park(w) \/ GiveBack(w) \/ Evaluate(w)
             \/ Judge(w) \/ FailTask(w) \/ LandCancelled(w) \/ UnlockCancelled(w) \/ Exit(w)
    <3>1. session' = session
      BY <2>3 DEF Lease, MarkRunning, AbandonClaim, Trust, Gate, Park, GiveBack, Evaluate, Judge, FailTask, LandCancelled,
         UnlockCancelled, Exit
    <3>2. run[w].pc \notin InSession
      BY <2>3 DEF Lease, MarkRunning, AbandonClaim, Trust, Gate, Park, GiveBack, Evaluate, Judge, FailTask, LandCancelled,
         UnlockCancelled, Exit, At, InSession, InRunTask
    <3>3. CASE Exit(w)
      <4>1. run'[w].pc \notin InSession
        BY <3>3 DEF Exit, Idle, Goroutine, InSession, InRunTask, RunsTypeOK
      <4> QED BY <3>1, <3>2, <4>1, <2>0, SessionsKept
    <3>4. CASE ~Exit(w)
      <4>1. \E pc \in {"mark", "exit", "trust", "gate", "session", "fail", "unlock", "review", "judge", "freed"} :
              Goto(w, pc)
        BY <2>3, <3>4 DEF Lease, MarkRunning, AbandonClaim, Trust, Gate, Park, GiveBack, Evaluate, Judge, FailTask,
           LandCancelled, UnlockCancelled, Land, LandIf
      <4>2. run'[w].pc \notin InSession
        BY <4>1 DEF Goto, RunsTypeOK, Runs, InSession, InRunTask
      <4> QED BY <3>1, <3>2, <4>2, <2>0, SessionsKept
    <3> QED BY <3>3, <3>4
  <2>4. CASE \/ Load(w) \/ Generate(w) \/ Ask(w) \/ Asked(w) \/ DispatchCall(w) \/ RoundDone(w)
             \/ SaveCheckpoint(w) \/ DeleteCheckpoint(w)
    <3>1. session' = session /\ run[w].pc \in InSession
      BY <2>4 DEF Load, Generate, Ask, AskAbout, Asked, DispatchCall, RoundDone, SaveCheckpoint, DeleteCheckpoint,
         At, InSession, InRunTask
    <3>2. run'[w].pc \in InSession
      <4>0. run[w] \in Runs
        BY DEF RunsTypeOK
      <4>1. CASE RoundDone(w) \/ SaveCheckpoint(w) \/ DeleteCheckpoint(w)
        BY <4>0, <4>1 DEF RoundDone, SaveCheckpoint, DeleteCheckpoint, Goto, RunsTypeOK, Runs, InSession, InRunTask
      <4>2. CASE Load(w) \/ Generate(w)
        <5>1. \/ \E pc \in {"generate", "finish"} : Goto(w, pc)
              \/ \E n : run' = [run EXCEPT ![w] = Answered(run[w], n)]
          BY <4>2 DEF Load, Generate, Goto, Answered
        <5>2. \A n : Answered(run[w], n).pc = "ask"
          BY <4>0 DEF Answered, Runs
        <5> QED BY <4>0, <5>1, <5>2 DEF Goto, RunsTypeOK, Runs, InSession, InRunTask
      <4>3. CASE Ask(w) \/ DispatchCall(w)
        <5>1. run'[w].pc = run[w].pc
          BY <4>0, <4>3 DEF Ask, AskAbout, DispatchCall, RunsTypeOK, Runs
        <5> QED BY <5>1, <3>1
      <4>4. CASE Asked(w)
        BY <4>0, <4>4 DEF Asked, RunsTypeOK, Runs, InSession, InRunTask
      <4> QED BY <2>4, <4>1, <4>2, <4>3, <4>4
    <3>3. ~Exit(w)
      BY <2>4 DEF Load, Generate, Ask, AskAbout, Asked, DispatchCall, RoundDone, SaveCheckpoint, DeleteCheckpoint,
         Exit, At
    <3> QED BY <3>1, <3>2, <3>3, <2>0, SessionsKept
  <2> QED BY <1>4, <2>1, <2>2, <2>3, <2>4 DEF Worker
<1>5. CASE CrashRestart
  BY <1>5, LifecycleAssumption DEF CrashRestart, Volatile, SessionsHeld, Idle, Goroutine, InSession, InRunTask
<1>6. ASSUME NEW t \in Tasks, Interrupt(t) PROVE SessionsHeld'
  BY <1>1, <1>6, InterruptMoves DEF Interrupt
<1>7. CASE \/ \E t \in Tasks : Submit(t) \/ LeaseEnds(t)
           \/ \E d \in Humans : Decide(d)
           \/ \E k \in Tickets : Expire(k)
           \/ UNCHANGED vars
  BY <1>7, <1>1 DEF Submit, LeaseEnds, Decide, Expire, vars, coordinatorVars
<1> QED BY <1>3, <1>4, <1>5, <1>6, <1>7 DEF Steps

-----------------------------------------------------------------------------
\* Whatever fails, times out or restarts, every variable keeps its type, a
\* session is locked exactly by the run inside it, a run that deals with calls
\* has a response, and a cancel entry reaches a goroutine of its task.
THEOREM TypeCorrect == Spec => []TypeOK
<1>1. Init => TypeOK
  BY SchedulerTypeInit, ApprovalsTypeInit, RunsTypeInit, CoordinatorTypeInit, SessionsHeldInit DEF TypeOK
<1>2. TypeOK /\ [Next]_vars => TypeOK'
  BY SchedulerTypeStep, ApprovalsTypeStep, RunsTypeStep, CoordinatorTypeStep, SessionsHeldStep DEF TypeOK
<1> QED BY <1>1, <1>2, PTL DEF Spec

-----------------------------------------------------------------------------
(* What Manual mode and the resume scan guarantee of every deployment, for   *)
(* any finite sets of tasks, sessions, calls and slots: the properties the   *)
(* runs check on small instances, proved on top of the type invariant.  The  *)
(* first three rest on one fact, that a ticket moves from none to pending to *)
(* one verdict and then stands.                                              *)

\* The steps that touch tickets: a decision, or a call put to the human.
TicketStep ==
  \/ UNCHANGED <<tickets, shown>>
  \/ \E d \in Deciders : Record(d)
  \/ \E w \in Workers : \E c \in Calls : At(w, "ask") /\ OpenTicket(Request(w, c))

\* No other step of the system writes a ticket.
LEMMA TicketSteps == ASSUME TypeOK, Steps PROVE TicketStep
<1>. USE DEF TypeOK
<1>1. ASSUME NEW d \in Deciders, DeciderStep(d) PROVE TicketStep
  BY <1>1 DEF DeciderStep, ListTickets, Flip, DecideFails, TicketStep
<1>2. ASSUME NEW d \in Humans, Decide(d) PROVE TicketStep
  <2>1. CASE \E k \in Tickets : HumanLook(d, k)
    BY <2>1 DEF HumanLook, Look, TicketStep
  <2> QED BY <1>1, <1>2, <2>1 DEF Decide, Deciders
<1>3. CASE Background
  <2>1. CASE SweepStep
    <3>1. CASE SweepNext
      BY <3>1 DEF SweepNext, Look, TicketStep
    <3> QED BY <1>1, <2>1, <3>1 DEF SweepStep, Deciders
  <2>2. CASE ~SweepStep
    BY <1>3, <2>2 DEF Background, Tick, ScanLoad, Claim, ClaimUnless, ScanDone, Dispatch, TickFails, Sweep,
       SweepDone, approvalVars, TicketStep
  <2> QED BY <2>1, <2>2
<1>4. ASSUME NEW w \in Workers, Worker(w) PROVE TicketStep
  <2>1. CASE Ask(w)
    BY <2>1 DEF Ask, AskAbout, approvalVars, TicketStep
  <2>2. CASE ~Ask(w)
    BY <1>4, <2>2 DEF Worker, Lease, MarkRunning, Trust, Gate, EnterSession, Load, Generate, Asked,
       DispatchCall, RoundDone, SaveCheckpoint, ReturnSuspended, DeleteCheckpoint, ReturnResult,
       ReturnError, Park, GiveBack, Evaluate, Judge, FailTask, LandCancelled, UnlockCancelled, Exit,
       approvalVars, TicketStep
  <2> QED BY <2>1, <2>2
<1>5. CASE CrashRestart
  BY <1>5 DEF CrashRestart, TicketStep
<1>6. CASE \/ \E t \in Tasks : Submit(t) \/ Interrupt(t) \/ LeaseEnds(t)
           \/ \E k \in Tickets : Expire(k)
           \/ UNCHANGED vars
  BY <1>6 DEF Submit, Interrupt, LeaseEnds, Expire, TicketExpires, vars, approvalVars, TicketStep
<1> QED BY <1>2, <1>3, <1>4, <1>5, <1>6 DEF Steps

\* A ticket that was opened stays, one that was decided stands, and whoever it
\* was shown to was shown the same request.
LEMMA TicketsStand ==
  ASSUME TypeOK, Steps, NEW k \in Tickets
  PROVE  /\ tickets[k] # "none" => tickets'[k] # "none"
         /\ tickets[k] \in Verdicts => tickets'[k] = tickets[k]
         /\ shown[k] # NoTicket => shown'[k] = shown[k]
<1>. USE DEF TypeOK, ApprovalsTypeOK
<1>1. CASE UNCHANGED <<tickets, shown>>
  BY <1>1
<1>2. ASSUME NEW d \in Deciders, Record(d)
      PROVE  /\ tickets[k] # "none" => tickets'[k] # "none"
             /\ tickets[k] \in Verdicts => tickets'[k] = tickets[k]
             /\ shown' = shown
  BY <1>2 DEF Record, RecordIf, Verdicts
<1>3. ASSUME NEW q, OpenTicket(q)
      PROVE  /\ tickets[k] # "none" => tickets'[k] = tickets[k]
             /\ shown[k] # NoTicket => shown'[k] = shown[k]
  BY <1>3 DEF OpenTicket
<1> QED BY <1>1, <1>2, <1>3, TicketSteps DEF TicketStep, Verdicts

\* The steps that touch runs.
RunStep ==
  \/ UNCHANGED run
  \/ \E t \in Tasks : Interrupt(t)
  \/ \E t \in Tasks : Spawn(t, "lock", FALSE) \/ Spawn(t, "gate", TRUE)
  \/ \E w \in Workers : Worker(w)
  \/ run' = [w \in Workers |-> Idle]

\* No other step of the system writes a slot.
LEMMA RunSteps == ASSUME Steps PROVE RunStep
<1>1. CASE Background
  BY <1>1 DEF Background, Tick, ScanLoad, Claim, ClaimUnless, ScanDone, Dispatch, TickFails, Sweep, SweepStep,
     SweepDone, coordinatorVars, RunStep
<1>2. CASE \/ \E t \in Tasks : Submit(t) \/ LeaseEnds(t)
           \/ \E d \in Humans : Decide(d)
           \/ \E k \in Tickets : Expire(k)
           \/ UNCHANGED vars
  BY <1>2 DEF Submit, LeaseEnds, Decide, Expire, vars, coordinatorVars, RunStep
<1> QED BY <1>1, <1>2 DEF Steps, CrashRestart, Volatile, RunStep

\* A slot that is given to a new goroutine held none, and that one is at no call.
LEMMA SpawnedIsElsewhere ==
  ASSUME RunsTypeOK, NEW t \in Tasks, NEW pc, NEW resumed, Spawn(t, pc, resumed), NEW v \in Workers
  PROVE  run'[v] = run[v] \/ run'[v].pc = pc
<1>1. PICK f \in Workers :
        /\ run[f] = Idle
        /\ \A x \in Workers \ {f} : run'[x] = run[x]
        /\ run'[f] = Goroutine(t, pc, resumed)
        /\ cancels' = [cancels EXCEPT ![t] = f]
  BY SpawnMoves
<1> QED BY <1>1 DEF Goroutine

-----------------------------------------------------------------------------
(* The gate of a round.                                                      *)

\* While the gate finds no open call, those behind it are decided; and every
\* call of a round that is being dispatched is.
RoundDecided ==
  \A w \in Workers : \A c \in Calls :
    /\ At(w, "ask") /\ ~run[w].ask /\ c \notin run[w].left => Decided(Request(w, c))
    /\ At(w, "exec") => Decided(Request(w, c))

\* What a goroutine's own step makes of the gate of its round.
LEMMA RoundDecidedMove ==
  ASSUME TypeOK, RoundDecided, NEW w \in Workers, Worker(w), NEW c \in Calls
  PROVE  /\ At(w, "ask")' /\ ~run'[w].ask /\ c \notin run'[w].left =>
              run[w].pc \in {"ask", "exec"} /\ Request(w, c)' = Request(w, c) /\ Decided(Request(w, c))
         /\ At(w, "exec")' =>
              run[w].pc \in {"ask", "exec"} /\ Request(w, c)' = Request(w, c) /\ Decided(Request(w, c))
<1>. USE DEF TypeOK
<1>1. run[w] \in Runs
  BY DEF RunsTypeOK
<1>2. ASSUME NEW pc \in Phases \ {"idle", "ask", "exec", "save"}, Goto(w, pc)
      PROVE  ~At(w, "ask")' /\ ~At(w, "exec")'
  BY <1>1, <1>2 DEF Goto, At, RunsTypeOK, Runs
<1>3. CASE Moves(w) \/ SaveCheckpoint(w) \/ DeleteCheckpoint(w)
  <2>1. \E pc \in Phases \ {"idle", "ask", "exec", "save"} : Goto(w, pc)
    BY <1>3, MovesMove DEF SaveCheckpoint, DeleteCheckpoint, Phases
  <2> QED BY <1>2, <2>1
<1>4. CASE Exit(w)
  BY <1>4 DEF Exit, Idle, Goroutine, At, RunsTypeOK
<1>5. CASE Load(w) \/ Generate(w)
  <2>1. \/ \E pc \in {"generate", "finish"} : Goto(w, pc)
        \/ \E n : run' = [run EXCEPT ![w] = Answered(run[w], n)]
    BY <1>5 DEF Load, Generate, Goto, Answered
  <2>2. \A n : Answered(run[w], n).pc = "ask" /\ Answered(run[w], n).left = Calls
    BY <1>1 DEF Answered, Runs
  <2> QED BY <1>2, <2>1, <2>2 DEF At, RunsTypeOK, Phases
<1>6. CASE Ask(w)
  <2>1. PICK d \in Calls : AskAbout(w, d, Decided(Request(w, d)))
    BY <1>6 DEF Ask
  <2>2. CASE Decided(Request(w, d))
    <3>1. At(w, "ask") /\ run' = [run EXCEPT ![w].left = @ \ {d}]
      BY <2>1, <2>2 DEF AskAbout
    <3>2. /\ run'[w].pc = "ask" /\ run'[w].ask = run[w].ask /\ run'[w].left = run[w].left \ {d}
          /\ run'[w].task = run[w].task /\ run'[w].resp = run[w].resp
      BY <1>1, <3>1 DEF RunsTypeOK, Runs, At
    <3> QED BY <2>2, <3>1, <3>2 DEF RoundDecided, Request, At
  <2>3. CASE ~Decided(Request(w, d))
    <3>1. run' = [run EXCEPT ![w] = [run[w] EXCEPT !.left = @ \ {d}, !.ask = TRUE]] /\ At(w, "ask")
      BY <2>1, <2>3 DEF AskAbout
    <3>2. run'[w].pc = "ask" /\ run'[w].ask
      BY <1>1, <3>1 DEF RunsTypeOK, Runs, At
    <3> QED BY <3>2 DEF At
  <2> QED BY <2>2, <2>3
<1>7. CASE Asked(w)
  <2>1. CASE run[w].ask
    BY <1>1, <1>7, <2>1 DEF Asked, At, RunsTypeOK, Runs
  <2>2. CASE ~run[w].ask
    <3>1. /\ At(w, "ask") /\ run[w].left = {}
          /\ run' = [run EXCEPT ![w] = [run[w] EXCEPT !.pc = "exec", !.left = Calls]]
      BY <1>7, <2>2 DEF Asked
    <3>2. /\ run'[w].pc = "exec" /\ run'[w].task = run[w].task /\ run'[w].resp = run[w].resp
      BY <1>1, <3>1 DEF RunsTypeOK, Runs
    <3> QED BY <2>2, <3>1, <3>2 DEF RoundDecided, Request, At
  <2> QED BY <2>1, <2>2
<1>8. CASE DispatchCall(w)
  <2>1. /\ run'[w].pc = "exec" /\ run'[w].task = run[w].task /\ run'[w].resp = run[w].resp /\ At(w, "exec")
    BY <1>1, <1>8 DEF DispatchCall, RunsTypeOK, Runs, At
  <2> QED BY <2>1 DEF RoundDecided, Request, At
<1> QED BY <1>3, <1>4, <1>5, <1>6, <1>7, <1>8 DEF Worker, Moves

\* The gate of every round, across the steps of all.
LEMMA RoundDecidedStep == TypeOK /\ RoundDecided /\ [Next]_vars => RoundDecided'
<1>. SUFFICES ASSUME TypeOK, RoundDecided, Steps, NEW v \in Workers, NEW c \in Calls
              PROVE  /\ At(v, "ask")' /\ ~run'[v].ask /\ c \notin run'[v].left => Decided(Request(v, c))'
                     /\ At(v, "exec")' => Decided(Request(v, c))'
  BY StepCases DEF RoundDecided
<1>. USE DEF TypeOK
<1>1. ASSUME run[v].pc \in {"ask", "exec"}, Request(v, c)' = Request(v, c), Decided(Request(v, c))
      PROVE  Decided(Request(v, c))'
  <2>1. Request(v, c) \in Requests
    BY <1>1, RequestType
  <2>2. TicketID(Request(v, c)) \in Tickets /\ TicketID(Request(v, c))' = TicketID(Request(v, c))
    BY <1>1, <2>1, TicketIDType DEF TicketID
  <2> QED BY <1>1, <2>2, TicketsStand DEF Decided, Verdicts
<1>2. CASE run'[v] = run[v]
  BY <1>1, <1>2 DEF RoundDecided, At, Request
<1>3. ASSUME NEW t \in Tasks, Interrupt(t)
      PROVE  /\ At(v, "ask")' /\ ~run'[v].ask /\ c \notin run'[v].left => Decided(Request(v, c))'
             /\ At(v, "exec")' => Decided(Request(v, c))'
  <2>1. /\ run'[v].pc = run[v].pc /\ run'[v].ask = run[v].ask /\ run'[v].left = run[v].left
        /\ run'[v].task = run[v].task /\ run'[v].resp = run[v].resp
    BY <1>3 DEF Interrupt, RunsTypeOK, CoordinatorTypeOK, Runs
  <2> QED BY <2>1, <1>1 DEF RoundDecided, At, Request
<1>4. ASSUME NEW t \in Tasks, Spawn(t, "lock", FALSE) \/ Spawn(t, "gate", TRUE)
      PROVE  /\ At(v, "ask")' /\ ~run'[v].ask /\ c \notin run'[v].left => Decided(Request(v, c))'
             /\ At(v, "exec")' => Decided(Request(v, c))'
  <2>1. run'[v] = run[v] \/ run'[v].pc = "lock" \/ run'[v].pc = "gate"
    <3>1. CASE Spawn(t, "lock", FALSE)
      BY <3>1, SpawnedIsElsewhere
    <3>2. CASE Spawn(t, "gate", TRUE)
      BY <3>2, SpawnedIsElsewhere
    <3> QED BY <1>4, <3>1, <3>2
  <2> QED BY <1>2, <2>1 DEF At
<1>5. ASSUME NEW w \in Workers, Worker(w)
      PROVE  /\ At(v, "ask")' /\ ~run'[v].ask /\ c \notin run'[v].left => Decided(Request(v, c))'
             /\ At(v, "exec")' => Decided(Request(v, c))'
  BY <1>1, <1>2, <1>5, OneRunMoves, RoundDecidedMove
<1>6. CASE run' = [w \in Workers |-> Idle]
  BY <1>6 DEF Idle, Goroutine, At
<1> QED BY <1>2, <1>3, <1>4, <1>5, <1>6, RunSteps DEF RunStep

\* Whatever executeToolCalls is about to dispatch has been decided, however
\* many goroutines, deciders, failures and restarts there are: Resolve never
\* meets the case it calls a control-flow violation.
THEOREM DispatchDecided == Spec => []DispatchedIsDecided
<1>1. Init => RoundDecided
  BY DEF Init, RoundDecided, At, Idle, Goroutine
<1>2. TypeOK /\ RoundDecided => DispatchedIsDecided
  <2>. SUFFICES ASSUME TypeOK, RoundDecided, NEW w \in Workers, At(w, "exec"), NEW c \in run[w].left
                PROVE  Decided(Request(w, c))
    BY DEF DispatchedIsDecided
  <2>1. c \in Calls
    BY DEF TypeOK, RunsTypeOK, Runs
  <2> QED BY <2>1 DEF RoundDecided
<1> QED BY <1>1, <1>2, RoundDecidedStep, TypeCorrect, PTL DEF Spec

-----------------------------------------------------------------------------
(* What reaches a tool.                                                      *)

\* The steps that touch the counts of dispatches.
LEMMA ExecutedSteps ==
  ASSUME TypeOK, Steps
  PROVE  UNCHANGED executed \/ \E w \in Workers : DispatchCall(w)
<1>1. CASE Background
  BY <1>1 DEF Background, Tick, ScanLoad, Claim, ClaimUnless, ScanDone, Dispatch, TickFails, Sweep, SweepStep,
     SweepDone, diskVars
<1>2. ASSUME NEW w \in Workers, Worker(w), ~DispatchCall(w) PROVE UNCHANGED executed
  BY <1>2 DEF Worker, Lease, MarkRunning, Trust, Gate, EnterSession, Load, Generate, Ask, AskAbout, Asked,
     RoundDone, SaveCheckpoint, ReturnSuspended, DeleteCheckpoint, ReturnResult,
     ReturnError, Park, GiveBack, Evaluate, Judge, FailTask, LandCancelled, UnlockCancelled, Exit, diskVars
<1> QED BY <1>1, <1>2 DEF Steps, Submit, Interrupt, LeaseEnds, Decide, Expire, CrashRestart, vars, diskVars

\* A dispatch counts one request up, whose ticket was approved.
LEMMA DispatchCounts ==
  ASSUME TypeOK, NEW w \in Workers, DispatchCall(w)
  PROVE  \/ executed' = executed
         \/ \E q \in Requests : /\ Approved(q)
                                /\ executed' = [executed EXCEPT ![q] = IF @ = Often THEN @ ELSE @ + 1]
<1>1. PICK c \in run[w].left :
        executed' = IF Resolve(Request(w, c))
                    THEN [executed EXCEPT ![Request(w, c)] = IF @ = Often THEN @ ELSE @ + 1]
                    ELSE executed
  BY DEF DispatchCall
<1>2. c \in Calls /\ run[w].pc = "exec"
  BY DEF TypeOK, RunsTypeOK, Runs, DispatchCall, At
<1>3. Request(w, c) \in Requests
  BY <1>2, RequestType DEF TypeOK
<1> QED BY <1>1, <1>3 DEF Resolve

\* With ids that are never used again a ticket is its request's own: what a
\* human was shown is what the ticket stands for.
TicketsAreOwn ==
  \A k \in Tickets : shown[k] \in {NoTicket, k} /\ (tickets[k] # "none" => shown[k] = k)

\* A ticket is opened by its request and decided as it is.
LEMMA TicketsAreOwnStep ==
  ASSUME IdsAreFresh, TypeOK, TicketsAreOwn, Steps
  PROVE  TicketsAreOwn'
<1>. USE DEF TypeOK, ApprovalsTypeOK
<1>1. CASE UNCHANGED <<tickets, shown>>
  BY <1>1 DEF TicketsAreOwn
<1>2. ASSUME NEW d \in Deciders, Record(d) PROVE TicketsAreOwn'
  <2>1. shown' = shown /\ \A k \in Tickets : tickets'[k] # "none" => tickets[k] # "none"
    BY <1>2 DEF Record, RecordIf
  <2> QED BY <2>1 DEF TicketsAreOwn
<1>3. ASSUME NEW w \in Workers, NEW c \in Calls, At(w, "ask"), OpenTicket(Request(w, c)) PROVE TicketsAreOwn'
  <2>1. Request(w, c) \in Requests /\ TicketID(Request(w, c)) = Request(w, c)
    BY <1>3, RequestType DEF At, TicketID
  <2>2. Request(w, c) \in Tickets
    BY <2>1, TicketIDType
  <2>. DEFINE q == Request(w, c)
  <2>. HIDE DEF q
  <2>3. /\ tickets' = [tickets EXCEPT ![q] = IF @ = "none" THEN "pending" ELSE @]
        /\ shown' = [shown EXCEPT ![q] = IF @ = NoTicket THEN q ELSE @]
    BY <1>3, <2>1 DEF OpenTicket, q
  <2> QED BY <2>2, <2>3 DEF TicketsAreOwn, q
<1> QED BY <1>1, <1>2, <1>3, TicketSteps DEF TicketStep

\* Every dispatched call was approved.
ExecutedApproved == \A q \in Requests : executed[q] > 0 => Approved(q)

\* An approval stands, and a dispatch looks at it.
LEMMA ExecutedApprovedStep ==
  ASSUME TypeOK, ExecutedApproved, Steps
  PROVE  ExecutedApproved'
<1>1. ASSUME NEW q \in Requests, Approved(q) PROVE Approved(q)'
  <2>1. TicketID(q) \in Tickets /\ TicketID(q)' = TicketID(q)
    BY TicketIDType DEF TicketID
  <2> QED BY <1>1, <2>1, TicketsStand DEF Approved, Verdicts
<1>2. ASSUME NEW q \in Requests, executed'[q] > 0 PROVE Approved(q)
  <2>1. CASE executed' = executed
    BY <1>2, <2>1 DEF ExecutedApproved
  <2>2. ASSUME NEW p \in Requests, Approved(p), executed' = [executed EXCEPT ![p] = IF @ = Often THEN @ ELSE @ + 1]
        PROVE  Approved(q)
    BY <1>2, <2>2 DEF ExecutedApproved, TypeOK, RunsTypeOK
  <2> QED BY <2>1, <2>2, ExecutedSteps, DispatchCounts
<1> QED BY <1>1, <1>2 DEF ExecutedApproved

\* Nothing reaches its tool but on a yes of the human who was shown that very
\* call, provided no id comes twice (a reused id passes on its old approval).
THEOREM ApprovedBeforeExecuted == IdsAreFresh => (Spec => []ExecutedWasApproved)
<1>. SUFFICES ASSUME IdsAreFresh PROVE Spec => []ExecutedWasApproved
  OBVIOUS
<1>1. Init => ExecutedApproved /\ TicketsAreOwn
  BY DEF Init, ApprovalsInit, ExecutedApproved, TicketsAreOwn
<1>2. TypeOK /\ ExecutedApproved /\ TicketsAreOwn /\ [Next]_vars => ExecutedApproved' /\ TicketsAreOwn'
  BY StepCases, ExecutedApprovedStep, TicketsAreOwnStep
<1>3. ExecutedApproved /\ TicketsAreOwn => ExecutedWasApproved
  <2>. SUFFICES ASSUME ExecutedApproved, TicketsAreOwn, NEW q \in Requests, executed[q] > 0
                PROVE  Approved(q) /\ shown[TicketID(q)] = q
    BY DEF ExecutedWasApproved
  <2>1. Approved(q) /\ TicketID(q) = q /\ TicketID(q) \in Tickets
    BY TicketIDType DEF ExecutedApproved, TicketID
  <2> QED BY <2>1 DEF TicketsAreOwn, Approved
<1> QED BY <1>1, <1>2, <1>3, TypeCorrect, PTL DEF Spec

-----------------------------------------------------------------------------
(* Resuming.                                                                 *)

\* A slot changes with a spawn only from idle to the new goroutine.
LEMMA SpawnedIsNew ==
  ASSUME RunsTypeOK, NEW t \in Tasks, NEW pc, NEW resumed, Spawn(t, pc, resumed), NEW v \in Workers
  PROVE  run'[v] = run[v] \/ (run[v] = Idle /\ run'[v] = Goroutine(t, pc, resumed))
  BY SlotIsFree DEF Spawn, RunsTypeOK, At

\* Spawning a resumption marks its task, and the end of one unmarks it; no
\* other step touches the resuming set or starts a resumption.
LEMMA ResumingSteps ==
  ASSUME TypeOK, Steps
  PROVE  \/ resuming' = resuming /\ \A v \in Workers : run'[v].resumed = run[v].resumed
                                 /\ (run[v].resumed => run'[v].task = run[v].task)
         \/ \E t \in Tasks \ resuming : resuming' = resuming \cup {t} /\ Spawn(t, "gate", TRUE)
         \/ \E w \in Workers : Exit(w)
         \/ resuming' = {} /\ run' = [w \in Workers |-> Idle]
<1>. DEFINE Kept == resuming' = resuming /\ \A v \in Workers : run'[v].resumed = run[v].resumed
                                 /\ (run[v].resumed => run'[v].task = run[v].task)
<1>. USE DEF TypeOK
<1>1. CASE resuming' = resuming /\ run' = run
  BY <1>1
<1>2. CASE Background
  <2>1. CASE Dispatch
    <3>1. PICK t \in Tasks : Spawn(t, "lock", FALSE)
      BY <2>1 DEF Dispatch
    <3>2. ASSUME NEW v \in Workers
          PROVE  run'[v].resumed = run[v].resumed /\ (run[v].resumed => run'[v].task = run[v].task)
      <4>1. run'[v] = run[v] \/ (run[v] = Idle /\ run'[v] = Goroutine(t, "lock", FALSE))
        BY <3>1, SpawnedIsNew
      <4>2. CASE run[v] = Idle /\ run'[v] = Goroutine(t, "lock", FALSE)
        <5>1. run[v].resumed = FALSE /\ run'[v].resumed = FALSE
          BY <4>2 DEF Idle, Goroutine
        <5> QED BY <5>1
      <4> QED BY <4>1, <4>2
    <3> QED BY <2>1, <3>2 DEF Dispatch
  <2>2. CASE Claim
    BY <1>1, <2>2 DEF Claim, ClaimUnless
  <2>3. CASE ~Claim /\ ~Dispatch
    BY <1>2, <2>3 DEF Background, Tick, ScanLoad, ScanDone, TickFails, Sweep, SweepStep, SweepDone, coordinatorVars
  <2> QED BY <2>1, <2>2, <2>3
<1>3. ASSUME NEW w \in Workers, Worker(w), ~Exit(w) PROVE Kept
  <2>1. resuming' = resuming
    BY <1>3 DEF Worker, Lease, MarkRunning, Trust, Gate, EnterSession, Load, Generate, Ask, AskAbout, Asked,
       DispatchCall, RoundDone, SaveCheckpoint, ReturnSuspended, DeleteCheckpoint, ReturnResult,
       ReturnError, Park, GiveBack, Evaluate, Judge, FailTask, LandCancelled, UnlockCancelled
  <2> QED BY <2>1, <1>3, OneRunMoves
<1>4. ASSUME NEW t \in Tasks, Interrupt(t) PROVE Kept
  BY <1>4, InterruptMoves DEF Interrupt
<1>5. CASE \/ \E t \in Tasks : Submit(t) \/ LeaseEnds(t)
           \/ \E d \in Humans : Decide(d)
           \/ \E k \in Tickets : Expire(k)
           \/ UNCHANGED vars
  BY <1>1, <1>5 DEF Submit, LeaseEnds, Decide, Expire, vars, coordinatorVars
<1> QED BY <1>2, <1>3, <1>4, <1>5 DEF Steps, CrashRestart, Volatile

\* The resuming set is kept by every step.
LEMMA NoDoubleResumeStep == TypeOK /\ NoDoubleResume /\ [Next]_vars => NoDoubleResume'
<1>. SUFFICES ASSUME TypeOK, NoDoubleResume, Steps PROVE NoDoubleResume'
  BY StepCases
<1>1. CASE resuming' = resuming /\ \A v \in Workers : run'[v].resumed = run[v].resumed
                                 /\ (run[v].resumed => run'[v].task = run[v].task)
  BY <1>1 DEF NoDoubleResume
<1>2. ASSUME NEW t \in Tasks \ resuming, resuming' = resuming \cup {t}, Spawn(t, "gate", TRUE)
      PROVE  NoDoubleResume'
  <2>1. PICK f \in Workers : /\ run[f] = Idle
                             /\ \A v \in Workers \ {f} : run'[v] = run[v]
                             /\ run'[f] = Goroutine(t, "gate", TRUE)
                             /\ cancels' = [cancels EXCEPT ![t] = f]
    BY <1>2, SpawnMoves DEF TypeOK
  <2>2. ~run[f].resumed /\ run'[f].resumed /\ run'[f].task = t
    BY <2>1 DEF Idle, Goroutine
  <2>3. \A v \in Workers : run[v].resumed => run[v].task # t
    BY <1>2 DEF NoDoubleResume
  <2>4. \A v, w \in Workers : v # w /\ run'[v].resumed /\ run'[w].resumed => run'[v].task # run'[w].task
    <3>1. ASSUME NEW v \in Workers \ {f}, run'[v].resumed PROVE run'[v].task # run'[f].task
      BY <2>1, <2>2, <2>3, <3>1
    <3>2. ASSUME NEW v \in Workers \ {f}, NEW w \in Workers \ {f}, v # w, run'[v].resumed, run'[w].resumed
          PROVE  run'[v].task # run'[w].task
      BY <2>1, <3>2 DEF NoDoubleResume
    <3> QED BY <3>1, <3>2
  <2>5. \A x \in Tasks : x \in resuming' <=> \E v \in Workers : run'[v].resumed /\ run'[v].task = x
    <3>1. ASSUME NEW x \in Tasks, NEW v \in Workers, run[v].resumed, run[v].task = x
          PROVE  v # f /\ run'[v] = run[v]
      BY <2>1, <2>2, <3>1
    <3>2. ASSUME NEW x \in Tasks, x \in resuming' PROVE \E v \in Workers : run'[v].resumed /\ run'[v].task = x
      <4>1. CASE x = t
        BY <2>2, <4>1
      <4>2. CASE x # t
        <5>1. x \in resuming
          BY <1>2, <3>2, <4>2
        <5>2. PICK v \in Workers : run[v].resumed /\ run[v].task = x
          BY <5>1 DEF NoDoubleResume
        <5> QED BY <3>1, <5>2
      <4> QED BY <4>1, <4>2
    <3>3. ASSUME NEW x \in Tasks, NEW v \in Workers, run'[v].resumed, run'[v].task = x PROVE x \in resuming'
      <4>1. CASE v = f
        BY <1>2, <2>2, <3>3, <4>1
      <4>2. CASE v # f
        BY <1>2, <2>1, <3>3, <4>2 DEF NoDoubleResume
      <4> QED BY <4>1, <4>2
    <3> QED BY <3>2, <3>3
  <2> QED BY <2>4, <2>5 DEF NoDoubleResume
<1>3. ASSUME NEW w \in Workers, Exit(w) PROVE NoDoubleResume'
  <2>1. /\ \A v \in Workers \ {w} : run'[v] = run[v]
        /\ run'[w] = Idle
        /\ resuming' = IF run[w].resumed THEN resuming \ {run[w].task} ELSE resuming
    BY <1>3 DEF Exit, TypeOK, RunsTypeOK
  <2>2. ~run'[w].resumed
    BY <2>1 DEF Idle, Goroutine
  <2>3. CASE run[w].resumed
    BY <2>1, <2>2, <2>3 DEF NoDoubleResume
  <2>4. CASE ~run[w].resumed
    BY <2>1, <2>2, <2>4 DEF NoDoubleResume
  <2> QED BY <2>3, <2>4
<1>4. CASE resuming' = {} /\ run' = [w \in Workers |-> Idle]
  BY <1>4 DEF NoDoubleResume, Idle, Goroutine
<1> QED BY <1>1, <1>2, <1>3, <1>4, ResumingSteps

\* However long a resumed run outlives its lease, the scan never resumes its
\* task a second time beside it, and the resuming set never forgets to let go.
THEOREM OneResumption == Spec => []NoDoubleResume
<1>1. Init => NoDoubleResume
  BY DEF Init, NoDoubleResume, Idle, Goroutine
<1> QED BY <1>1, NoDoubleResumeStep, TypeCorrect, PTL DEF Spec

-----------------------------------------------------------------------------
(* Checkpoints.                                                              *)

HasTicket(q) == tickets[TicketID(q)] # "none"

\* What the gate of a round has passed is on file; and so is all of it by the
\* time the checkpoint is saved.
RoundAsked ==
  \A w \in Workers : \A c \in Calls :
    At(w, "save") \/ (At(w, "ask") /\ c \notin run[w].left) => HasTicket(Request(w, c))

\* What a goroutine's own step makes of it: the call was on file, or it is the
\* one being put to the human.
LEMMA RoundAskedMove ==
  ASSUME TypeOK, RoundAsked, NEW w \in Workers, Worker(w), NEW c \in Calls,
         At(w, "save")' \/ (At(w, "ask")' /\ c \notin run'[w].left)
  PROVE  /\ At(w, "ask") /\ Request(w, c)' = Request(w, c)
         /\ HasTicket(Request(w, c)) \/ OpenTicket(Request(w, c))
<1>. USE DEF TypeOK
<1>1. run[w] \in Runs
  BY DEF RunsTypeOK
<1>2. ASSUME NEW pc \in Phases \ {"idle", "ask", "exec", "save"}, Goto(w, pc)
      PROVE  ~At(w, "ask")' /\ ~At(w, "save")'
  BY <1>1, <1>2 DEF Goto, At, RunsTypeOK, Runs
<1>3. ~(Moves(w) \/ SaveCheckpoint(w) \/ DeleteCheckpoint(w))
  <2>1. Moves(w) \/ SaveCheckpoint(w) \/ DeleteCheckpoint(w) =>
          \E pc \in Phases \ {"idle", "ask", "exec", "save"} : Goto(w, pc)
    BY MovesMove DEF SaveCheckpoint, DeleteCheckpoint, Phases
  <2> QED BY <1>2, <2>1
<1>4. ~Exit(w)
  BY DEF Exit, Idle, Goroutine, At, RunsTypeOK
<1>5. ~(Load(w) \/ Generate(w))
  <2>1. Load(w) \/ Generate(w) =>
          \/ \E pc \in {"generate", "finish"} : Goto(w, pc)
          \/ \E n : run' = [run EXCEPT ![w] = Answered(run[w], n)]
    BY DEF Load, Generate, Goto, Answered
  <2>2. \A n : Answered(run[w], n).pc = "ask" /\ Answered(run[w], n).left = Calls
    BY <1>1 DEF Answered, Runs
  <2> QED BY <1>2, <2>1, <2>2 DEF At, RunsTypeOK, Phases
<1>6. ~DispatchCall(w)
  <2>1. DispatchCall(w) => run'[w].pc = "exec"
    BY <1>1 DEF DispatchCall, RunsTypeOK, Runs, At
  <2> QED BY <2>1 DEF At
<1>7. CASE Ask(w)
  <2>1. PICK d \in Calls : AskAbout(w, d, Decided(Request(w, d)))
    BY <1>7 DEF Ask
  <2>2. /\ At(w, "ask")
        /\ \/ run' = [run EXCEPT ![w].left = @ \ {d}]
           \/ run' = [run EXCEPT ![w] = [run[w] EXCEPT !.left = @ \ {d}, !.ask = TRUE]]
    BY <2>1 DEF AskAbout
  <2>3. /\ run'[w].pc = "ask" /\ run'[w].left = run[w].left \ {d}
        /\ run'[w].task = run[w].task /\ run'[w].resp = run[w].resp
    <3>1. CASE run' = [run EXCEPT ![w].left = @ \ {d}]
      BY <1>1, <2>2, <3>1 DEF RunsTypeOK, Runs, At
    <3>2. CASE run' = [run EXCEPT ![w] = [run[w] EXCEPT !.left = @ \ {d}, !.ask = TRUE]]
      BY <1>1, <2>2, <3>2 DEF RunsTypeOK, Runs, At
    <3> QED BY <2>2, <3>1, <3>2
  <2>4. Request(w, c)' = Request(w, c)
    BY <2>3 DEF Request
  <2>5. CASE c = d
    BY <2>1, <2>2, <2>4, <2>5 DEF AskAbout, HasTicket, Decided, Verdicts
  <2>6. CASE c # d
    BY <2>2, <2>3, <2>4, <2>6 DEF RoundAsked, At
  <2> QED BY <2>5, <2>6
<1>8. CASE Asked(w)
  <2>1. At(w, "ask") /\ run[w].left = {}
    BY <1>8 DEF Asked
  <2>2. run'[w].task = run[w].task /\ run'[w].resp = run[w].resp
    BY <1>1, <1>8 DEF Asked, RunsTypeOK, Runs
  <2> QED BY <2>1, <2>2 DEF RoundAsked, Request
<1> QED BY <1>3, <1>4, <1>5, <1>6, <1>7, <1>8 DEF Worker, Moves

\* A ticket of a request that is on file, or is put on file now, is there next.
LEMMA TicketStays ==
  ASSUME TypeOK, Steps, NEW q \in Requests, HasTicket(q) \/ OpenTicket(q)
  PROVE  tickets'[TicketID(q)] # "none"
<1>1. TicketID(q) \in Tickets
  BY TicketIDType
<1> QED BY <1>1, TicketsStand DEF HasTicket, OpenTicket, TypeOK, ApprovalsTypeOK

\* The round's calls, across the steps of all.
LEMMA RoundAskedStep == TypeOK /\ RoundAsked /\ [Next]_vars => RoundAsked'
<1>. SUFFICES ASSUME TypeOK, RoundAsked, Steps, NEW v \in Workers, NEW c \in Calls,
                     At(v, "save")' \/ (At(v, "ask")' /\ c \notin run'[v].left)
              PROVE  HasTicket(Request(v, c))'
  BY StepCases DEF RoundAsked
<1>. USE DEF TypeOK
<1>1. ASSUME run[v].pc \in {"ask", "save"}, Request(v, c)' = Request(v, c),
             HasTicket(Request(v, c)) \/ OpenTicket(Request(v, c))
      PROVE  HasTicket(Request(v, c))'
  <2>1. Request(v, c) \in Requests
    BY <1>1, RequestType
  <2>2. tickets'[TicketID(Request(v, c))] # "none"
    BY <1>1, <2>1, TicketStays
  <2> QED BY <1>1, <2>2 DEF HasTicket, TicketID
<1>2. CASE run'[v] = run[v]
  BY <1>1, <1>2 DEF RoundAsked, At, Request
<1>3. ASSUME NEW t \in Tasks, Interrupt(t) PROVE HasTicket(Request(v, c))'
  <2>1. /\ run'[v].pc = run[v].pc /\ run'[v].left = run[v].left
        /\ run'[v].task = run[v].task /\ run'[v].resp = run[v].resp
    BY <1>3 DEF Interrupt, RunsTypeOK, CoordinatorTypeOK, Runs
  <2> QED BY <2>1, <1>1 DEF RoundAsked, At, Request
<1>4. ASSUME NEW t \in Tasks, Spawn(t, "lock", FALSE) \/ Spawn(t, "gate", TRUE)
      PROVE  HasTicket(Request(v, c))'
  <2>1. run'[v] = run[v] \/ run'[v].pc = "lock" \/ run'[v].pc = "gate"
    <3>1. CASE Spawn(t, "lock", FALSE)
      BY <3>1, SpawnedIsElsewhere
    <3>2. CASE Spawn(t, "gate", TRUE)
      BY <3>2, SpawnedIsElsewhere
    <3> QED BY <1>4, <3>1, <3>2
  <2> QED BY <1>2, <2>1 DEF At
<1>5. ASSUME NEW w \in Workers, Worker(w) PROVE HasTicket(Request(v, c))'
  <2>1. CASE v = w
    BY <1>1, <1>5, <2>1, RoundAskedMove DEF At
  <2> QED BY <1>2, <1>5, <2>1, OneRunMoves
<1>6. CASE run' = [w \in Workers |-> Idle]
  BY <1>6 DEF Idle, Goroutine, At
<1> QED BY <1>2, <1>3, <1>4, <1>5, <1>6, RunSteps DEF RunStep

\* The steps that touch checkpoints.
LEMMA CheckpointSteps ==
  ASSUME TypeOK, Steps
  PROVE  UNCHANGED cp \/ \E w \in Workers : SaveCheckpoint(w) \/ DeleteCheckpoint(w)
<1>1. CASE Background
  BY <1>1 DEF Background, Tick, ScanLoad, Claim, ClaimUnless, ScanDone, Dispatch, TickFails, Sweep, SweepStep,
     SweepDone, diskVars
<1>2. ASSUME NEW w \in Workers, Worker(w), ~SaveCheckpoint(w), ~DeleteCheckpoint(w) PROVE UNCHANGED cp
  BY <1>2 DEF Worker, Lease, MarkRunning, Trust, Gate, EnterSession, Load, Generate, Ask, AskAbout, Asked,
     DispatchCall, RoundDone, ReturnSuspended, ReturnResult,
     ReturnError, Park, GiveBack, Evaluate, Judge, FailTask, LandCancelled, UnlockCancelled, Exit, diskVars
<1> QED BY <1>1, <1>2 DEF Steps, Submit, Interrupt, LeaseEnds, Decide, Expire, CrashRestart, vars, diskVars

\* A checkpoint is written by a round whose calls are on file.
LEMMA CheckpointAskedStep ==
  TypeOK /\ RoundAsked /\ CheckpointWasAsked /\ [Next]_vars => CheckpointWasAsked'
<1>. SUFFICES ASSUME TypeOK, RoundAsked, CheckpointWasAsked, Steps, NEW s \in Sessions, cp'[s] # Nil, NEW c \in Calls
              PROVE  tickets'[TicketID(<<cp'[s].task, cp'[s].resp, c>>)] # "none"
  BY StepCases DEF CheckpointWasAsked, TicketID
<1>. USE DEF TypeOK
<1>1. CASE cp'[s] = cp[s]
  <2>1. cp[s] \in Checkpoints
    BY <1>1 DEF RunsTypeOK
  <2>2. <<cp[s].task, cp[s].resp, c>> \in Requests
    BY <2>1 DEF Checkpoints, Requests
  <2>3. HasTicket(<<cp[s].task, cp[s].resp, c>>)
    BY <1>1 DEF CheckpointWasAsked, HasTicket
  <2> QED BY <1>1, <2>2, <2>3, TicketStays
<1>2. ASSUME NEW w \in Workers, SaveCheckpoint(w), s = Key(w)
      PROVE  tickets'[TicketID(<<cp'[s].task, cp'[s].resp, c>>)] # "none"
  <2>1. cp'[s] = [task |-> run[w].task, resp |-> run[w].resp] /\ At(w, "save")
    BY <1>2 DEF SaveCheckpoint, RunsTypeOK
  <2>2. <<cp'[s].task, cp'[s].resp, c>> = Request(w, c)
    BY <2>1 DEF Request
  <2>3. Request(w, c) \in Requests /\ HasTicket(Request(w, c))
    BY <2>1, RequestType DEF RoundAsked, At
  <2> QED BY <2>2, <2>3, TicketStays
<1>3. ASSUME NEW w \in Workers, SaveCheckpoint(w) \/ DeleteCheckpoint(w)
      PROVE  cp'[s] = cp[s] \/ (SaveCheckpoint(w) /\ s = Key(w))
  BY <1>3 DEF SaveCheckpoint, DeleteCheckpoint, RunsTypeOK
<1> QED BY <1>1, <1>2, <1>3, CheckpointSteps

\* Whatever fails or crashes between the tickets and the checkpoint, a run is
\* never left to be resumed with calls nobody was asked about.
THEOREM CheckpointAsked == Spec => []CheckpointWasAsked
<1>1. Init => RoundAsked /\ CheckpointWasAsked
  BY DEF Init, RoundAsked, CheckpointWasAsked, At, Idle, Goroutine
<1> QED BY <1>1, RoundAskedStep, CheckpointAskedStep, TypeCorrect, PTL DEF Spec

-----------------------------------------------------------------------------
(* The promise of Manual mode.                                               *)

\* What Promise reads off the files: the answer to each request, and whether
\* it was performed.
AnswerOf(q) == IF shown[TicketID(q)] = q THEN tickets[TicketID(q)] ELSE "none"
Answers == [q \in Requests |-> AnswerOf(q)]
Performed == {q \in Requests : executed[q] > 0}

\* With fresh ids the answer to a request is its ticket.
LEMMA AnswerIsTicket ==
  ASSUME IdsAreFresh, TicketsAreOwn, NEW q \in Requests
  PROVE  q \in Tickets /\ AnswerOf(q) = tickets[q]
<1>1. q \in Tickets /\ TicketID(q) = q
  BY TicketIDType DEF TicketID
<1> QED BY <1>1 DEF TicketsAreOwn, AnswerOf

\* A decision answers one request, and only one that is open.
LEMMA RecordAnswers ==
  ASSUME IdsAreFresh, TypeOK, TicketsAreOwn, TicketsAreOwn', NEW d \in Deciders, Record(d)
  PROVE  \/ Answers' = Answers
         \/ \E q \in Requests : \E v \in {"approved", "denied"} :
              Answers[q] = "pending" /\ Answers' = [Answers EXCEPT ![q] = v]
<1>. DEFINE k == dec[d].ticket
<1>1. CASE tickets' = tickets
  BY <1>1, AnswerIsTicket DEF Answers, AnswerOf, TicketID, Record, RecordIf
<1>2. CASE tickets' # tickets
  <2>1. PICK v \in {"approved", "denied"} : tickets' = [tickets EXCEPT ![k] = v]
    BY <1>2 DEF Record, RecordIf, Verdicts
  <2>2. tickets[k] = "pending" /\ k \in Tickets
    BY <1>2 DEF Record, RecordIf, TypeOK, ApprovalsTypeOK
  <2>3. k \in Requests
    <3>1. shown[k] = k
      BY <2>2 DEF TicketsAreOwn
    <3>2. shown[k] \in Requests \cup {NoTicket} /\ k # NoTicket
      BY <2>2 DEF TypeOK, ApprovalsTypeOK, Tickets, NoTicket
    <3> QED BY <3>1, <3>2
  <2>4. \A q \in Requests : Answers[q] = tickets[q] /\ Answers'[q] = tickets'[q]
    <3>1. ASSUME NEW q \in Requests PROVE Answers'[q] = tickets'[q]
      <4>1. q \in Tickets /\ TicketID(q)' = q
        BY TicketIDType DEF TicketID
      <4> QED BY <4>1 DEF TicketsAreOwn, Answers, AnswerOf
    <3> QED BY <3>1, AnswerIsTicket DEF Answers
  <2>5. Answers' = [Answers EXCEPT ![k] = v]
    <3>1. \A q \in Requests : q \in Tickets /\ tickets'[q] = IF q = k THEN v ELSE tickets[q]
      BY <2>1, AnswerIsTicket DEF TypeOK, ApprovalsTypeOK
    <3> QED BY <2>3, <2>4, <3>1 DEF Answers
  <2> QED BY <2>2, <2>3, <2>4, <2>5
<1> QED BY <1>1, <1>2

\* Opening a ticket puts a request that was never put before, or changes nothing.
LEMMA OpenPuts ==
  ASSUME IdsAreFresh, TypeOK, TicketsAreOwn, TicketsAreOwn', NEW p \in Requests, OpenTicket(p)
  PROVE  Answers' = Answers \/ (Answers[p] = "none" /\ Answers' = [Answers EXCEPT ![p] = "pending"])
<1>1. TicketID(p) = p /\ p \in Tickets
  BY TicketIDType DEF TicketID
<1>2. \A q \in Requests : Answers[q] = tickets[q] /\ Answers'[q] = tickets'[q]
  <2>1. ASSUME NEW q \in Requests PROVE Answers'[q] = tickets'[q]
    <3>1. q \in Tickets /\ TicketID(q)' = q
      BY TicketIDType DEF TicketID
    <3> QED BY <3>1 DEF TicketsAreOwn, Answers, AnswerOf
  <2> QED BY <2>1, AnswerIsTicket DEF Answers
<1>3. \A q \in Requests : tickets'[q] = IF q = p /\ tickets[q] = "none" THEN "pending" ELSE tickets[q]
  BY <1>1, AnswerIsTicket DEF OpenTicket, TypeOK, ApprovalsTypeOK
<1>4. CASE tickets[p] = "none"
  BY <1>2, <1>3, <1>4 DEF Answers
<1>5. CASE tickets[p] # "none"
  BY <1>2, <1>3, <1>5 DEF Answers
<1> QED BY <1>4, <1>5

\* A step that touches tickets dispatches nothing.
LEMMA TicketOrExecuted ==
  ASSUME TypeOK, Steps
  PROVE  UNCHANGED <<tickets, shown>> \/ UNCHANGED executed
<1>1. ASSUME NEW w \in Workers, DispatchCall(w) PROVE UNCHANGED <<tickets, shown>>
  BY <1>1 DEF DispatchCall, approvalVars
<1> QED BY <1>1, ExecutedSteps

\* Each step of the system is a step of the promise or no step of it.
LEMMA PromiseStep ==
  ASSUME IdsAreFresh, TypeOK, TicketsAreOwn, TicketsAreOwn', Steps
  PROVE  [Promise!Next]_<<Answers, Performed>>
<1>. USE DEF Promise!Next, Promise!Put, Promise!Answer, Promise!Perform
<1>1. CASE UNCHANGED <<tickets, shown>>
  <2>1. Answers' = Answers
    BY <1>1 DEF Answers, AnswerOf, TicketID
  <2>2. CASE UNCHANGED executed
    BY <2>1, <2>2 DEF Performed
  <2>3. ASSUME NEW w \in Workers, DispatchCall(w) PROVE [Promise!Next]_<<Answers, Performed>>
    <3>1. CASE executed' = executed
      BY <2>1, <3>1 DEF Performed
    <3>2. ASSUME NEW q \in Requests, Approved(q), executed' = [executed EXCEPT ![q] = IF @ = Often THEN @ ELSE @ + 1]
          PROVE  [Promise!Next]_<<Answers, Performed>>
      <4>1. Answers[q] = "approved"
        BY <3>2, AnswerIsTicket DEF Answers, Approved, TicketID
      <4>2. Performed' = Performed \cup {q}
        BY <3>2 DEF Performed, TypeOK, RunsTypeOK, Often
      <4> QED BY <2>1, <4>1, <4>2 DEF Answers, Performed, AnswerOf
    <3> QED BY <2>3, <3>1, <3>2, DispatchCounts
  <2> QED BY <2>2, <2>3, ExecutedSteps
<1>2. CASE UNCHANGED executed
  <2>1. Performed' = Performed
    BY <1>2 DEF Performed
  <2>2. ASSUME NEW d \in Deciders, Record(d) PROVE [Promise!Next]_<<Answers, Performed>>
    BY <2>1, <2>2, RecordAnswers DEF Answers, Performed, AnswerOf
  <2>3. ASSUME NEW w \in Workers, NEW c \in Calls, At(w, "ask"), OpenTicket(Request(w, c))
        PROVE  [Promise!Next]_<<Answers, Performed>>
    <3>1. Request(w, c) \in Requests
      BY <2>3, RequestType DEF TypeOK, At
    <3> QED BY <2>1, <2>3, <3>1, OpenPuts DEF Answers, Performed, AnswerOf
  <2> QED BY <1>1, <2>2, <2>3, TicketSteps DEF TicketStep
<1> QED BY <1>1, <1>2, TicketOrExecuted

\* The tickets, the gate and the tool loop implement ApprovedExecution: put to
\* a human first, answered once, performed only after a yes, whatever else
\* happens in between.
THEOREM PromiseKept == IdsAreFresh => (Spec => ImplementsPromise)
<1>. SUFFICES ASSUME IdsAreFresh PROVE Spec => Promise!Spec
  BY DEF ImplementsPromise
<1>1. Init => Promise!Init /\ TicketsAreOwn
  <2>. SUFFICES ASSUME Init PROVE Promise!Init /\ TicketsAreOwn
    OBVIOUS
  <2>1. TicketsAreOwn
    BY DEF Init, ApprovalsInit, TicketsAreOwn
  <2>2. \A q \in Requests : tickets[TicketID(q)] = "none" /\ executed[q] = 0
    BY TicketIDType DEF Init, ApprovalsInit
  <2> QED BY <2>1, <2>2 DEF Promise!Init
<1>2. TypeOK /\ TicketsAreOwn /\ [Next]_vars => TicketsAreOwn'
  BY StepCases, TicketsAreOwnStep
<1>3. TypeOK /\ TicketsAreOwn /\ TicketsAreOwn' /\ [Next]_vars => [Promise!Next]_<<Answers, Performed>>
  BY StepCases, PromiseStep
<1> QED BY <1>1, <1>2, <1>3, TypeCorrect, PTL DEF Spec, Promise!Spec, Answers, Performed, AnswerOf

-----------------------------------------------------------------------------
(* Leases.                                                                   *)

\* From taking the lease to giving it back, or to ending without.
Holding == Phases \ {"idle", "lock", "exit"}

\* Goroutines that hold a lease hold different ones.
LeasesHeld ==
  /\ \A w \in Workers : run[w].pc \in Holding => run[w].task \in leased
  /\ \A v, w \in Workers :
       v # w /\ run[v].pc \in Holding /\ run[w].pc \in Holding => run[v].task # run[w].task

\* Nothing lost and nobody new.
LEMMA LeasesKept ==
  ASSUME LeasesHeld, leased \subseteq leased',
         \A v \in Workers : run'[v].pc \in Holding => run[v].pc \in Holding /\ run'[v].task = run[v].task
  PROVE  LeasesHeld'
  BY DEF LeasesHeld

\* A goroutine that takes a lease nobody has.
LEMMA LeaseTaken ==
  ASSUME LeasesHeld, NEW w \in Workers, run'[w].task \notin leased, leased' = leased \cup {run'[w].task},
         \A v \in Workers \ {w} : run'[v] = run[v]
  PROVE  LeasesHeld'
  BY DEF LeasesHeld

\* A goroutine that gives its lease back.
LEMMA LeaseReturned ==
  ASSUME LeasesHeld, NEW w \in Workers, run[w].pc \in Holding, leased' = leased \ {run[w].task},
         run'[w].pc = "exit", \A v \in Workers \ {w} : run'[v] = run[v]
  PROVE  LeasesHeld'
<1>1. run'[w].pc \notin Holding
  BY DEF Holding
<1> QED BY <1>1 DEF LeasesHeld

\* A goroutine's steps on its lease.
LEMMA LeasesHeldWorker ==
  ASSUME TypeOK, LeasesHeld, NEW w \in Workers, Worker(w)
  PROVE  LeasesHeld'
<1>. USE DEF TypeOK
<1>1. run[w] \in Runs
  BY DEF RunsTypeOK
<1>2. /\ \A v \in Workers \ {w} : run'[v] = run[v]
      /\ ~Exit(w) => run'[w].task = run[w].task
  BY OneRunMoves
<1>3. ASSUME NEW pc, Goto(w, pc) PROVE run'[w].pc = pc
  BY <1>1, <1>3 DEF Goto, RunsTypeOK, Runs
<1>4. CASE Lease(w)
  <2>1. At(w, "lock")
    BY <1>4 DEF Lease
  <2>2. run'[w].task = run[w].task
    BY <1>2, <2>1 DEF Exit, At
  <2>3. CASE TryLock(run[w].task)
    BY <1>2, <2>2, <2>3, LeaseTaken DEF TryLock
  <2>4. CASE Goto(w, "exit") /\ leased' = leased
    <3>1. run'[w].pc \notin Holding
      BY <1>3, <2>4 DEF Holding
    <3> QED BY <1>2, <2>4, <3>1, LeasesKept
  <2> QED BY <1>4, <2>3, <2>4 DEF Lease
<1>5. CASE MarkRunning(w) \/ GiveBack(w) \/ UnlockCancelled(w)
  <2>1. run[w].pc \in Holding /\ run'[w].task = run[w].task
    BY <1>2, <1>5 DEF MarkRunning, AbandonClaim, GiveBack, UnlockCancelled, Holding, Phases, At, Exit
  <2>2. leased' = leased \/ (Unlock(run[w].task) /\ Goto(w, "exit"))
    BY <1>5 DEF MarkRunning, AbandonClaim, GiveBack, UnlockCancelled
  <2>3. CASE leased' = leased
    BY <1>2, <2>1, <2>3, LeasesKept
  <2>4. CASE Unlock(run[w].task) /\ Goto(w, "exit")
    BY <1>2, <1>3, <2>1, <2>4, LeaseReturned DEF Unlock
  <2> QED BY <2>2, <2>3, <2>4
<1>6. CASE Exit(w)
  <2>1. run'[w].pc \notin Holding /\ leased' = leased
    BY <1>6 DEF Exit, Idle, Goroutine, Holding, RunsTypeOK, schedulerVars
  <2> QED BY <1>2, <2>1, LeasesKept
<1>7. CASE ~(Lease(w) \/ MarkRunning(w) \/ GiveBack(w) \/ UnlockCancelled(w) \/ Exit(w))
  <2>1. leased' = leased /\ run[w].pc \in Holding
    BY <1>7 DEF Worker, Trust, Gate, EnterSession, Load, Generate, Ask, AskAbout, Asked,
       DispatchCall, RoundDone, SaveCheckpoint, ReturnSuspended, DeleteCheckpoint, ReturnResult,
       ReturnError, Park, Evaluate, Judge, FailTask, LandCancelled, schedulerVars, Holding, Phases, At
  <2> QED BY <1>2, <1>7, <2>1, LeasesKept
<1> QED BY <1>4, <1>5, <1>6, <1>7

\* Everybody's steps on leases.
LEMMA LeasesHeldStep == ~ShortLeases /\ TypeOK /\ LeasesHeld /\ [Next]_vars => LeasesHeld'
<1>. SUFFICES ASSUME ~ShortLeases, TypeOK, LeasesHeld, Steps PROVE LeasesHeld'
  BY StepCases
<1>. USE DEF TypeOK
<1>1. CASE leased' = leased /\ run' = run
  BY <1>1, LeasesKept
<1>2. ASSUME NEW d \in Deciders, DeciderStep(d) PROVE leased' = leased
  BY <1>2 DEF DeciderStep, Record, RecordIf, ListTickets, Flip, DecideFails, schedulerVars
<1>3. ASSUME NEW d \in Humans, Decide(d) PROVE LeasesHeld'
  <2>1. leased' = leased
    BY <1>2, <1>3 DEF Decide, Deciders, HumanLook, Look, schedulerVars
  <2> QED BY <1>1, <1>3, <2>1 DEF Decide, coordinatorVars
<1>4. CASE Background
  <2>1. CASE Claim
    <3>1. CASE leased' = leased /\ run' = run
      BY <1>1, <3>1
    <3>2. ASSUME NEW t \in Tasks, t \notin leased, leased' = leased \cup {t}, Spawn(t, "gate", TRUE)
          PROVE  LeasesHeld'
      <4>1. PICK f \in Workers : /\ run[f] = Idle
                                 /\ \A v \in Workers \ {f} : run'[v] = run[v]
                                 /\ run'[f] = Goroutine(t, "gate", TRUE)
                                 /\ cancels' = [cancels EXCEPT ![t] = f]
        BY <3>2, SpawnMoves
      <4>2. run'[f].task = t
        BY <4>1 DEF Goroutine
      <4> QED BY <3>2, <4>1, <4>2, LeaseTaken
    <3> QED BY <2>1, <3>1, <3>2 DEF Claim, ClaimUnless
  <2>2. CASE Dispatch
    <3>1. PICK t \in Tasks : Spawn(t, "lock", FALSE)
      BY <2>2 DEF Dispatch
    <3>2. \A v \in Workers : run'[v] = run[v] \/ run'[v].pc = "lock"
      BY <3>1, SpawnedIsElsewhere
    <3>3. "lock" \notin Holding
      BY DEF Holding
    <3> QED BY <2>2, <3>2, <3>3, LeasesKept DEF Dispatch
  <2>3. CASE ~Claim /\ ~Dispatch
    <3>1. run' = run
      BY <1>4, <2>3 DEF Background, Tick, ScanLoad, ScanDone, TickFails, Sweep, SweepStep, SweepDone,
         coordinatorVars
    <3>2. leased' = leased
      <4>1. CASE SweepStep
        BY <1>2, <4>1 DEF SweepStep, Deciders, SweepNext, Look, schedulerVars
      <4> QED BY <1>4, <2>3, <4>1 DEF Background, Tick, ScanLoad, ScanDone, TickFails, Sweep, SweepDone,
         schedulerVars
    <3> QED BY <1>1, <3>1, <3>2
  <2> QED BY <2>1, <2>2, <2>3
<1>5. CASE CrashRestart
  BY <1>5 DEF CrashRestart, Volatile, LeasesHeld, Idle, Goroutine, Holding
<1>6. ASSUME NEW t \in Tasks, Interrupt(t) PROVE LeasesHeld'
  BY <1>6, InterruptMoves, LeasesKept DEF Interrupt, schedulerVars
<1>7. CASE \/ \E t \in Tasks : Submit(t)
           \/ \E k \in Tickets : Expire(k)
           \/ UNCHANGED vars
  BY <1>1, <1>7 DEF Submit, Expire, TicketExpires, vars, coordinatorVars, schedulerVars
<1>8. \A t \in Tasks : ~LeaseEnds(t)
  BY DEF LeaseEnds
<1> QED BY <1>3, <1>4, <1>5, <1>6, <1>7, <1>8, LeasesHeldWorker DEF Steps

\* As long as runs end within their lease, no task is inside RunTask twice at a
\* time, whoever interrupts, fails or restarts; past the lease it can be.
THEOREM OneRunPerTask == ~ShortLeases => (Spec => []NoDoubleRun)
<1>. SUFFICES ASSUME ~ShortLeases PROVE Spec => []NoDoubleRun
  OBVIOUS
<1>1. Init => LeasesHeld
  BY DEF Init, LeasesHeld, Idle, Goroutine, Holding
<1>2. TypeOK /\ LeasesHeld /\ [Next]_vars => LeasesHeld'
  BY LeasesHeldStep
<1>3. LeasesHeld => NoDoubleRun
  BY DEF LeasesHeld, NoDoubleRun, Holding, Phases, InRunTask
<1> QED BY <1>1, <1>2, <1>3, TypeCorrect, PTL DEF Spec

-----------------------------------------------------------------------------
(* How tasks end, where storage does not fail and nobody interrupts: a call  *)
(* reaches its tool once, what has ended stays ended, and nobody forgets a   *)
(* task between two of its statuses.                                         *)

Quiet == ~Faults /\ ~Interrupts

NobodyCancelled == \A w \in Workers : ~run[w].cancelled

\* A goroutine never cancels itself.
LEMMA NobodyCancelledWorker ==
  ASSUME TypeOK, NobodyCancelled, NEW w \in Workers, Worker(w)
  PROVE  NobodyCancelled'
<1>. USE DEF TypeOK
<1>1. run[w] \in Runs /\ ~run[w].cancelled
  BY DEF RunsTypeOK, NobodyCancelled
<1>2. SUFFICES ~run'[w].cancelled
  BY OneRunMoves DEF NobodyCancelled
<1>3. ASSUME NEW pc, Goto(w, pc) PROVE ~run'[w].cancelled
  BY <1>1, <1>3 DEF Goto, RunsTypeOK, Runs
<1>4. CASE Moves(w)
  BY <1>3, <1>4, MovesMove
<1>5. CASE SaveCheckpoint(w) \/ DeleteCheckpoint(w)
  BY <1>3, <1>5 DEF SaveCheckpoint, DeleteCheckpoint
<1>6. CASE Load(w) \/ Generate(w)
  BY <1>1, <1>3, <1>6 DEF Load, Generate, RunsTypeOK, Runs
<1>7. CASE Ask(w)
  BY <1>1, <1>7 DEF Ask, AskAbout, RunsTypeOK, Runs
<1>8. CASE Asked(w) \/ DispatchCall(w)
  BY <1>1, <1>8 DEF Asked, DispatchCall, RunsTypeOK, Runs
<1>9. CASE Exit(w)
  BY <1>9 DEF Exit, RunsTypeOK, Idle, Goroutine
<1> QED BY <1>4, <1>5, <1>6, <1>7, <1>8, <1>9 DEF Worker, Moves

\* Nobody's context ends while nobody interrupts.
LEMMA NobodyCancelledStep == ~Interrupts /\ TypeOK /\ NobodyCancelled /\ [Next]_vars => NobodyCancelled'
<1>. SUFFICES ASSUME ~Interrupts, TypeOK, NobodyCancelled, Steps PROVE NobodyCancelled'
  BY StepCases
<1>1. ASSUME NEW t \in Tasks, NEW pc, NEW resumed, Spawn(t, pc, resumed) PROVE NobodyCancelled'
  <2>1. ASSUME NEW v \in Workers PROVE ~run'[v].cancelled
    <3>1. run'[v] = run[v] \/ run'[v] = Goroutine(t, pc, resumed)
      BY <1>1, SpawnedIsNew DEF TypeOK
    <3> QED BY <3>1 DEF NobodyCancelled, Goroutine
  <2> QED BY <2>1 DEF NobodyCancelled
<1>2. CASE run' = [w \in Workers |-> Idle]
  BY <1>2 DEF NobodyCancelled, Idle, Goroutine
<1>3. CASE UNCHANGED run
  BY <1>3 DEF NobodyCancelled
<1> QED BY <1>1, <1>2, <1>3, NobodyCancelledWorker, RunSteps DEF RunStep, Interrupt

-----------------------------------------------------------------------------
(* Nobody forgotten.                                                         *)

\* A task that waits to be handed out: nothing looks at it but Next.
Queued(t) == t \notin leased /\ t \notin scan /\ \A w \in Workers : run[w].task # t

\* A task between Next and Running: one goroutine has it and can go on.
HandedOut(t) ==
  /\ t \notin scan
  /\ \E w \in Workers :
       /\ run[w].task = t
       /\ At(w, "mark") \/ (At(w, "lock") /\ t \notin leased)
       /\ \A v \in Workers : run[v].task = t => v = w

Judged(t) == \E w \in Workers : run[w].task = t /\ At(w, "judge")

InHandInv ==
  \A t \in Tasks :
    /\ status[t] \in {"absent", "pending"} => Queued(t)
    /\ status[t] = "assigned" => HandedOut(t)
    /\ status[t] = "review" => Judged(t)

\* Steps that write no slot, take no lease and at most wake a task.
LEMMA InHandKept ==
  ASSUME InHandInv, run' = run, leased' \subseteq leased, scan' \subseteq scan,
         \A t \in Tasks : status'[t] = status[t] \/ status'[t] = "running"
  PROVE  InHandInv'
  BY DEF InHandInv, Queued, HandedOut, Judged, At

\* What a decider does to the task table.
LEMMA DeciderWakes ==
  ASSUME TypeOK, NEW d \in Deciders, DeciderStep(d)
  PROVE  leased' = leased /\ \A t \in Tasks : status'[t] = status[t] \/ status'[t] = "running"
<1>1. CASE Flip(d)
  BY <1>1 DEF Flip, Transition, TypeOK, SchedulerTypeOK
<1>2. CASE Record(d) \/ ListTickets(d) \/ DecideFails(d)
  BY <1>2 DEF Record, RecordIf, ListTickets, DecideFails, schedulerVars
<1> QED BY <1>1, <1>2 DEF DeciderStep

\* The background thread's other steps take no lease, write no slot and pass
\* tasks over.
LEMMA BackgroundPasses ==
  ASSUME TypeOK, Background, ~Tick, ~Claim, ~Dispatch
  PROVE  /\ run' = run /\ leased' = leased /\ scan' \subseteq scan
         /\ \A t \in Tasks : status'[t] = status[t] \/ status'[t] = "running"
<1>1. CASE SweepStep
  <2>1. CASE SweepNext
    BY <1>1, <2>1 DEF SweepStep, SweepNext, Look, coordinatorVars, schedulerVars
  <2> QED BY <1>1, <2>1, DeciderWakes DEF SweepStep, Deciders, coordinatorVars
<1> QED BY <1>1 DEF Background, ScanLoad, ScanDone, TickFails, Sweep, SweepDone, schedulerVars

\* A goroutine moves its own task only.
LEMMA OwnStatusMoves ==
  ASSUME TypeOK, NEW w \in Workers, Worker(w)
  PROVE  \A t \in Tasks \ {run[w].task} : status'[t] = status[t] /\ (t \in leased' <=> t \in leased)
<1>. USE DEF TypeOK, SchedulerTypeOK
<1>1. CASE Lease(w) \/ MarkRunning(w) \/ Trust(w) \/ Park(w) \/ GiveBack(w)
  BY <1>1 DEF Lease, TryLock, MarkRunning, AbandonClaim, Unlock, PutBack, Trust, Park, GiveBack, Land, LandIf, Transition
<1>2. CASE Evaluate(w) \/ Judge(w) \/ FailTask(w) \/ LandCancelled(w) \/ UnlockCancelled(w)
  BY <1>2 DEF Evaluate, Judge, FailTask, LandCancelled, UnlockCancelled, Land, LandIf, Transition, Unlock
<1>3. CASE ~(Lease(w) \/ MarkRunning(w) \/ Trust(w) \/ Park(w) \/ GiveBack(w) \/ Evaluate(w) \/ Judge(w)
             \/ FailTask(w) \/ LandCancelled(w) \/ UnlockCancelled(w))
  BY <1>3 DEF Worker, Gate, EnterSession, Load, Generate, Ask, AskAbout, Asked, DispatchCall, RoundDone,
     SaveCheckpoint, ReturnSuspended, DeleteCheckpoint, ReturnResult, ReturnError, Exit, schedulerVars
<1> QED BY <1>1, <1>2, <1>3

\* A goroutine whose task has left Assigned never puts it back there: its task
\* stays where it is or goes where runs end.
LEMMA RunningMoves ==
  ASSUME Quiet, TypeOK, NobodyCancelled, NEW w \in Workers, Worker(w), NEW t \in Tasks, t = run[w].task,
         status[t] \notin {"absent", "pending", "assigned"}
  PROVE  /\ status'[t] \notin {"absent", "pending", "assigned"}
         /\ status'[t] = "review" => Goto(w, "judge") \/ (status[t] = "review" /\ ~At(w, "judge"))
<1>. USE DEF TypeOK, SchedulerTypeOK
<1>1. ~MayFail(w) /\ Succeeds(w) /\ ~Faults
  BY DEF Quiet, NobodyCancelled, MayFail, Succeeds
<1>2. status[t] \in {"running", "suspended", "review", "done", "failed", "cancelled"}
  BY DEF Statuses
<1>3. ASSUME NEW next \in {"running", "suspended", "failed", "cancelled"}, Transition(t, next)
      PROVE status'[t] = next
  BY <1>3 DEF Transition
<1>4. CASE Evaluate(w)
  BY <1>1, <1>2, <1>4 DEF Evaluate, Land, LandIf, Transition, At, MayTransition, Successors
<1>5. CASE Judge(w)
  BY <1>1, <1>2, <1>5 DEF Judge, Land, LandIf, Transition, At, MayTransition, Successors
<1>6. CASE MarkRunning(w)
  BY <1>1, <1>2, <1>6 DEF MarkRunning, Transition, MayTransition, Successors
<1>7. CASE Trust(w) \/ Park(w) \/ FailTask(w) \/ LandCancelled(w)
  BY <1>1, <1>2, <1>7 DEF Trust, Park, FailTask, LandCancelled, Land, LandIf, Transition, At
<1>8. CASE ~(MarkRunning(w) \/ Trust(w) \/ Park(w) \/ Evaluate(w) \/ Judge(w) \/ FailTask(w) \/ LandCancelled(w))
  <2>1. status' = status /\ ~At(w, "judge")
    BY <1>8 DEF Worker, Lease, GiveBack, UnlockCancelled, Gate, EnterSession, Load, Generate, Ask, AskAbout, Asked,
       DispatchCall, RoundDone, SaveCheckpoint, ReturnSuspended, DeleteCheckpoint, ReturnResult, ReturnError,
       Exit, schedulerVars, At
  <2> QED BY <1>2, <2>1
<1> QED BY <1>4, <1>5, <1>6, <1>7, <1>8

\* A goroutine's step on a task that is on its way to Running: it gets the
\* lease, or the task runs.
LEMMA HandedOutMoves ==
  ASSUME Quiet, TypeOK, NobodyCancelled, NEW w \in Workers, Worker(w), NEW t \in Tasks, t = run[w].task,
         status[t] = "assigned", At(w, "mark") \/ (At(w, "lock") /\ t \notin leased)
  PROVE  status'[t] = "running" \/ (status' = status /\ Goto(w, "mark") /\ scan' = scan)
<1>. USE DEF TypeOK, SchedulerTypeOK
<1>1. ~MayFail(w) /\ ~run[w].cancelled
  BY DEF Quiet, NobodyCancelled, MayFail
<1>2. Lease(w) \/ MarkRunning(w)
  BY <1>1 DEF Worker, Trust, Gate, EnterSession, Load, Generate, Ask, AskAbout, Asked, DispatchCall, RoundDone,
     SaveCheckpoint, ReturnSuspended, DeleteCheckpoint, ReturnResult, ReturnError, Park, GiveBack, Evaluate, Judge,
     FailTask, LandCancelled, UnlockCancelled, Exit, At
<1>3. CASE Lease(w)
  BY <1>1, <1>3 DEF Lease, At
<1>4. CASE MarkRunning(w)
  BY <1>1, <1>4 DEF MarkRunning, Transition
<1> QED BY <1>2, <1>3, <1>4

\* A goroutine's step forgets no task.
LEMMA InHandWorker ==
  ASSUME Quiet, TypeOK, NobodyCancelled, InHandInv, NEW w \in Workers, Worker(w)
  PROVE  InHandInv'
<1>. DEFINE own == run[w].task
<1>1. own \in Tasks /\ ~At(w, "idle") /\ run[w] \in Runs
  BY DEF TypeOK, RunsTypeOK, Worker, Lease, MarkRunning, Trust, Gate, EnterSession, Load, Generate, Ask, AskAbout,
     Asked, DispatchCall, RoundDone, SaveCheckpoint, ReturnSuspended, DeleteCheckpoint, ReturnResult, ReturnError,
     Park, GiveBack, Evaluate, Judge, FailTask, LandCancelled, UnlockCancelled, Exit, At
<1>2. /\ \A v \in Workers \ {w} : run'[v] = run[v]
      /\ run'[w].task = own \/ run'[w].task = Nil
  BY OneRunMoves DEF TypeOK, Exit, RunsTypeOK, Idle, Goroutine
<1>3. scan' = scan
  BY DEF Worker, Lease, MarkRunning, Trust, Gate, EnterSession, Load, Generate, Ask, AskAbout, Asked, DispatchCall,
     RoundDone, SaveCheckpoint, ReturnSuspended, DeleteCheckpoint, ReturnResult, ReturnError, Park, GiveBack,
     Evaluate, Judge, FailTask, LandCancelled, UnlockCancelled, Exit
<1>4. ASSUME NEW pc, Goto(w, pc) PROVE At(w, pc)' /\ run'[w].task = own
  BY <1>1, <1>4 DEF Goto, At, TypeOK, RunsTypeOK, Runs
<1>. SUFFICES ASSUME NEW t \in Tasks
              PROVE  /\ status'[t] \in {"absent", "pending"} => Queued(t)'
                     /\ status'[t] = "assigned" => HandedOut(t)'
                     /\ status'[t] = "review" => Judged(t)'
  BY DEF InHandInv
<1>5. CASE t # own
  <2>1. status'[t] = status[t] /\ (t \in leased' <=> t \in leased)
    BY <1>5, OwnStatusMoves
  <2>2. \A v \in Workers : run'[v].task = t => v # w /\ run'[v] = run[v] /\ run[v].task = t
    BY <1>2, <1>5, LifecycleAssumption
  <2>3. \A v \in Workers : run[v].task = t => run'[v] = run[v]
    BY <1>2, <1>5
  <2>4. Queued(t) => Queued(t)'
    BY <1>3, <2>1, <2>2 DEF Queued
  <2>5. HandedOut(t) => HandedOut(t)'
    BY <1>3, <2>1, <2>2, <2>3 DEF HandedOut, At
  <2>6. Judged(t) => Judged(t)'
    BY <2>3 DEF Judged, At
  <2> QED BY <2>1, <2>4, <2>5, <2>6 DEF InHandInv
<1>6. CASE t = own /\ status[t] = "assigned"
  <2>1. /\ t \notin scan
        /\ At(w, "mark") \/ (At(w, "lock") /\ t \notin leased)
        /\ \A v \in Workers : run[v].task = t => v = w
    BY <1>6 DEF InHandInv, HandedOut
  <2>2. CASE status'[t] = "running"
    BY <2>2
  <2>3. CASE status' = status /\ Goto(w, "mark")
    <3>1. \A v \in Workers : run'[v].task = t => v = w
      BY <1>2, <2>1
    <3> QED BY <1>3, <1>4, <1>6, <2>1, <2>3, <3>1 DEF HandedOut, At
  <2> QED BY <1>6, <2>1, <2>2, <2>3, HandedOutMoves
<1>7. CASE t = own /\ status[t] # "assigned"
  <2>1. status[t] \notin {"absent", "pending", "assigned"}
    BY <1>7 DEF InHandInv, Queued
  <2>2. /\ status'[t] \notin {"absent", "pending", "assigned"}
        /\ status'[t] = "review" => Goto(w, "judge") \/ (status[t] = "review" /\ ~At(w, "judge"))
    BY <1>7, <2>1, RunningMoves
  <2>3. CASE Goto(w, "judge")
    BY <1>4, <1>7, <2>2, <2>3 DEF Judged
  <2>4. CASE status[t] = "review" /\ ~At(w, "judge")
    <3>1. PICK v \in Workers : run[v].task = t /\ At(v, "judge")
      BY <2>4 DEF InHandInv, Judged
    <3>2. v # w
      BY <2>4, <3>1
    <3> QED BY <1>2, <2>2, <3>1, <3>2 DEF Judged, At
  <2> QED BY <2>2, <2>3, <2>4
<1> QED BY <1>5, <1>6, <1>7

\* Nor does any other step.
LEMMA InHandStep == Quiet /\ TypeOK /\ NobodyCancelled /\ InHandInv /\ [Next]_vars => InHandInv'
<1>. SUFFICES ASSUME Quiet, TypeOK, NobodyCancelled, InHandInv, Steps PROVE InHandInv'
  BY StepCases
<1>1. ASSUME NEW t \in Tasks, Submit(t) PROVE InHandInv'
  BY <1>1 DEF Submit, Add, coordinatorVars, InHandInv, Queued, HandedOut, Judged, At, TypeOK, SchedulerTypeOK
<1>2. ASSUME NEW d \in Humans, Decide(d) PROVE InHandInv'
  <2>1. run' = run /\ scan' = scan
    BY <1>2 DEF Decide, coordinatorVars
  <2>2. leased' = leased /\ \A t \in Tasks : status'[t] = status[t] \/ status'[t] = "running"
    BY <1>2, DeciderWakes DEF Decide, Deciders, HumanLook, Look, schedulerVars
  <2> QED BY <2>1, <2>2, InHandKept
<1>3. CASE Tick
  BY <1>3 DEF Tick, schedulerVars, InHandInv, Queued, HandedOut, Judged, At
<1>4. CASE Claim
  <2>1. CASE run' = run /\ leased' = leased
    <3>1. status' = status /\ scan' \subseteq scan
      BY <1>4 DEF Claim, ClaimUnless
    <3> QED BY <2>1, <3>1, InHandKept
  <2>2. ASSUME NEW u \in Tasks, u \in scan, leased' = leased \cup {u}, Spawn(u, "gate", TRUE),
               status' = status, scan' \subseteq scan
        PROVE  InHandInv'
    <3>1. PICK f \in Workers : /\ run[f] = Idle
                               /\ \A v \in Workers \ {f} : run'[v] = run[v]
                               /\ run'[f] = Goroutine(u, "gate", TRUE)
                               /\ cancels' = [cancels EXCEPT ![u] = f]
      BY <2>2, SpawnMoves DEF TypeOK
    <3>2. run[f].task = Nil /\ run'[f].task = u /\ run[f].pc = "idle"
      BY <3>1 DEF Idle, Goroutine
    <3>3. ASSUME NEW t \in Tasks
          PROVE  /\ t # u /\ Queued(t) => Queued(t)'
                 /\ t # u /\ HandedOut(t) => HandedOut(t)'
                 /\ Judged(t) => Judged(t)'
      <4>1. \A v \in Workers : run[v].task = t => run'[v] = run[v]
        BY <3>1, <3>2, LifecycleAssumption
      <4>2. t # u => \A v \in Workers : run'[v].task = t => run[v].task = t
        BY <3>1, <3>2
      <4> QED BY <2>2, <4>1, <4>2 DEF Queued, HandedOut, Judged, At
    <3>4. status[u] \notin {"absent", "pending", "assigned"}
      BY <2>2 DEF InHandInv, Queued, HandedOut
    <3> QED BY <2>2, <3>3, <3>4 DEF InHandInv
  <2> QED BY <1>4, <2>1, <2>2 DEF Claim, ClaimUnless, Earliest
<1>5. CASE Dispatch
  <2>1. PICK u \in Tasks : Hand(u) /\ Spawn(u, "lock", FALSE)
    BY <1>5 DEF Dispatch
  <2>. RunsTypeOK
    BY DEF TypeOK
  <2>2. /\ FreeSlot \in Workers /\ run[FreeSlot].task = Nil
        /\ run' = [run EXCEPT ![FreeSlot] = Goroutine(u, "lock", FALSE)]
    BY <2>1, SlotIsFree DEF Spawn, RunsTypeOK, At, Idle, Goroutine
  <2>3. PICK f \in Workers : /\ run[f].task = Nil /\ run'[f].task = u /\ run'[f].pc = "lock"
                             /\ \A v \in Workers \ {f} : run'[v] = run[v]
    BY <2>2 DEF RunsTypeOK, Goroutine
  <2>4. status[u] = "pending" /\ status'[u] = "assigned" /\ \A t \in Tasks \ {u} : status'[t] = status[t]
    BY <2>1 DEF Hand, Earliest, Pending, TypeOK, SchedulerTypeOK
  <2>5. leased' = leased /\ scan' = scan
    BY <1>5 DEF Dispatch
  <2>6. HandedOut(u)'
    <3>1. Queued(u)
      BY <2>4 DEF InHandInv
    <3>2. \A v \in Workers : run'[v].task = u => v = f
      BY <2>3, <3>1 DEF Queued
    <3> QED BY <2>3, <2>5, <3>1, <3>2 DEF Queued, HandedOut, At
  <2>7. ASSUME NEW t \in Tasks \ {u}
        PROVE  /\ Queued(t) => Queued(t)'
               /\ HandedOut(t) => HandedOut(t)'
               /\ Judged(t) => Judged(t)'
    <3>1. \A v \in Workers : run[v].task = t => run'[v] = run[v]
      BY <2>3, LifecycleAssumption
    <3>2. \A v \in Workers : run'[v].task = t => run[v].task = t
      BY <2>3
    <3> QED BY <2>5, <3>1, <3>2 DEF Queued, HandedOut, Judged, At
  <2> QED BY <2>4, <2>6, <2>7 DEF InHandInv
<1>6. CASE Background /\ ~Tick /\ ~Claim /\ ~Dispatch
  BY <1>6, BackgroundPasses, InHandKept
<1>7. CASE CrashRestart
  <2>1. \A w \in Workers : run'[w].task = Nil
    BY <1>7 DEF CrashRestart, Volatile, Idle, Goroutine
  <2>2. /\ leased' = {} /\ scan' = {}
        /\ \A t \in Tasks : status'[t] \in {"running", "suspended", "absent"}
    BY <1>7 DEF CrashRestart, Volatile, Reconcile, ReconcileIf
  <2> QED BY <2>1, <2>2, LifecycleAssumption DEF InHandInv, Queued
<1>8. CASE \/ \E t \in Tasks : LeaseEnds(t)
           \/ \E k \in Tickets : Expire(k)
           \/ UNCHANGED vars
  <2>1. run' = run /\ leased' \subseteq leased /\ scan' = scan /\ status' = status
    BY <1>8 DEF LeaseEnds, LeaseExpires, Expire, TicketExpires, vars, coordinatorVars, schedulerVars
  <2> QED BY <2>1, InHandKept
<1>9. \A t \in Tasks : ~Interrupt(t)
  BY DEF Quiet, Interrupt
<1> QED BY <1>1, <1>2, <1>3, <1>4, <1>5, <1>6, <1>7, <1>8, <1>9, InHandWorker DEF Steps

\* Where nothing fails and nobody interrupts, a task that was handed out is in
\* a goroutine's hand until it runs, and one under review until it is judged,
\* whatever leases end and restarts come in between.
THEOREM NoneForgotten == Quiet => (Spec => []NobodyForgotten)
<1>. SUFFICES ASSUME Quiet PROVE Spec => []NobodyForgotten
  OBVIOUS
<1>1. Init => NobodyCancelled /\ InHandInv
  BY LifecycleAssumption DEF Init, SchedulerInit, NobodyCancelled, Idle, Goroutine, InHandInv, Queued
<1>2. TypeOK /\ NobodyCancelled /\ [Next]_vars => NobodyCancelled'
  BY NobodyCancelledStep DEF Quiet
<1>3. TypeOK /\ NobodyCancelled /\ InHandInv /\ [Next]_vars => InHandInv'
  BY InHandStep
<1>4. InHandInv => NobodyForgotten
  BY DEF InHandInv, HandedOut, Judged, NobodyForgotten, AssignedIsInHand, ReviewIsInHand, InHand
<1> QED BY <1>1, <1>2, <1>3, <1>4, TypeCorrect, PTL DEF Spec

-----------------------------------------------------------------------------
(* Ended for good.                                                           *)

\* Nothing fails, nobody interrupts, no task is turned away, leases last.
Calm == Quiet /\ ~Refusals /\ ~ShortLeases

\* What ends a task leaves it leased, without a checkpoint and without a run.
EndInv ==
  /\ \A s \in Sessions : cp[s] # Nil => SessionOf[cp[s].task] = s
  /\ \A w \in Workers : run[w].pc \in {"close", "review", "judge"} => ~OwnCheckpoint(run[w].task)
  /\ \A t \in Tasks : status[t] \in Terminal =>
       /\ ~OwnCheckpoint(t) /\ t \in leased
       /\ \A w \in Workers : run[w].task = t => run[w].pc \notin Holding
  /\ \A w \in Workers : run[w].pc \notin {"fail", "cancel", "freed"}

\* How the status of one task may change.
StatusMoves(t) ==
  \/ status'[t] = status[t]
  \/ status[t] \notin Terminal /\ status'[t] \notin Terminal
  \/ \E w \in Workers : run[w].task = t /\ Judge(w) /\ Goto(w, "exit") /\ status[t] \notin Terminal
  \/ \E w \in Workers : At(w, "fail") \/ At(w, "cancel")

\* From a terminal status there is nowhere to go.
LEMMA TerminalIsLast ==
  ASSUME NEW t \in Tasks, status[t] \in Terminal, NEW next
  PROVE  ~MayTransition(t, next)
  BY DEF Terminal, MayTransition, Successors

\* A goroutine's step on the task table.
LEMMA WorkerStatusMoves ==
  ASSUME TypeOK, NEW w \in Workers, Worker(w), NEW t \in Tasks
  PROVE  StatusMoves(t)
<1>. USE DEF TypeOK, SchedulerTypeOK
<1>1. CASE t # run[w].task
  BY <1>1, OwnStatusMoves DEF StatusMoves
<1>. SUFFICES ASSUME t = run[w].task PROVE StatusMoves(t)
  BY <1>1
<1>2. ASSUME NEW next \in {"running", "suspended", "review"}, Transition(t, next) PROVE StatusMoves(t)
  BY <1>2, TerminalIsLast DEF Transition, StatusMoves, Terminal
<1>3. CASE MarkRunning(w)
  <2>1. CASE PutBack(t)
    BY <2>1 DEF PutBack, StatusMoves, Terminal
  <2> QED BY <1>2, <1>3, <2>1 DEF MarkRunning, AbandonClaim, StatusMoves
<1>4. CASE Trust(w) \/ Park(w) \/ Evaluate(w)
  BY <1>2, <1>4 DEF Trust, Park, Evaluate, Land, LandIf, StatusMoves
<1>5. CASE Judge(w)
  <2>1. PICK verdict \in {"done", "failed"} : Land(w, verdict, "exit", "exit")
    BY <1>5 DEF Judge
  <2>2. CASE status' = status
    BY <2>2 DEF StatusMoves
  <2>3. CASE Transition(t, verdict) /\ Goto(w, "exit")
    BY <1>5, <2>3, TerminalIsLast DEF Transition, StatusMoves
  <2> QED BY <2>1, <2>2, <2>3 DEF Land, LandIf
<1>6. CASE FailTask(w) \/ LandCancelled(w)
  BY <1>6 DEF FailTask, LandCancelled, StatusMoves
<1>7. CASE ~(MarkRunning(w) \/ Trust(w) \/ Park(w) \/ Evaluate(w) \/ Judge(w) \/ FailTask(w) \/ LandCancelled(w))
  <2>1. status' = status
    BY <1>7 DEF Worker, Lease, GiveBack, UnlockCancelled, Gate, EnterSession, Load, Generate, Ask, AskAbout, Asked,
       DispatchCall, RoundDone, SaveCheckpoint, ReturnSuspended, DeleteCheckpoint, ReturnResult, ReturnError,
       Exit, schedulerVars
  <2> QED BY <2>1 DEF StatusMoves
<1> QED BY <1>3, <1>4, <1>5, <1>6, <1>7

\* Everybody's steps on the task table, but for a restart.
LEMMA StatusSteps ==
  ASSUME TypeOK, Steps, ~CrashRestart, NEW t \in Tasks
  PROVE  StatusMoves(t)
<1>. USE DEF TypeOK, SchedulerTypeOK
<1>1. CASE status' = status
  BY <1>1 DEF StatusMoves
<1>2. ASSUME NEW u \in Tasks, Submit(u) PROVE StatusMoves(t)
  BY <1>2 DEF Submit, Add, StatusMoves, Terminal
<1>3. ASSUME NEW d \in Deciders, DeciderStep(d) PROVE StatusMoves(t)
  <2>1. CASE Flip(d)
    <3>1. status' = status \/ \E u : Transition(u, "running")
      BY <2>1 DEF Flip
    <3>2. ASSUME NEW u, Transition(u, "running") PROVE StatusMoves(t)
      BY <3>2, TerminalIsLast DEF Transition, StatusMoves, Terminal
    <3> QED BY <1>1, <3>1, <3>2
  <2>2. CASE Record(d) \/ ListTickets(d) \/ DecideFails(d)
    BY <1>1, <2>2 DEF Record, RecordIf, ListTickets, DecideFails, schedulerVars
  <2> QED BY <1>3, <2>1, <2>2 DEF DeciderStep
<1>4. ASSUME NEW d \in Humans, Decide(d) PROVE StatusMoves(t)
  BY <1>1, <1>3, <1>4 DEF Decide, Deciders, HumanLook, Look, schedulerVars
<1>5. CASE Background
  <2>1. CASE Dispatch
    BY <2>1 DEF Dispatch, Hand, Earliest, Pending, StatusMoves, Terminal
  <2>2. CASE SweepStep
    BY <1>1, <1>3, <2>2 DEF SweepStep, Deciders, SweepNext, Look, schedulerVars
  <2> QED BY <1>1, <1>5, <2>1, <2>2 DEF Background, Tick, ScanLoad, Claim, ClaimUnless, ScanDone, TickFails,
     Sweep, SweepDone, schedulerVars
<1> QED BY <1>1, <1>2, <1>4, <1>5, WorkerStatusMoves DEF Steps, Interrupt, LeaseEnds, LeaseExpires, Expire,
   TicketExpires, vars, schedulerVars

\* A checkpoint is of its own session.
CheckpointsAtHome == \A s \in Sessions : cp[s] # Nil => SessionOf[cp[s].task] = s

\* Save writes the checkpoint of the run's own task, under its session.
LEMMA CheckpointsAtHomeStep == ASSUME TypeOK, CheckpointsAtHome, Steps PROVE CheckpointsAtHome'
<1>1. CASE UNCHANGED cp
  BY <1>1 DEF CheckpointsAtHome
<1>2. ASSUME NEW w \in Workers, SaveCheckpoint(w) \/ DeleteCheckpoint(w) PROVE CheckpointsAtHome'
  BY <1>2 DEF SaveCheckpoint, DeleteCheckpoint, CheckpointsAtHome, TypeOK, RunsTypeOK, Key
<1> QED BY <1>1, <1>2, CheckpointSteps

\* A task without a checkpoint gets one only from a run of its own.
LEMMA CheckpointStaysAway ==
  ASSUME TypeOK, Steps, NEW t \in Tasks, ~OwnCheckpoint(t),
         \A w \in Workers : run[w].task = t => run[w].pc # "save"
  PROVE  ~OwnCheckpoint(t)'
<1>1. CASE UNCHANGED cp
  BY <1>1 DEF OwnCheckpoint
<1>2. ASSUME NEW w \in Workers, SaveCheckpoint(w) PROVE ~OwnCheckpoint(t)'
  <2>1. run[w].task # t
    BY <1>2 DEF SaveCheckpoint, At
  <2> QED BY <1>2, <2>1 DEF SaveCheckpoint, OwnCheckpoint, TypeOK, RunsTypeOK, Key, Sessions
<1>3. ASSUME NEW w \in Workers, DeleteCheckpoint(w) PROVE ~OwnCheckpoint(t)'
  BY <1>3 DEF DeleteCheckpoint, OwnCheckpoint, TypeOK, RunsTypeOK, Key, Sessions
<1> QED BY <1>1, <1>2, <1>3, CheckpointSteps

\* While nothing fails and nobody is cancelled or turned away, a run comes to
\* its end by its result, after its checkpoint is deleted.
LEMMA WorkerEnds ==
  ASSUME Calm, TypeOK, NobodyCancelled, NEW w \in Workers, Worker(w), run[w].pc \notin {"fail", "cancel", "freed"}
  PROVE  /\ run'[w].pc \notin {"fail", "cancel", "freed"}
         /\ run'[w].pc \in {"close", "review", "judge"} =>
              \/ DeleteCheckpoint(w)
              \/ run[w].pc \in {"close", "review", "judge"} /\ run'[w].task = run[w].task
<1>. USE DEF TypeOK
<1>1. /\ ~MayFail(w) /\ Succeeds(w) /\ ~run[w].cancelled /\ ~Faults /\ ~Refusals
      /\ run[w] \in Runs
  BY DEF Calm, Quiet, NobodyCancelled, MayFail, Succeeds, RunsTypeOK
<1>2. ASSUME NEW pc, Goto(w, pc) PROVE run'[w].pc = pc /\ run'[w].task = run[w].task
  BY <1>1, <1>2 DEF Goto, RunsTypeOK, Runs
<1>3. CASE Lease(w) \/ MarkRunning(w) \/ Trust(w) \/ Gate(w) \/ EnterSession(w) \/ RoundDone(w)
           \/ SaveCheckpoint(w) \/ ReturnSuspended(w) \/ DeleteCheckpoint(w) \/ Park(w) \/ GiveBack(w)
  BY <1>1, <1>2, <1>3 DEF Lease, MarkRunning, Trust, Gate, EnterSession, RoundDone, SaveCheckpoint,
     ReturnSuspended, Return, DeleteCheckpoint, Park, Land, LandIf, GiveBack
<1>4. CASE ReturnResult(w) \/ Evaluate(w) \/ Judge(w)
  BY <1>1, <1>2, <1>4 DEF ReturnResult, Return, Evaluate, Judge, Land, LandIf, At
<1>5. ~ReturnError(w) /\ ~FailTask(w) /\ ~LandCancelled(w) /\ ~UnlockCancelled(w)
  BY <1>1 DEF ReturnError, FailTask, LandCancelled, UnlockCancelled, At
<1>6. CASE Load(w) \/ Generate(w)
  <2>1. run'[w].pc \in {"ask", "generate", "finish"}
    BY <1>1, <1>2, <1>6 DEF Load, Generate, RunsTypeOK, Runs
  <2> QED BY <2>1
<1>7. CASE Ask(w)
  <2>1. run'[w].pc = "ask"
    BY <1>1, <1>7 DEF Ask, AskAbout, RunsTypeOK, Runs, At
  <2> QED BY <2>1
<1>8. CASE Asked(w) \/ DispatchCall(w)
  <2>1. CASE DispatchCall(w)
    <3>1. run'[w].pc = "exec"
      BY <1>1, <2>1 DEF DispatchCall, RunsTypeOK, Runs, At
    <3> QED BY <3>1
  <2>2. CASE Asked(w)
    <3>1. CASE run[w].ask
      BY <1>1, <2>2, <3>1 DEF Asked, RunsTypeOK, Runs
    <3>2. CASE ~run[w].ask
      BY <1>1, <2>2, <3>2 DEF Asked, RunsTypeOK, Runs
    <3> QED BY <3>1, <3>2
  <2> QED BY <1>8, <2>1, <2>2
<1>9. CASE Exit(w)
  BY <1>9 DEF Exit, RunsTypeOK, Idle, Goroutine
<1> QED BY <1>3, <1>4, <1>5, <1>6, <1>7, <1>8, <1>9 DEF Worker

\* A leased task that no run holds stays that way.
LEMMA LeaseStays ==
  ASSUME Calm, TypeOK, NobodyCancelled, Steps, ~CrashRestart, NEW t \in Tasks, t \in leased,
         \A w \in Workers : run[w].task = t => run[w].pc \notin Holding
  PROVE  /\ t \in leased'
         /\ \A w \in Workers : run'[w].task = t => run'[w].pc \notin Holding
<1>. USE DEF TypeOK
<1>1. CASE run' = run /\ leased' = leased
  BY <1>1
<1>2. ASSUME NEW w \in Workers, Worker(w)
      PROVE  t \in leased' /\ \A v \in Workers : run'[v].task = t => run'[v].pc \notin Holding
  <2>1. \A v \in Workers \ {w} : run'[v] = run[v]
    BY <1>2, OneRunMoves
  <2>2. CASE run[w].task # t
    <3>1. t \in leased'
      BY <1>2, <2>2, OwnStatusMoves
    <3>2. run'[w].task # t
      BY <1>2, <2>2, OneRunMoves, LifecycleAssumption DEF Exit, RunsTypeOK, Idle, Goroutine
    <3> QED BY <2>1, <3>1, <3>2
  <2>3. CASE run[w].task = t
    <3>1. run[w].pc \notin Holding /\ run[w] \in Runs
      BY <2>3 DEF RunsTypeOK
    <3>2. Lease(w) \/ Exit(w)
      BY <1>2, <3>1 DEF Worker, MarkRunning, Trust, Gate, EnterSession, Load, Generate, Ask, AskAbout, Asked,
         DispatchCall, RoundDone, SaveCheckpoint, ReturnSuspended, DeleteCheckpoint, ReturnResult, ReturnError,
         Park, GiveBack, Evaluate, Judge, FailTask, LandCancelled, UnlockCancelled, At, Holding, Phases
    <3>3. leased' = leased /\ run'[w].pc \in {"exit", "idle"}
      <4>1. CASE Lease(w)
        BY <2>3, <3>1, <4>1 DEF Lease, TryLock, Goto, RunsTypeOK, Runs
      <4>2. CASE Exit(w)
        BY <4>2 DEF Exit, schedulerVars, RunsTypeOK, Idle, Goroutine
      <4> QED BY <3>2, <4>1, <4>2
    <3> QED BY <2>1, <3>3 DEF Holding
  <2> QED BY <2>2, <2>3
<1>3. CASE Claim
  <2>1. ASSUME NEW u \in Tasks, u \notin leased, leased' = leased \cup {u}, Spawn(u, "gate", TRUE)
        PROVE  t \in leased' /\ \A v \in Workers : run'[v].task = t => run'[v].pc \notin Holding
    <3>1. PICK f \in Workers : /\ run[f] = Idle
                               /\ \A v \in Workers \ {f} : run'[v] = run[v]
                               /\ run'[f] = Goroutine(u, "gate", TRUE)
                               /\ cancels' = [cancels EXCEPT ![u] = f]
      BY <2>1, SpawnMoves
    <3>2. run'[f].task # t
      BY <2>1, <3>1 DEF Goroutine
    <3> QED BY <2>1, <3>1, <3>2
  <2> QED BY <1>1, <1>3, <2>1 DEF Claim, ClaimUnless
<1>4. CASE Dispatch
  <2>1. PICK u \in Tasks : Spawn(u, "lock", FALSE)
    BY <1>4 DEF Dispatch
  <2>2. \A v \in Workers : run'[v] = run[v] \/ run'[v].pc = "lock"
    BY <2>1, SpawnedIsElsewhere
  <2> QED BY <1>4, <2>2 DEF Dispatch, Holding
<1>5. CASE Background /\ ~Claim /\ ~Dispatch
  <2>1. CASE Tick
    BY <1>1, <2>1 DEF Tick, schedulerVars
  <2> QED BY <1>1, <1>5, <2>1, BackgroundPasses
<1>6. ASSUME NEW d \in Humans, Decide(d) PROVE run' = run /\ leased' = leased
  BY <1>6, DeciderWakes DEF Decide, Deciders, HumanLook, Look, schedulerVars, coordinatorVars
<1>7. \A u \in Tasks : ~Interrupt(u) /\ ~LeaseEnds(u)
  BY DEF Calm, Quiet, Interrupt, LeaseEnds
<1>8. CASE (\E u \in Tasks : Submit(u)) \/ (\E k \in Tickets : Expire(k)) \/ UNCHANGED vars
  BY <1>1, <1>8 DEF Submit, Expire, TicketExpires, vars, coordinatorVars, schedulerVars
<1> QED BY <1>1, <1>2, <1>3, <1>4, <1>5, <1>6, <1>7, <1>8 DEF Steps

\* Runs end through their result, and nothing undoes an ending.
LEMMA EndInvStep == Calm /\ TypeOK /\ TypeOK' /\ NobodyCancelled /\ LeasesHeld /\ EndInv /\ [Next]_vars => EndInv'
<1>. SUFFICES ASSUME Calm, TypeOK, TypeOK', NobodyCancelled, LeasesHeld, EndInv, Steps PROVE EndInv'
  BY StepCases
<1>1. CheckpointsAtHome'
  BY CheckpointsAtHomeStep DEF EndInv, CheckpointsAtHome
<1>2. ASSUME NEW v \in Workers, NEW t \in Tasks
      PROVE  /\ run'[v].pc \notin {"fail", "cancel", "freed"}
             /\ run'[v].pc \in {"close", "review", "judge"} /\ run'[v].task = t => ~OwnCheckpoint(t)'
  <2>1. ASSUME run[v].pc \in {"close", "review", "judge"}, run[v].task = t PROVE ~OwnCheckpoint(t)'
    <3>1. ~OwnCheckpoint(t)
      BY <2>1 DEF EndInv
    <3>2. \A w \in Workers : run[w].task = t => run[w].pc # "save"
      BY <2>1 DEF LeasesHeld, Holding, Phases
    <3> QED BY <3>1, <3>2, CheckpointStaysAway
  <2>2. CASE run'[v].pc = run[v].pc /\ run'[v].task = run[v].task
    BY <2>1, <2>2 DEF EndInv
  <2>3. CASE run'[v].pc \in {"lock", "gate", "idle"}
    BY <2>3
  <2>4. ASSUME NEW w \in Workers, Worker(w)
        PROVE  /\ run'[v].pc \notin {"fail", "cancel", "freed"}
               /\ run'[v].pc \in {"close", "review", "judge"} /\ run'[v].task = t => ~OwnCheckpoint(t)'
    <3>1. CASE v # w
      BY <2>2, <2>4, <3>1, OneRunMoves DEF TypeOK
    <3>2. CASE v = w
      <4>1. /\ run'[v].pc \notin {"fail", "cancel", "freed"}
            /\ run'[v].pc \in {"close", "review", "judge"} =>
                 \/ DeleteCheckpoint(v)
                 \/ run[v].pc \in {"close", "review", "judge"} /\ run'[v].task = run[v].task
        BY <2>4, <3>2, WorkerEnds DEF EndInv
      <4>2. CASE DeleteCheckpoint(v)
        <5>1. cp'[Key(v)] = Nil /\ run'[v].task = run[v].task
          BY <4>2, KeyType DEF DeleteCheckpoint, TypeOK, RunsTypeOK, Runs, Goto, At
        <5> QED BY <4>1, <5>1 DEF OwnCheckpoint, Key
      <4> QED BY <2>1, <4>1, <4>2
    <3> QED BY <3>1, <3>2
  <2>5. ASSUME NEW u \in Tasks, Spawn(u, "lock", FALSE) \/ Spawn(u, "gate", TRUE)
        PROVE  run'[v] = run[v] \/ run'[v].pc \in {"lock", "gate"}
    BY <2>5, SpawnedIsElsewhere DEF TypeOK
  <2>6. CASE run' = [w \in Workers |-> Idle]
    BY <2>3, <2>6 DEF Idle, Goroutine
  <2>7. \A u \in Tasks : ~Interrupt(u)
    BY DEF Calm, Quiet, Interrupt
  <2> QED BY <2>2, <2>3, <2>4, <2>5, <2>6, <2>7, RunSteps DEF RunStep
<1>3. ASSUME NEW t \in Tasks, status'[t] \in Terminal
      PROVE  /\ ~OwnCheckpoint(t)' /\ t \in leased'
             /\ \A w \in Workers : run'[w].task = t => run'[w].pc \notin Holding
  <2>1. ~CrashRestart
    BY <1>3 DEF CrashRestart, Reconcile, ReconcileIf, Terminal
  <2>2. CASE status[t] \in Terminal
    <3>1. /\ ~OwnCheckpoint(t) /\ t \in leased
          /\ \A w \in Workers : run[w].task = t => run[w].pc \notin Holding
      BY <2>2 DEF EndInv
    <3>2. \A w \in Workers : run[w].task = t => run[w].pc # "save"
      BY <3>1 DEF Holding, Phases
    <3> QED BY <2>1, <3>1, <3>2, CheckpointStaysAway, LeaseStays
  <2>3. CASE status[t] \notin Terminal
    <3>1. PICK w \in Workers : run[w].task = t /\ Judge(w) /\ Goto(w, "exit")
      BY <1>3, <2>1, <2>3, StatusSteps DEF StatusMoves, EndInv, At
    <3>2. /\ leased' = leased /\ cp' = cp /\ run[w].pc = "judge"
          /\ run'[w].pc = "exit" /\ \A v \in Workers \ {w} : run'[v] = run[v]
      BY <3>1 DEF Judge, Goto, diskVars, At, TypeOK, RunsTypeOK, Runs
    <3>3. /\ ~OwnCheckpoint(t) /\ t \in leased
          /\ \A v \in Workers \ {w} : run[v].task = t => run[v].pc \notin Holding
      BY <3>1, <3>2 DEF EndInv, LeasesHeld, Holding, Phases
    <3> QED BY <3>2, <3>3 DEF OwnCheckpoint, Holding
  <2> QED BY <2>2, <2>3
<1>4. \A v \in Workers : run'[v].pc \in {"close", "review", "judge", "fail", "cancel", "freed"} => run'[v].task \in Tasks
  BY DEF TypeOK, RunsTypeOK, At
<1>5. \A v \in Workers : /\ run'[v].pc \notin {"fail", "cancel", "freed"}
                         /\ run'[v].pc \in {"close", "review", "judge"} => \A t \in Tasks : run'[v].task = t => ~OwnCheckpoint(t)'
  BY <1>2, <1>4
<1> QED BY <1>1, <1>3, <1>4, <1>5 DEF EndInv, CheckpointsAtHome, OwnCheckpoint

\* What has ended stays ended, or is forgotten by a restart.
LEMMA TerminalStays ==
  ASSUME Calm, TypeOK, EndInv, Steps, NEW t \in Tasks, status[t] \in Terminal
  PROVE  status'[t] \in {status[t], "absent"}
<1>1. CASE CrashRestart
  <2>1. t \notin Suspended
    BY DEF EndInv, Suspended, OwnCheckpoint
  <2> QED BY <1>1, <2>1 DEF CrashRestart
<1>2. CASE ~CrashRestart
  BY <1>2, StatusSteps DEF StatusMoves, EndInv, At
<1> QED BY <1>1, <1>2

-----------------------------------------------------------------------------
(* A call reaches its tool once.                                             *)

\* What the model has answered bounds what runs and checkpoints work on.
Fresh ==
  /\ \A q \in Requests : executed[q] > 0 => q[2] <= responses
  /\ \A w \in Workers : run[w].resp <= responses
  /\ \A s \in Sessions : cp[s] # Nil => cp[s].resp <= responses

\* Some call of response n was dispatched by a task of session s.
DoneIn(s, n) == \E q \in Requests : SessionOf[q[1]] = s /\ q[2] = n /\ executed[q] > 0

\* The run that dispatched from a checkpoint is still in the session and will
\* replace the checkpoint or delete it.
MovedOn(w, s) ==
  /\ session[s] = w
  /\ \/ run[w].pc \in {"exec", "generate", "finish"}
     \/ run[w].pc \in {"ask", "save"} /\ run[w].resp # cp[s].resp

OnceInv ==
  /\ \A s \in Sessions : cp[s] # Nil /\ DoneIn(s, cp[s].resp) => \E w \in Workers : MovedOn(w, s)
  /\ \A w \in Workers : run[w].pc \in {"ask", "save"} => ~DoneIn(Key(w), run[w].resp)
  /\ \A w \in Workers, c \in Calls : run[w].pc = "exec" /\ c \in run[w].left => executed[Request(w, c)] = 0
  /\ \A q \in Requests : executed[q] <= 1

\* A slot deals with no call it did not deal with before.
SameCalls(v) ==
  /\ run'[v].pc \in {"ask", "save"} =>
       run[v].pc \in {"ask", "save"} /\ run'[v].task = run[v].task /\ run'[v].resp = run[v].resp
  /\ run'[v].pc = "exec" =>
       /\ run[v].pc = "exec" /\ run'[v].task = run[v].task /\ run'[v].resp = run[v].resp
       /\ run'[v].left \subseteq run[v].left

\* Steps that dispatch nothing, take up no response and save nothing.
LEMMA OnceKept ==
  ASSUME OnceInv, executed' = executed, \A v \in Workers : SameCalls(v),
         \A s \in Sessions : cp'[s] \in {cp[s], Nil},
         \A s \in Sessions, w \in Workers : cp'[s] # Nil /\ MovedOn(w, s) => MovedOn(w, s)'
  PROVE  OnceInv'
<1>1. ASSUME NEW s, NEW n PROVE DoneIn(s, n)' <=> DoneIn(s, n)
  BY DEF DoneIn
<1>2. ASSUME NEW s \in Sessions, cp'[s] # Nil, DoneIn(s, cp'[s].resp) PROVE \E w \in Workers : MovedOn(w, s)'
  <2>1. cp'[s] = cp[s]
    BY <1>2
  <2> QED BY <1>2, <2>1 DEF OnceInv
<1>3. ASSUME NEW w \in Workers, run'[w].pc \in {"ask", "save"} PROVE ~DoneIn(SessionOf[run'[w].task], run'[w].resp)
  BY <1>3 DEF OnceInv, SameCalls, Key
<1>4. ASSUME NEW w \in Workers, NEW c \in Calls, run'[w].pc = "exec", c \in run'[w].left
      PROVE  executed'[<<run'[w].task, run'[w].resp, c>>] = 0
  BY <1>4 DEF OnceInv, SameCalls, Request
<1> QED BY <1>1, <1>2, <1>3, <1>4 DEF OnceInv, Key, Request, DoneIn, MovedOn

\* The session of a run that is in it, and the other way round.
LEMMA OneInSession ==
  ASSUME TypeOK, NEW w \in Workers, run[w].pc \in {"load", "generate", "ask", "exec", "save", "finish"}
  PROVE  /\ Key(w) \in Sessions /\ session[Key(w)] = w
         /\ \A v \in Workers \ {w} : run[v].pc \in {"load", "generate", "ask", "exec", "save", "finish"} => Key(v) # Key(w)
         /\ \A s \in Sessions, v \in Workers : MovedOn(v, s) => s = Key(v)
<1>1. /\ run[w].pc \in InSession
      /\ \A v \in Workers : run[v].pc \in {"load", "generate", "ask", "exec", "save", "finish"} => run[v].pc \in InSession
  BY DEF InSession, InRunTask
<1>2. Key(w) \in Sessions
  BY KeyType DEF TypeOK, At
<1> QED BY <1>1, <1>2 DEF TypeOK, SessionsHeld, MovedOn

\* Moves of a goroutine that keep what dispatches, and who moved on.
LEMMA OnceMoves ==
  ASSUME Quiet, TypeOK, NobodyCancelled, OnceInv, NEW w \in Workers, Moves(w)
  PROVE  OnceInv'
<1>. USE DEF TypeOK
<1>1. run[w] \in Runs /\ ~run[w].cancelled /\ ~Faults
  BY DEF RunsTypeOK, Quiet, NobodyCancelled
<1>2. PICK pc \in Phases \ {"idle", "ask", "exec", "save"} : Goto(w, pc)
  BY MovesMove
<1>3. /\ run'[w].pc = pc /\ \A v \in Workers \ {w} : run'[v] = run[v]
      /\ cp' = cp /\ executed' = executed
  BY <1>1, <1>2, MovesMove DEF Goto, RunsTypeOK, Runs
<1>4. \A v \in Workers : SameCalls(v)
  BY <1>3 DEF SameCalls
<1>5. ASSUME NEW s \in Sessions, NEW v \in Workers, MovedOn(v, s) PROVE MovedOn(v, s)'
  <2>1. session'[s] = session[s]
    <3>1. CASE EnterSession(w)
      BY <1>5, <3>1, LifecycleAssumption, KeyType DEF EnterSession, MovedOn, SessionsHeld, At
    <3>2. CASE ReturnSuspended(w) \/ ReturnResult(w)
      <4>1. v # w
        BY <1>5, <3>2 DEF ReturnSuspended, ReturnResult, MovedOn, At
      <4> QED BY <1>5, <3>2, <4>1 DEF ReturnSuspended, ReturnResult, Return, MovedOn
    <3>3. ~ReturnError(w)
      BY <1>1 DEF ReturnError
    <3>4. CASE ~(EnterSession(w) \/ ReturnSuspended(w) \/ ReturnResult(w))
      BY <3>3, <3>4 DEF Moves, Lease, MarkRunning, Trust, Gate, RoundDone, Park, GiveBack, Evaluate, Judge,
         FailTask, LandCancelled, UnlockCancelled
    <3> QED BY <3>1, <3>2, <3>4
  <2>2. CASE v = w
    <3>1. RoundDone(w)
      BY <1>1, <1>5, <2>2 DEF Moves, Lease, MarkRunning, Trust, Gate, EnterSession, ReturnSuspended, ReturnResult,
         ReturnError, Park, GiveBack, Evaluate, Judge, FailTask, LandCancelled, UnlockCancelled, MovedOn, At
    <3>2. run'[w].pc = "generate"
      BY <1>1, <3>1 DEF RoundDone, Goto, RunsTypeOK, Runs
    <3> QED BY <1>5, <2>1, <2>2, <3>2 DEF MovedOn
  <2>3. CASE v # w
    BY <1>3, <1>5, <2>1, <2>3 DEF MovedOn
  <2> QED BY <2>2, <2>3
<1> QED BY <1>3, <1>4, <1>5, OnceKept

\* A response that a run takes up has no call dispatched: a checkpoint's,
\* because its last run would still be in the session; the model's, because it
\* is new.
LEMMA OnceAsks ==
  ASSUME TypeOK, Fresh, OnceInv, NEW w \in Workers, Load(w) \/ Generate(w)
  PROVE  OnceInv'
<1>. USE DEF TypeOK
<1>1. /\ run[w] \in Runs /\ \A v \in Workers \ {w} : run'[v] = run[v] /\ (run[v] \in Runs)
      /\ run'[w].task = run[w].task
      /\ cp' = cp /\ executed' = executed /\ session' = session
  <2>1. Worker(w) /\ ~Exit(w)
    BY DEF Worker, Load, Generate, Exit, At
  <2>2. cp' = cp /\ executed' = executed /\ session' = session
    BY DEF Load, Generate, diskVars
  <2> QED BY <2>1, <2>2, OneRunMoves DEF RunsTypeOK
<1>2. /\ Key(w) \in Sessions /\ session[Key(w)] = w
      /\ \A s \in Sessions, v \in Workers : MovedOn(v, s) => s = Key(v)
      /\ run[w].pc \in {"load", "generate"}
  BY OneInSession DEF Load, Generate, At
<1>3. CASE run'[w].pc \in {"generate", "finish"}
  <2>1. \A v \in Workers : SameCalls(v)
    BY <1>1, <1>3 DEF SameCalls
  <2>2. \A s \in Sessions, v \in Workers : MovedOn(v, s) => MovedOn(v, s)'
    BY <1>1, <1>2, <1>3 DEF MovedOn
  <2> QED BY <1>1, <2>1, <2>2, OnceKept
<1>4. CASE run'[w].pc = "ask" /\ ~DoneIn(Key(w), run'[w].resp) /\ (Generate(w) => run'[w].resp > responses)
  <2>1. ASSUME NEW s, NEW n PROVE DoneIn(s, n)' <=> DoneIn(s, n)
    BY <1>1 DEF DoneIn
  <2>2. ASSUME NEW s \in Sessions, cp[s] # Nil, DoneIn(s, cp[s].resp) PROVE \E v \in Workers : MovedOn(v, s)'
    <3>1. PICK v \in Workers : MovedOn(v, s)
      BY <2>2 DEF OnceInv
    <3>2. CASE v # w
      BY <1>1, <3>1, <3>2 DEF MovedOn
    <3>3. CASE v = w
      <4>1. Generate(w)
        BY <3>1, <3>3 DEF MovedOn, Load, At
      <4>2. run'[w].resp # cp[s].resp
        BY <1>4, <2>2, <4>1 DEF Fresh, RunsTypeOK, Checkpoints
      <4> QED BY <1>1, <1>4, <3>1, <3>3, <4>2 DEF MovedOn
    <3> QED BY <3>2, <3>3
  <2>3. ASSUME NEW v \in Workers, run'[v].pc \in {"ask", "save"} PROVE ~DoneIn(SessionOf[run'[v].task], run'[v].resp)
    BY <1>1, <1>4, <2>3 DEF OnceInv, Key
  <2>4. ASSUME NEW v \in Workers, NEW c \in Calls, run'[v].pc = "exec", c \in run'[v].left
        PROVE  executed'[<<run'[v].task, run'[v].resp, c>>] = 0
    BY <1>1, <1>4, <2>4 DEF OnceInv, Request
  <2> QED BY <1>1, <2>1, <2>2, <2>3, <2>4 DEF OnceInv, Key, Request, DoneIn, MovedOn
<1>5. CASE Load(w)
  <2>1. CASE cp[Key(w)] = Nil
    <3>1. run'[w].pc = "generate"
      BY <1>1, <1>5, <2>1 DEF Load, RunsTypeOK, Runs
    <3> QED BY <1>3, <3>1
  <2>2. CASE cp[Key(w)] # Nil
    <3>1. run'[w].pc = "ask" /\ run'[w].resp = cp[Key(w)].resp
      BY <1>1, <1>5, <2>2 DEF Load, RunsTypeOK, Runs
    <3>2. ~DoneIn(Key(w), cp[Key(w)].resp)
      BY <1>2, <1>5, <2>2 DEF OnceInv, MovedOn, Load, At
    <3>3. ~Generate(w)
      BY <1>5 DEF Load, Generate, At
    <3> QED BY <1>4, <3>1, <3>2, <3>3
  <2> QED BY <2>1, <2>2
<1>6. CASE Generate(w)
  <2>1. CASE Goto(w, "finish")
    <3>1. run'[w].pc = "finish"
      BY <1>1, <2>1 DEF Goto, RunsTypeOK, Runs
    <3> QED BY <1>3, <3>1
  <2>2. CASE run' = [run EXCEPT ![w] = [@ EXCEPT !.pc = "ask", !.resp = responses + 1, !.left = Calls]]
    <3>1. run'[w].pc = "ask" /\ run'[w].resp = responses + 1
      BY <1>1, <2>2 DEF RunsTypeOK, Runs
    <3>2. responses \in Nat
      BY LifecycleAssumption DEF RunsTypeOK
    <3>3. ~DoneIn(Key(w), responses + 1)
      BY <3>2 DEF DoneIn, Fresh
    <3> QED BY <1>4, <3>1, <3>2, <3>3
  <2> QED BY <1>6, <2>1, <2>2 DEF Generate
<1> QED BY <1>5, <1>6

\* A round that was let through dispatches calls of a response none of whose
\* calls was dispatched; a round that was not saves that response.
LEMMA OnceAsked ==
  ASSUME TypeOK, OnceInv, NEW w \in Workers, Asked(w)
  PROVE  OnceInv'
<1>. USE DEF TypeOK
<1>1. /\ run[w] \in Runs /\ \A v \in Workers \ {w} : run'[v] = run[v]
      /\ run[w].pc = "ask" /\ run'[w].task = run[w].task /\ run'[w].resp = run[w].resp
      /\ run'[w].pc \in {"save", "exec"}
      /\ cp' = cp /\ executed' = executed /\ session' = session
  <2>1. CASE run[w].ask
    BY <2>1 DEF Asked, RunsTypeOK, Runs, diskVars, At
  <2>2. CASE ~run[w].ask
    BY <2>2 DEF Asked, RunsTypeOK, Runs, diskVars, At
  <2> QED BY <2>1, <2>2
<1>2. ASSUME NEW s, NEW n PROVE DoneIn(s, n)' <=> DoneIn(s, n)
  BY <1>1 DEF DoneIn
<1>3. ASSUME NEW s \in Sessions, NEW v \in Workers, MovedOn(v, s) PROVE MovedOn(v, s)'
  BY <1>1, <1>3 DEF MovedOn
<1>4. ASSUME NEW v \in Workers, run'[v].pc \in {"ask", "save"} PROVE ~DoneIn(SessionOf[run'[v].task], run'[v].resp)
  BY <1>1, <1>4 DEF OnceInv, Key
<1>5. ASSUME NEW v \in Workers, NEW c \in Calls, run'[v].pc = "exec", c \in run'[v].left
      PROVE  executed[<<run'[v].task, run'[v].resp, c>>] = 0
  <2>1. CASE v = w
    <3>1. Request(w, c) \in Requests /\ ~DoneIn(Key(w), run[w].resp)
      BY <1>1, RequestType DEF OnceInv
    <3>2. executed[Request(w, c)] \in Nat /\ ~(executed[Request(w, c)] > 0)
      BY <3>1 DEF DoneIn, Key, Request, RunsTypeOK, Often
    <3> QED BY <1>1, <2>1, <3>2 DEF Request
  <2>2. CASE v # w
    BY <1>1, <1>5, <2>2 DEF OnceInv, Request
  <2> QED BY <2>1, <2>2
<1> QED BY <1>1, <1>2, <1>3, <1>4, <1>5 DEF OnceInv, Key, Request, DoneIn, MovedOn

\* A dispatch is the first of its call, and its run is past its checkpoint.
LEMMA OnceDispatched ==
  ASSUME TypeOK, OnceInv, NEW w \in Workers, DispatchCall(w)
  PROVE  OnceInv'
<1>. USE DEF TypeOK
<1>1. PICK c \in run[w].left :
        /\ run' = [run EXCEPT ![w].left = @ \ {c}]
        /\ executed' = IF Resolve(Request(w, c))
                       THEN [executed EXCEPT ![Request(w, c)] = IF @ = Often THEN @ ELSE @ + 1]
                       ELSE executed
  BY DEF DispatchCall
<1>2. /\ run[w] \in Runs /\ run[w].pc = "exec" /\ c \in Calls
      /\ \A v \in Workers \ {w} : run'[v] = run[v]
      /\ run'[w].pc = "exec" /\ run'[w].task = run[w].task /\ run'[w].resp = run[w].resp
      /\ run'[w].left = run[w].left \ {c}
      /\ cp' = cp /\ session' = session
  BY <1>1 DEF RunsTypeOK, Runs, DispatchCall, At
<1>. DEFINE p == Request(w, c)
<1>3. p \in Requests /\ executed[p] = 0
  BY <1>2, RequestType DEF OnceInv
<1>4. \A q \in Requests : executed'[q] = executed[q] \/ (q = p /\ executed'[q] = 1)
  BY <1>1, <1>3 DEF RunsTypeOK, Often
<1>5. p[1] = run[w].task /\ p[2] = run[w].resp /\ p[3] = c /\ SessionOf[p[1]] = Key(w)
  BY DEF Request, Key
<1>. DEFINE DoneNow(s, n) == \E q \in Requests : SessionOf[q[1]] = s /\ q[2] = n /\ executed'[q] > 0
<1>6. \A s \in Sessions : DoneNow(s, cp[s].resp) => DoneIn(s, cp[s].resp) \/ s = Key(w)
  BY <1>4, <1>5 DEF DoneIn
<1>7. /\ Key(w) \in Sessions /\ session[Key(w)] = w
      /\ \A v \in Workers \ {w} : run[v].pc \in {"load", "generate", "ask", "exec", "save", "finish"} => Key(v) # Key(w)
  BY <1>2, OneInSession
<1>8. ASSUME NEW s \in Sessions, cp[s] # Nil, DoneNow(s, cp[s].resp) PROVE \E v \in Workers : MovedOn(v, s)'
  <2>1. CASE s = Key(w)
    BY <1>2, <1>7, <2>1 DEF MovedOn
  <2>2. CASE s # Key(w)
    <3>1. PICK v \in Workers : MovedOn(v, s)
      BY <1>6, <1>8, <2>2 DEF OnceInv
    <3>2. CASE v = w
      BY <1>2, <3>1, <3>2 DEF MovedOn
    <3>3. CASE v # w
      BY <1>2, <3>1, <3>3 DEF MovedOn
    <3> QED BY <3>2, <3>3
  <2> QED BY <2>1, <2>2
<1>9. ASSUME NEW v \in Workers, run'[v].pc \in {"ask", "save"}
      PROVE  ~DoneNow(SessionOf[run'[v].task], run'[v].resp)
  <2>1. v # w /\ run'[v] = run[v]
    BY <1>2, <1>9
  <2>2. Key(v) \in Sessions /\ Key(v) # Key(w) /\ ~DoneIn(Key(v), run[v].resp)
    BY <1>7, <1>9, <2>1, KeyType DEF OnceInv, At
  <2>3. \A q \in Requests : SessionOf[q[1]] = Key(v) => executed'[q] = executed[q]
    BY <1>4, <1>5, <2>2
  <2>4. ~DoneNow(Key(v), run[v].resp)
    BY <2>2, <2>3 DEF DoneIn
  <2> QED BY <2>1, <2>4 DEF Key
<1>10. ASSUME NEW v \in Workers, NEW d \in Calls, run'[v].pc = "exec", d \in run'[v].left
      PROVE  executed'[<<run'[v].task, run'[v].resp, d>>] = 0
  <2>1. /\ run[v].pc = "exec" /\ d \in run[v].left
        /\ run'[v].task = run[v].task /\ run'[v].resp = run[v].resp
    BY <1>2, <1>10
  <2>2. Request(v, d) \in Requests /\ executed[Request(v, d)] = 0
    BY <2>1, RequestType DEF OnceInv
  <2>3. Request(v, d) # p
    <3>1. CASE v = w
      <4>1. d # c
        BY <1>2, <1>10, <3>1
      <4> QED BY <4>1 DEF Request
    <3>2. CASE v # w
      <4>1. Key(v) # Key(w)
        BY <1>7, <2>1, <3>2
      <4> QED BY <4>1 DEF Request, Key
    <3> QED BY <3>1, <3>2
  <2> QED BY <1>4, <2>1, <2>2, <2>3 DEF Request
<1>11. \A q \in Requests : executed'[q] <= 1
  BY <1>4 DEF OnceInv
<1>12. \A s \in Sessions : cp'[s] # Nil /\ DoneNow(s, cp'[s].resp) => \E v \in Workers : MovedOn(v, s)'
  BY <1>2, <1>8
<1> QED BY <1>9, <1>10, <1>11, <1>12 DEF OnceInv, Key, Request, DoneIn

\* A checkpoint is saved of a response none of whose calls was dispatched, and
\* is deleted before it can be found again.
LEMMA OnceSaved ==
  ASSUME TypeOK, OnceInv, NEW w \in Workers, SaveCheckpoint(w) \/ DeleteCheckpoint(w)
  PROVE  OnceInv'
<1>. USE DEF TypeOK
<1>1. /\ run[w] \in Runs /\ \A v \in Workers \ {w} : run'[v] = run[v]
      /\ run'[w].pc \in {"suspend", "close"} /\ run[w].pc \in {"save", "finish"}
      /\ executed' = executed /\ session' = session
      /\ \A s \in Sessions \ {Key(w)} : cp'[s] = cp[s]
  BY DEF SaveCheckpoint, DeleteCheckpoint, Goto, RunsTypeOK, Runs, At
<1>2. /\ Key(w) \in Sessions
      /\ \A s \in Sessions, v \in Workers : MovedOn(v, s) => s = Key(v)
  BY <1>1, OneInSession
<1>3. cp'[Key(w)] = Nil \/ ~DoneIn(Key(w), cp'[Key(w)].resp)
  <2>1. CASE SaveCheckpoint(w)
    BY <1>2, <2>1 DEF SaveCheckpoint, At, OnceInv, RunsTypeOK
  <2>2. CASE DeleteCheckpoint(w)
    BY <1>2, <2>2 DEF DeleteCheckpoint, RunsTypeOK
  <2> QED BY <2>1, <2>2
<1>4. ASSUME NEW s \in Sessions, cp'[s] # Nil, DoneIn(s, cp'[s].resp) PROVE \E v \in Workers : MovedOn(v, s)'
  <2>1. s # Key(w) /\ cp'[s] = cp[s]
    BY <1>1, <1>3, <1>4
  <2>2. PICK v \in Workers : MovedOn(v, s)
    BY <1>4, <2>1 DEF OnceInv
  <2>3. v # w
    BY <1>2, <2>1, <2>2
  <2> QED BY <1>1, <2>1, <2>2, <2>3 DEF MovedOn
<1>5. ASSUME NEW v \in Workers, run'[v].pc \in {"ask", "save"} PROVE ~DoneIn(SessionOf[run'[v].task], run'[v].resp)
  BY <1>1, <1>5 DEF OnceInv, Key
<1>6. ASSUME NEW v \in Workers, NEW c \in Calls, run'[v].pc = "exec", c \in run'[v].left
      PROVE  executed[<<run'[v].task, run'[v].resp, c>>] = 0
  BY <1>1, <1>6 DEF OnceInv, Request
<1> QED BY <1>1, <1>4, <1>5, <1>6 DEF OnceInv, Key, Request, DoneIn

\* A goroutine's step dispatches no call a second time.
LEMMA OnceWorker ==
  ASSUME Quiet, TypeOK, NobodyCancelled, Fresh, OnceInv, NEW w \in Workers, Worker(w)
  PROVE  OnceInv'
<1>1. CASE Ask(w) \/ Exit(w)
  <2>1. /\ run[w] \in Runs /\ \A v \in Workers \ {w} : run'[v] = run[v]
        /\ session' = session /\ cp' = cp /\ executed' = executed
    BY <1>1, OneRunMoves DEF Worker, TypeOK, RunsTypeOK, Ask, AskAbout, Exit, diskVars
  <2>2. \/ run[w].pc = "ask" /\ run'[w].pc = "ask" /\ run'[w].task = run[w].task /\ run'[w].resp = run[w].resp
        \/ run[w].pc = "exit" /\ run'[w].pc = "idle"
    <3>1. CASE Ask(w)
      <4>1. run[w].pc = "ask"
        BY <3>1 DEF Ask, AskAbout, At
      <4>2. run'[w].task = run[w].task
        BY <3>1, <4>1, OneRunMoves DEF Worker, TypeOK, Exit, At
      <4>3. run'[w].pc = "ask" /\ run'[w].resp = run[w].resp
        <5>1. PICK c \in Calls : AskAbout(w, c, Decided(Request(w, c)))
          BY <3>1 DEF Ask
        <5>2. CASE run' = [run EXCEPT ![w].left = @ \ {c}]
          BY <2>1, <4>1, <5>2 DEF TypeOK, RunsTypeOK, Runs
        <5>3. CASE run' = [run EXCEPT ![w] = [run[w] EXCEPT !.left = @ \ {c}, !.ask = TRUE]]
          BY <2>1, <4>1, <5>3 DEF TypeOK, RunsTypeOK, Runs
        <5> QED BY <5>1, <5>2, <5>3 DEF AskAbout
      <4> QED BY <4>1, <4>2, <4>3
    <3>2. CASE Exit(w)
      BY <3>2 DEF Exit, At, TypeOK, RunsTypeOK, Idle, Goroutine
    <3> QED BY <1>1, <3>1, <3>2
  <2>3. \A v \in Workers : SameCalls(v)
    BY <2>1, <2>2 DEF SameCalls
  <2>4. ASSUME NEW s \in Sessions, NEW v \in Workers, MovedOn(v, s) PROVE MovedOn(v, s)'
    BY <2>1, <2>2, <2>4 DEF MovedOn
  <2> QED BY <2>1, <2>3, <2>4, OnceKept
<1> QED BY <1>1, OnceMoves, OnceAsks, OnceAsked, OnceDispatched, OnceSaved DEF Worker, Moves

\* Nor does any step, until a restart.
LEMMA OnceStep ==
  Quiet /\ TypeOK /\ NobodyCancelled /\ Fresh /\ (crashes = 0 => OnceInv) /\ [Next]_vars => (crashes' = 0 => OnceInv')
<1>. SUFFICES ASSUME Quiet, TypeOK, NobodyCancelled, Fresh, crashes = 0 => OnceInv, Steps, crashes' = 0
              PROVE  OnceInv'
  BY StepCases
<1>1. ~CrashRestart /\ crashes = 0
  <2>1. crashes \in Nat
    BY LifecycleAssumption DEF TypeOK, CoordinatorTypeOK
  <2>2. CrashRestart => crashes' = crashes + 1
    BY DEF CrashRestart
  <2>3. ~CrashRestart => crashes' = crashes
    BY DEF Steps, Submit, Interrupt, LeaseEnds, Decide, Expire, Background, Tick, ScanLoad, Claim, ClaimUnless,
       ScanDone, Dispatch, TickFails, Sweep, SweepStep, SweepDone, Worker, Lease, MarkRunning, Trust, Gate,
       EnterSession, Load, Generate, Ask, AskAbout, Asked, DispatchCall, RoundDone, SaveCheckpoint,
       ReturnSuspended, DeleteCheckpoint, ReturnResult, ReturnError, Park, GiveBack, Evaluate, Judge, FailTask,
       LandCancelled, UnlockCancelled, Exit, vars
  <2> QED BY <2>1, <2>2, <2>3
<1>2. CASE \E w \in Workers : Worker(w)
  BY <1>1, <1>2, OnceWorker
<1>3. CASE ~\E w \in Workers : Worker(w)
  <2>1. \A t \in Tasks : ~Interrupt(t)
    BY DEF Quiet, Interrupt
  <2>2. /\ executed' = executed /\ cp' = cp /\ session' = session
    BY <1>1, <1>3, <2>1 DEF Steps, Submit, LeaseEnds, Decide, Expire, Background, Tick, ScanLoad, Claim,
       ClaimUnless, ScanDone, Dispatch, TickFails, Sweep, SweepStep, SweepDone, vars, diskVars, coordinatorVars
  <2>3. ASSUME NEW v \in Workers PROVE run'[v] = run[v] \/ (run[v] = Idle /\ run'[v].pc \in {"lock", "gate"})
    <3>1. ~CrashRestart /\ (run' = run \/ \E t \in Tasks : Spawn(t, "lock", FALSE) \/ Spawn(t, "gate", TRUE))
      BY <1>1, <1>3, <2>1 DEF Steps, Submit, LeaseEnds, Decide, Expire, Background, Tick, ScanLoad, Claim,
         ClaimUnless, ScanDone, Dispatch, TickFails, Sweep, SweepStep, SweepDone, vars, coordinatorVars
    <3>2. ASSUME NEW t \in Tasks, Spawn(t, "lock", FALSE) \/ Spawn(t, "gate", TRUE)
          PROVE  run'[v] = run[v] \/ (run[v] = Idle /\ run'[v].pc \in {"lock", "gate"})
      <4>1. At(FreeSlot, "idle") /\ FreeSlot \in Workers
        BY <3>2, SlotIsFree DEF Spawn
      <4>2. run[FreeSlot] = Idle
        BY <4>1 DEF TypeOK, RunsTypeOK
      <4>3. run'[v] = run[v] \/ v = FreeSlot
        BY <3>2, <4>1 DEF Spawn, TypeOK, RunsTypeOK
      <4> QED BY <3>2, <4>2, <4>3, SpawnedIsElsewhere DEF TypeOK
    <3> QED BY <3>1, <3>2
  <2>4. \A v \in Workers : SameCalls(v)
    BY <2>3 DEF SameCalls
  <2>5. ASSUME NEW s \in Sessions, NEW v \in Workers, MovedOn(v, s) PROVE MovedOn(v, s)'
    <3>1. run'[v] = run[v]
      BY <2>3, <2>5 DEF MovedOn, Idle, Goroutine
    <3> QED BY <2>2, <2>5, <3>1 DEF MovedOn
  <2> QED BY <1>1, <2>2, <2>4, <2>5, OnceKept
<1> QED BY <1>2, <1>3

\* A goroutine works on a response the model has given.
LEMMA FreshWorker ==
  ASSUME TypeOK, Fresh, NEW w \in Workers, Worker(w)
  PROVE  Fresh'
<1>. USE DEF TypeOK
<1>1. run[w] \in Runs /\ run[w].resp \in Nat /\ responses \in Nat /\ \A v \in Workers \ {w} : run'[v] = run[v]
  BY OneRunMoves, LifecycleAssumption DEF RunsTypeOK, Runs
<1>2. responses' \in Nat /\ responses <= responses'
  <2>1. CASE Generate(w)
    BY <1>1, <2>1 DEF Generate
  <2>2. CASE ~Generate(w)
    <3>1. responses' = responses
      BY <2>2 DEF Worker, Lease, MarkRunning, Trust, Gate, EnterSession, Load, Ask, AskAbout, Asked, DispatchCall,
         RoundDone, SaveCheckpoint, ReturnSuspended, DeleteCheckpoint, ReturnResult, ReturnError, Park, GiveBack,
         Evaluate, Judge, FailTask, LandCancelled, UnlockCancelled, Exit
    <3> QED BY <1>1, <3>1
  <2> QED BY <2>1, <2>2
<1>3. run'[w].resp \in Nat /\ run'[w].resp <= responses'
  <2>1. ASSUME NEW pc, Goto(w, pc) PROVE run'[w].resp = run[w].resp
    BY <1>1, <2>1 DEF Goto, RunsTypeOK, Runs
  <2>2. CASE Moves(w) \/ SaveCheckpoint(w) \/ DeleteCheckpoint(w)
    <3>1. run'[w].resp = run[w].resp
      BY <2>1, <2>2, MovesMove DEF SaveCheckpoint, DeleteCheckpoint
    <3> QED BY <1>1, <1>2, <3>1 DEF Fresh
  <2>3. CASE Load(w)
    <3>1. Key(w) \in Sessions
      BY <2>3, KeyType DEF Load, At
    <3>2. run'[w].resp = run[w].resp \/ (cp[Key(w)] # Nil /\ run'[w].resp = cp[Key(w)].resp)
      BY <1>1, <2>3 DEF Load, RunsTypeOK, Runs
    <3> QED BY <1>1, <1>2, <3>1, <3>2 DEF Fresh, RunsTypeOK, Checkpoints
  <2>4. CASE Generate(w)
    <3>1. CASE Goto(w, "finish")
      BY <1>1, <1>2, <2>1, <3>1 DEF Fresh
    <3>2. CASE /\ responses' = responses + 1
               /\ run' = [run EXCEPT ![w] = [@ EXCEPT !.pc = "ask", !.resp = responses + 1, !.left = Calls]]
      <4>1. run'[w].resp = responses + 1
        BY <1>1, <3>2 DEF RunsTypeOK, Runs
      <4> QED BY <1>1, <3>2, <4>1
    <3> QED BY <2>4, <3>1, <3>2 DEF Generate
  <2>5. CASE Ask(w)
    <3>1. run'[w].resp = run[w].resp
      BY <1>1, <2>5 DEF Ask, AskAbout, RunsTypeOK, Runs
    <3> QED BY <1>1, <1>2, <3>1 DEF Fresh
  <2>6. CASE Asked(w)
    <3>1. CASE run[w].ask
      BY <1>1, <1>2, <2>6, <3>1 DEF Asked, RunsTypeOK, Runs, Fresh
    <3>2. CASE ~run[w].ask
      BY <1>1, <1>2, <2>6, <3>2 DEF Asked, RunsTypeOK, Runs, Fresh
    <3> QED BY <3>1, <3>2
  <2>7. CASE DispatchCall(w)
    <3>1. run'[w].resp = run[w].resp
      BY <1>1, <2>7 DEF DispatchCall, RunsTypeOK, Runs
    <3> QED BY <1>1, <1>2, <3>1 DEF Fresh
  <2>8. CASE Exit(w)
    BY <1>2, <2>8 DEF Exit, RunsTypeOK, Idle, Goroutine
  <2> QED BY <2>2, <2>3, <2>4, <2>5, <2>6, <2>7, <2>8 DEF Worker, Moves
<1>4. \A v \in Workers : run'[v].resp <= responses'
  <2>1. \A v \in Workers \ {w} : run[v].resp \in Nat
    BY LifecycleAssumption DEF RunsTypeOK, Runs
  <2> QED BY <1>1, <1>2, <1>3, <2>1 DEF Fresh
<1>5. ASSUME NEW s \in Sessions, cp'[s] # Nil PROVE cp'[s].resp <= responses'
  <2>1. CASE cp'[s] = cp[s]
    <3>1. cp[s].resp \in Nat /\ cp[s].resp <= responses
      BY <1>5, <2>1 DEF RunsTypeOK, Checkpoints, Fresh
    <3> QED BY <1>1, <1>2, <2>1, <3>1
  <2>2. CASE SaveCheckpoint(w) \/ DeleteCheckpoint(w)
    <3>1. cp'[s] = cp[s] \/ cp'[s] = Nil \/ cp'[s].resp = run[w].resp
      BY <2>2 DEF SaveCheckpoint, DeleteCheckpoint, RunsTypeOK
    <3> QED BY <1>1, <1>2, <1>5, <2>1, <3>1 DEF Fresh
  <2>3. CASE ~(SaveCheckpoint(w) \/ DeleteCheckpoint(w))
    <3>1. cp' = cp
      BY <2>3 DEF Worker, Lease, MarkRunning, Trust, Gate, EnterSession, Load, Generate, Ask, AskAbout, Asked,
     DispatchCall, RoundDone, ReturnSuspended, ReturnResult, ReturnError, Park,
     GiveBack, Evaluate, Judge, FailTask, LandCancelled, UnlockCancelled, Exit, diskVars
    <3> QED BY <2>1, <3>1
  <2> QED BY <2>2, <2>3
<1>6. ASSUME NEW q \in Requests, executed'[q] > 0 PROVE q[2] <= responses'
  <2>1. q[2] \in Nat
    BY LifecycleAssumption DEF Requests
  <2>2. CASE executed'[q] = executed[q]
    BY <1>1, <1>2, <1>6, <2>1, <2>2 DEF Fresh
  <2>3. CASE executed'[q] # executed[q]
    <3>1. DispatchCall(w)
      BY <2>3 DEF Worker, Lease, MarkRunning, Trust, Gate, EnterSession, Load, Generate, Ask, AskAbout, Asked,
         RoundDone, SaveCheckpoint, ReturnSuspended, DeleteCheckpoint, ReturnResult, ReturnError, Park,
         GiveBack, Evaluate, Judge, FailTask, LandCancelled, UnlockCancelled, Exit, diskVars
    <3>2. PICK c \in run[w].left : q = Request(w, c)
      BY <2>3, <3>1 DEF DispatchCall, RunsTypeOK
    <3> QED BY <1>1, <1>2, <3>2 DEF Request, Fresh
  <2> QED BY <2>2, <2>3
<1> QED BY <1>4, <1>5, <1>6 DEF Fresh

\* Nobody works on a response the model has not given.
LEMMA FreshStep == TypeOK /\ Fresh /\ [Next]_vars => Fresh'
<1>. SUFFICES ASSUME TypeOK, Fresh, Steps PROVE Fresh'
  BY StepCases
<1>1. CASE \E w \in Workers : Worker(w)
  BY <1>1, FreshWorker
<1>2. CASE ~\E w \in Workers : Worker(w)
  <2>1. executed' = executed /\ cp' = cp /\ responses' = responses
    BY <1>2 DEF Steps, Submit, Interrupt, LeaseEnds, Decide, Expire, Background, Tick, ScanLoad, Claim,
       ClaimUnless, ScanDone, Dispatch, TickFails, Sweep, SweepStep, SweepDone, CrashRestart, vars, diskVars
  <2>2. ASSUME NEW v \in Workers PROVE run'[v].resp = run[v].resp \/ run'[v].resp = 0
    <3>1. ASSUME NEW t \in Tasks, Interrupt(t) PROVE run'[v].resp = run[v].resp
      BY <3>1 DEF Interrupt, TypeOK, RunsTypeOK, CoordinatorTypeOK, Runs
    <3>2. ASSUME NEW t \in Tasks, NEW pc, NEW resumed, Spawn(t, pc, resumed)
          PROVE  run'[v].resp = run[v].resp \/ run'[v].resp = 0
      <4>1. run'[v] = run[v] \/ run'[v] = Goroutine(t, pc, resumed)
        BY <3>2, SpawnedIsNew DEF TypeOK
      <4> QED BY <4>1 DEF Goroutine
    <3>3. CASE run' = [w \in Workers |-> Idle]
      BY <3>3 DEF Idle, Goroutine
    <3> QED BY <1>2, <3>1, <3>2, <3>3, RunSteps DEF RunStep
  <2>3. responses \in Nat
    BY LifecycleAssumption DEF TypeOK, RunsTypeOK
  <2> QED BY <2>1, <2>2, <2>3 DEF Fresh
<1> QED BY <1>1, <1>2

\* Where nothing fails, nobody interrupts and leases last, no approved call
\* reaches its tool twice without a restart, suspended and resumed though its
\* run may be; and a task that has ended never comes back, restarts or not.
THEOREM EndingsHold == Calm => (Spec => DoneIsDone)
<1>. SUFFICES ASSUME Calm PROVE Spec => DoneIsDone
  OBVIOUS
<1>. Quiet /\ ~Interrupts /\ ~ShortLeases
  BY DEF Calm, Quiet
<1>. DEFINE Once == crashes = 0 => OnceInv
<1>1. Init => NobodyCancelled /\ LeasesHeld /\ EndInv /\ Fresh /\ Once
  <2>. SUFFICES ASSUME Init PROVE NobodyCancelled /\ LeasesHeld /\ EndInv /\ Fresh /\ Once
    OBVIOUS
  <2>1. \A w \in Workers : run[w] = Idle
    BY DEF Init
  <2>2. NobodyCancelled /\ LeasesHeld
    BY <2>1 DEF NobodyCancelled, LeasesHeld, Idle, Goroutine, Holding
  <2>3. EndInv
    BY <2>1 DEF Init, SchedulerInit, EndInv, Terminal, Idle, Goroutine
  <2>4. Fresh /\ OnceInv
    BY <2>1 DEF Init, Fresh, OnceInv, Idle, Goroutine
  <2> QED BY <2>2, <2>3, <2>4
<1>2. TypeOK /\ NobodyCancelled /\ [Next]_vars => NobodyCancelled'
  BY NobodyCancelledStep
<1>3. TypeOK /\ LeasesHeld /\ [Next]_vars => LeasesHeld'
  BY LeasesHeldStep
<1>4. TypeOK /\ TypeOK' /\ NobodyCancelled /\ LeasesHeld /\ EndInv /\ [Next]_vars => EndInv'
  BY EndInvStep
<1>5. TypeOK /\ NobodyCancelled /\ Fresh /\ Once /\ [Next]_vars => Once'
  BY OnceStep
<1>6. TypeOK /\ Once => ExecutedOnce
  BY DEF OnceInv, ExecutedOnce
<1>7. TypeOK /\ EndInv /\ [Next]_vars =>
        [\A t \in Tasks : status[t] \in Terminal => status'[t] \in {status[t], "absent"}]_vars
  BY StepCases, TerminalStays
<1>. HIDE DEF Once
<1> QED BY <1>1, <1>2, <1>3, <1>4, <1>5, <1>6, <1>7, FreshStep, TypeCorrect, PTL
  DEF Spec, DoneIsDone, TerminalForGood

-----------------------------------------------------------------------------
(* The safety properties as wholes.                                          *)

\* Whatever fails, is interrupted or expires: types hold, every call about to
\* be dispatched has been decided, and no task is resumed twice at a time.
THEOREM DispatchIsSafe == Spec => []DispatchSafe
  BY TypeCorrect, DispatchDecided, OneResumption, PTL DEF DispatchSafe

\* With fresh call ids and leases that outlast their runs: one run of a task at
\* a time, no call without its approval, no checkpoint nobody is asked about.
THEOREM RunsAreSafe == IdsAreFresh /\ ~ShortLeases => (Spec => []RunsSafe)
<1>. SUFFICES ASSUME IdsAreFresh, ~ShortLeases PROVE Spec => []RunsSafe
  OBVIOUS
<1>1. (Spec => []NoDoubleRun) /\ (Spec => []ExecutedWasApproved)
  BY OneRunPerTask, ApprovedBeforeExecuted
<1> QED BY <1>1, CheckpointAsked, PTL DEF RunsSafe

=============================================================================
