------------------------------ MODULE TaskGate ------------------------------
(* internal/taskgate/taskgate.go: the gate between running tasks and plugin  *)
(* changes. Tasks take a token (Begin), their sub-tasks take one too         *)
(* (BeginChild), and ApplyAtBoundary runs fn only with no token out. The     *)
(* mutex makes every method body below one step; the waits between the       *)
(* bodies (a select on the idle channel, then a re-check) are steps of their *)
(* own, so a task can end in each gap.                                       *)
EXTENDS Naturals, FiniteSets

CONSTANTS Workers,   \* goroutines that call Begin or BeginChild
          Appliers   \* goroutines that call ApplyAtBoundary

ASSUME WorkersFinite == IsFiniteSet(Workers)

VARIABLES
  running,   \* TaskGate.running
  pending,   \* TaskGate.pending
  idle,      \* TaskGate.idle: "nil", or the channel made for this apply
  token,     \* which workers hold an end func they have not called
  apply,     \* where each applier is inside ApplyAtBoundary
  ctx,       \* each applier's waitCtx: "expired" its own timer, "cancelled" the caller
  outcome,   \* what ApplyAtBoundary reported, or will report when it unwinds
  ranFn,     \* whether fn ran in this call
  panicked   \* some panic of the gate was reached

gateVars == <<running, pending, idle>>
applyVars == <<apply, ctx, outcome, ranFn>>
vars == <<running, pending, idle, token, apply, ctx, outcome, ranFn, panicked>>

InFlight == {w \in Workers : token[w]}

Outcomes == {"none", "applied", "failed", "ErrBoundaryNotReached", "ErrApplyInProgress"}

\* Types, and taskgate.go's own statement that idle is non-nil exactly while
\* pending is set: what one apply leaves behind never reaches the next one.
TypeOK ==
  /\ running \in Nat
  /\ pending \in BOOLEAN
  /\ idle \in {"nil", "open", "closed"}
  /\ (idle = "nil") <=> ~pending
  /\ token \in [Workers -> BOOLEAN]
  /\ apply \in [Appliers -> {"out", "select", "recheck", "fn", "end"}]
  /\ ctx \in [Appliers -> {"live", "expired", "cancelled"}]
  /\ outcome \in [Appliers -> Outcomes]
  /\ ranFn \in [Appliers -> BOOLEAN]
  /\ panicked \in BOOLEAN

Init ==
  /\ running = 0
  /\ pending = FALSE
  /\ idle = "nil"
  /\ token = [w \in Workers |-> FALSE]
  /\ apply = [a \in Appliers |-> "out"]
  /\ ctx = [a \in Appliers |-> "live"]
  /\ outcome = [a \in Appliers |-> "none"]
  /\ ranFn = [a \in Appliers |-> FALSE]
  /\ panicked = FALSE

-----------------------------------------------------------------------------
(* The tasks' side *)

TakeToken(w) ==
  /\ running' = running + 1
  /\ token' = [token EXCEPT ![w] = TRUE]

\* A slip of Begin: it does not look at the pending apply.
Bug_BeginIgnoresPending(w) ==
  /\ ~token[w]
  /\ TakeToken(w)
  /\ UNCHANGED <<pending, idle, applyVars, panicked>>

\* A top-level task: refused (no state change) while an apply is pending.
Begin(w) ==
  /\ ~token[w]
  /\ ~pending
  /\ TakeToken(w)
  /\ UNCHANGED <<pending, idle, applyVars, panicked>>

\* A sub-task of a worker in flight: RunTask at depth > 0, or a background
\* delegation that takes its token in the parent's own tool call.
BeginChild(w) ==
  /\ ~token[w]
  /\ InFlight # {}
  /\ IF pending /\ running = 0
       THEN panicked' = TRUE /\ UNCHANGED <<running, token>>
       ELSE TakeToken(w) /\ UNCHANGED panicked
  /\ UNCHANGED <<pending, idle, applyVars>>

\* The end func. last says whether this end is the one an apply waits for; that
\* one closes the idle channel.
Retire(w, last) ==
  /\ token[w]
  /\ token' = [token EXCEPT ![w] = FALSE]
  /\ IF running = 0
       THEN panicked' = TRUE /\ UNCHANGED <<running, idle>>
       ELSE /\ running' = running - 1
            /\ IF pending /\ last
                 THEN idle' = "closed" /\ panicked' = (panicked \/ idle # "open")
                 ELSE UNCHANGED <<idle, panicked>>
  /\ UNCHANGED <<pending, applyVars>>

\* A slip of the end func: whoever ends first closes the channel.
Bug_FinishSignalsEarly(w) == Retire(w, idle = "open")

Finish(w) == Retire(w, running = 1)

-----------------------------------------------------------------------------
(* The applier's side: ApplyAtBoundary, step by step *)

\* beginApply; refused when another call already owns the gate.
BeginApply(a) ==
  /\ apply[a] = "out"
  /\ ranFn' = [ranFn EXCEPT ![a] = FALSE]
  /\ IF pending
       THEN /\ outcome' = [outcome EXCEPT ![a] = "ErrApplyInProgress"]
            /\ UNCHANGED <<pending, idle, apply, ctx>>
       ELSE /\ pending' = TRUE
            /\ idle' = IF running = 0 THEN "closed" ELSE "open"
            /\ apply' = [apply EXCEPT ![a] = "select"]
            /\ outcome' = [outcome EXCEPT ![a] = "none"]
            /\ ctx' = [ctx EXCEPT ![a] = "live"]
  /\ UNCHANGED <<running, token, panicked>>

\* The wait's own timer fires.
Expire(a) ==
  /\ apply[a] \in {"select", "recheck"}
  /\ ctx[a] = "live"
  /\ ctx' = [ctx EXCEPT ![a] = "expired"]
  /\ UNCHANGED <<gateVars, token, apply, outcome, ranFn, panicked>>

\* The caller's context ends.
Cancel(a) ==
  /\ apply[a] \in {"select", "recheck"}
  /\ ctx[a] # "cancelled"
  /\ ctx' = [ctx EXCEPT ![a] = "cancelled"]
  /\ UNCHANGED <<gateVars, token, apply, outcome, ranFn, panicked>>

\* awaitIdle's first select: woken by the channel or by the context.
Select(a) ==
  /\ apply[a] = "select"
  /\ idle = "closed" \/ ctx[a] # "live"
  /\ apply' = [apply EXCEPT ![a] = "recheck"]
  /\ UNCHANGED <<gateVars, token, ctx, outcome, ranFn, panicked>>

GiveUp(a, unwindTo) ==
  /\ apply' = [apply EXCEPT ![a] = unwindTo]
  /\ outcome' = [outcome EXCEPT ![a] = "ErrBoundaryNotReached"]
  /\ UNCHANGED ranFn

RunFn(a) ==
  /\ apply' = [apply EXCEPT ![a] = "fn"]
  /\ ranFn' = [ranFn EXCEPT ![a] = TRUE]
  /\ UNCHANGED outcome

\* A slip of awaitIdle's caller: giving up does not end the apply.
Bug_RecheckLeavesGateShut(a) ==
  /\ apply[a] = "recheck"
  /\ IF idle = "closed" /\ ctx[a] # "cancelled" THEN RunFn(a) ELSE GiveUp(a, "out")
  /\ UNCHANGED <<gateVars, token, ctx, panicked>>

\* awaitIdle's second look: the boundary counts even when the timer won the
\* select, and a cancelled caller stops fn even at the boundary.
Recheck(a) ==
  /\ apply[a] = "recheck"
  /\ IF idle = "closed" /\ ctx[a] # "cancelled" THEN RunFn(a) ELSE GiveUp(a, "end")
  /\ UNCHANGED <<gateVars, token, ctx, panicked>>

\* fn returns, fails or panics: the deferred endApply runs in every case.
FnReturns(a) ==
  /\ apply[a] = "fn"
  /\ apply' = [apply EXCEPT ![a] = "end"]
  /\ \E o \in {"applied", "failed"} : outcome' = [outcome EXCEPT ![a] = o]
  /\ UNCHANGED <<gateVars, token, ctx, ranFn, panicked>>

EndApply(a) ==
  /\ apply[a] = "end"
  /\ apply' = [apply EXCEPT ![a] = "out"]
  /\ panicked' = (panicked \/ ~pending)
  /\ pending' = FALSE
  /\ idle' = "nil"
  /\ UNCHANGED <<running, token, ctx, outcome, ranFn>>

-----------------------------------------------------------------------------
Next == \/ \E w \in Workers : Begin(w) \/ BeginChild(w) \/ Finish(w)
        \/ \E a \in Appliers : \/ BeginApply(a) \/ Expire(a) \/ Cancel(a) \/ Select(a)
                               \/ Recheck(a) \/ FnReturns(a) \/ EndApply(a)

Spec == Init /\ [][Next]_vars

\* An applier that entered runs on, its timer fires, and fn returns (its own
\* timeouts see to that). Tasks owe nothing: one may hold its token forever.
ApplierFairness ==
  \A a \in Appliers : WF_vars(Expire(a) \/ Select(a) \/ Recheck(a) \/ FnReturns(a) \/ EndApply(a))

FairSpec == Spec /\ ApplierFairness

-----------------------------------------------------------------------------
(* Properties *)

\* No plugin change runs while a task holds a token, and no two changes run
\* at once ("no apply lands while a task is actually executing").
NoApplyWhileExecuting ==
  \A a \in Appliers : apply[a] = "fn" =>
     /\ InFlight = {}
     /\ \A b \in Appliers \ {a} : apply[b] = "out"

\* None of the gate's panics is reachable: the count never goes negative, the
\* idle channel is never closed twice or closed after the apply ended, a child
\* never finds a gate at its boundary, no apply ends twice.
NoPanic == ~panicked

\* A call that reports "nothing was applied" ran no fn, and one that reports
\* fn's result ran it: the distinction ErrBoundaryNotReached exists for.
TruthfulOutcome ==
  \A a \in Appliers :
    /\ outcome[a] \in {"ErrBoundaryNotReached", "ErrApplyInProgress"} => ~ranFn[a]
    /\ outcome[a] \in {"applied", "failed"} => ranFn[a]

\* An apply whose caller did not cancel gives up only with a task in flight: a
\* last end func landing together with the deadline does not lose the boundary.
GivesUpOnlyWhileBusy ==
  [][\A a \in Appliers :
       (apply[a] = "recheck" /\ apply'[a] = "end" /\ ctx[a] # "cancelled") => InFlight # {}]_vars

\* The gate never stays shut: a pending apply ends, even if a task never does.
GateReopens == pending ~> ~pending

\* The gate implements the boundary exclusion of module Boundary.
B == INSTANCE Boundary WITH
       inflight <- InFlight,
       converging <- {a \in Appliers : apply[a] = "fn"}

ImplementsBoundary == B!Spec

(* No plugin change is applied while a task executes, none of the gate's panics
   is reachable, a caller is told the truth about whether its change was
   applied, and one that did not cancel gives up only with a task in flight. *)
GateSafe ==
  /\ [](TypeOK /\ NoApplyWhileExecuting /\ NoPanic /\ TruthfulOutcome)
  /\ GivesUpOnlyWhileBusy
===============================================================================
