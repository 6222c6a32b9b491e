---------------------------- MODULE LocksProofs ----------------------------
(* What the locks of the service and its lifetime promise, for any finite    *)
(* sets of workers, runs and tasks: the task gate with its two-sided         *)
(* exclusion, the session run lock with its counted entries, the service     *)
(* that is assembled and taken down around them, and the plugin loader whose *)
(* convergence that gate lets in between two tasks.                          *)
EXTENDS TaskGate, SessionLock, Serve, PluginLoader,
        FiniteSetTheorems, NaturalsInduction, WellFoundedInduction, TLAPS

-----------------------------------------------------------------------------
(* The inductive invariant. The exclusion follows from three facts the code  *)
(* never states together: the counter counts the tokens, only one applier is *)
(* inside at a time, and its channel is closed exactly when nobody is left.  *)

OneApplier ==
  /\ pending <=> \E a \in Appliers : apply[a] # "out"
  /\ \A a, b \in Appliers : apply[a] # "out" /\ apply[b] # "out" => a = b

CountsTokens == running = Cardinality(InFlight)

ClosedAtBoundary ==
  /\ pending => (idle = "closed" <=> running = 0)
  /\ \A a \in Appliers : apply[a] = "fn" => idle = "closed"

GateInv == TypeOK /\ CountsTokens /\ OneApplier /\ ClosedAtBoundary /\ ~panicked

-----------------------------------------------------------------------------
(* Counting tokens *)

\* The tokens are finitely many, and none is out exactly when the count is 0.
LEMMA InFlightFinite ==
  /\ IsFiniteSet(InFlight)
  /\ Cardinality(InFlight) \in Nat
  /\ Cardinality(InFlight) = 0 <=> InFlight = {}
<1>1. InFlight \subseteq Workers
  BY DEF InFlight
<1>2. IsFiniteSet(InFlight)
  BY <1>1, WorkersFinite, FS_Subset
<1> QED
  BY <1>2, FS_CardinalityType, FS_EmptySet

\* Taking a token adds one to the count of tokens.
LEMMA TakingCounts ==
  ASSUME NEW w \in Workers, token \in [Workers -> BOOLEAN], ~token[w],
         token' = [token EXCEPT ![w] = TRUE]
  PROVE  Cardinality(InFlight') = Cardinality(InFlight) + 1
<1>1. InFlight' = InFlight \cup {w}
  BY DEF InFlight
<1>2. w \notin InFlight
  BY DEF InFlight
<1> QED
  BY <1>1, <1>2, InFlightFinite, FS_AddElement

\* Handing a token back takes one off the count of tokens.
LEMMA RetiringCounts ==
  ASSUME NEW w \in Workers, token \in [Workers -> BOOLEAN], token[w],
         token' = [token EXCEPT ![w] = FALSE]
  PROVE  Cardinality(InFlight') = Cardinality(InFlight) - 1
<1>1. InFlight' = InFlight \ {w}
  BY DEF InFlight
<1>2. w \in InFlight
  BY DEF InFlight
<1> QED
  BY <1>1, <1>2, InFlightFinite, FS_RemoveElement

-----------------------------------------------------------------------------
\* The gate starts open and unused.
LEMMA GateInitInv == Init => GateInv
<1> SUFFICES ASSUME Init PROVE GateInv
  OBVIOUS
<1>1. InFlight = {}
  BY DEF Init, InFlight
<1>2. CountsTokens
  BY <1>1, FS_EmptySet DEF Init, CountsTokens
<1> QED
  BY <1>2 DEF Init, GateInv, TypeOK, OneApplier, ClosedAtBoundary, Outcomes

\* Each step of a worker or an applier keeps the accounting right.
LEMMA GateStepInv == GateInv /\ [Next]_vars => GateInv'
<1> SUFFICES ASSUME GateInv, [Next]_vars PROVE GateInv'
  OBVIOUS
<1> USE DEF GateInv, TypeOK, CountsTokens, OneApplier, ClosedAtBoundary
<1>1. ASSUME NEW w \in Workers, ~token[w], InFlight # {} \/ ~pending,
             TakeToken(w), UNCHANGED <<pending, idle, applyVars, panicked>>
      PROVE  GateInv'
  <2>1. Cardinality(InFlight') = running + 1
    BY <1>1, TakingCounts DEF TakeToken
  <2>2. pending => running # 0
    BY <1>1, InFlightFinite
  <2> QED
    BY <1>1, <2>1, <2>2 DEF TakeToken, applyVars
<1>2. ASSUME NEW w \in Workers, Begin(w)
      PROVE  GateInv'
  BY <1>1, <1>2 DEF Begin
<1>3. ASSUME NEW w \in Workers, BeginChild(w)
      PROVE  GateInv'
  <2>1. running # 0
    BY <1>3, InFlightFinite DEF BeginChild
  <2> QED
    BY <1>1, <1>3, <2>1 DEF BeginChild
<1>4. ASSUME NEW w \in Workers, Finish(w)
      PROVE  GateInv'
  <2>1. w \in InFlight
    BY <1>4 DEF Finish, Retire, InFlight
  <2>2. running # 0
    BY <2>1, InFlightFinite
  <2>3. Cardinality(InFlight') = running - 1
    BY <1>4, RetiringCounts DEF Finish, Retire
  <2> QED
    BY <1>4, <2>2, <2>3 DEF Finish, Retire, applyVars
<1>5. ASSUME NEW a \in Appliers,
             \/ BeginApply(a) \/ Expire(a) \/ Cancel(a) \/ Select(a)
             \/ Recheck(a) \/ FnReturns(a) \/ EndApply(a)
      PROVE  GateInv'
  <2>1. InFlight' = InFlight
    BY <1>5 DEF BeginApply, Expire, Cancel, Select, Recheck, FnReturns,
                EndApply, InFlight
  <2>2. CASE BeginApply(a)
    <3>1. CASE pending
      BY <2>1, <2>2, <3>1 DEF BeginApply, Outcomes
    <3>2. CASE ~pending
      <4>1. \A b \in Appliers : apply[b] = "out"
        BY <3>2
      <4>2. apply'[a] = "select" /\ \A b \in Appliers \ {a} : apply'[b] = "out"
        BY <2>2, <3>2, <4>1 DEF BeginApply
      <4>3. TypeOK'
        BY <2>2, <3>2 DEF BeginApply, Outcomes
      <4>4. pending' /\ (idle' = "closed" <=> running = 0) /\ running' = running /\ ~panicked'
        BY <2>2, <3>2 DEF BeginApply
      <4> QED
        BY <2>1, <4>2, <4>3, <4>4
    <3> QED
      BY <3>1, <3>2
  <2>3. CASE Expire(a)
    BY <2>1, <2>3 DEF Expire, gateVars
  <2>4. CASE Cancel(a)
    BY <2>1, <2>4 DEF Cancel, gateVars
  <2>5. CASE Select(a)
    BY <2>1, <2>5 DEF Select, gateVars
  <2>6. CASE Recheck(a)
    <3>1. TypeOK'
      BY <2>6 DEF Recheck, RunFn, GiveUp, gateVars, Outcomes
    <3>2. /\ UNCHANGED <<running, pending, idle, panicked>>
          /\ \A b \in Appliers : apply'[b] # "out" <=> apply[b] # "out"
          /\ \A b \in Appliers : apply'[b] = "fn" => apply[b] = "fn" \/ idle = "closed"
      BY <2>6 DEF Recheck, RunFn, GiveUp, gateVars
    <3> QED
      BY <2>1, <3>1, <3>2
  <2>7. CASE FnReturns(a)
    BY <2>1, <2>7 DEF FnReturns, gateVars, Outcomes
  <2>8. CASE EndApply(a)
    <3>1. \A b \in Appliers : apply'[b] = "out"
      BY <2>8 DEF EndApply
    <3>2. TypeOK'
      BY <2>8 DEF EndApply
    <3>3. pending /\ ~pending' /\ running' = running /\ ~panicked'
      BY <2>8 DEF EndApply
    <3> QED
      BY <2>1, <3>1, <3>2, <3>3
  <2> QED
    BY <1>5, <2>2, <2>3, <2>4, <2>5, <2>6, <2>7, <2>8
<1>6. CASE UNCHANGED vars
  BY <1>6 DEF vars, InFlight
<1> QED
  BY <1>2, <1>3, <1>4, <1>5, <1>6 DEF Next

\* The invariant every other theorem of this module rests on.
THEOREM GateIndInvariant == Spec => []GateInv
  BY GateInitInv, GateStepInv, PTL DEF Spec

\* Type correctness, with the idle channel present exactly while pending.
THEOREM GateTypeCorrect == Spec => []TypeOK
<1>1. GateInv => TypeOK
  BY DEF GateInv
<1> QED
  BY <1>1, GateIndInvariant, PTL

-----------------------------------------------------------------------------
\* No plugin change runs while any task executes, and no two overlap.
THEOREM Exclusion == Spec => []NoApplyWhileExecuting
<1>1. GateInv => NoApplyWhileExecuting
  BY InFlightFinite
  DEF GateInv, TypeOK, CountsTokens, OneApplier, ClosedAtBoundary, NoApplyWhileExecuting
<1> QED
  BY <1>1, GateIndInvariant, PTL

\* None of the gate's panics can be reached.
THEOREM GatePanicFree == Spec => []NoPanic
<1>1. GateInv => NoPanic
  BY DEF GateInv, NoPanic
<1> QED
  BY <1>1, GateIndInvariant, PTL

\* A deadline that lands together with the last end does not lose the boundary.
THEOREM BoundaryNotLost == Spec => GivesUpOnlyWhileBusy
<1> DEFINE Lost(a) == apply[a] = "recheck" /\ apply'[a] = "end" /\ ctx[a] # "cancelled"
<1>1. GateInv /\ [Next]_vars => \A a \in Appliers : Lost(a) => InFlight # {}
  <2> SUFFICES ASSUME GateInv, [Next]_vars, NEW a \in Appliers, Lost(a)
               PROVE  InFlight # {}
    OBVIOUS
  <2> USE DEF GateInv, TypeOK, OneApplier
  <2>1. Recheck(a)
    BY DEF Next, Begin, BeginChild, TakeToken, Finish, Retire, BeginApply, Expire,
           Cancel, Select, Recheck, RunFn, GiveUp, FnReturns, EndApply,
           applyVars, vars
  <2>2. idle # "closed"
    BY <2>1 DEF Recheck, RunFn
  <2>3. running # 0
    BY <2>2 DEF ClosedAtBoundary
  <2> QED
    BY <2>3, InFlightFinite DEF CountsTokens
<1> QED
  BY <1>1, GateIndInvariant, PTL DEF Spec, GivesUpOnlyWhileBusy

-----------------------------------------------------------------------------
(* Refinement *)

\* The gate at its start is the boundary at its start.
LEMMA RefinesInit == Init => B!Init
  BY DEF Init, B!Init, InFlight

\* Each step of the gate is a step of the boundary, or none.
LEMMA RefinesStep == GateInv /\ [Next]_vars => [B!Next]_B!vars
<1> SUFFICES ASSUME GateInv, [Next]_vars PROVE [B!Next]_B!vars
  OBVIOUS
<1> USE DEF GateInv, TypeOK
<1> DEFINE Converging == {a \in Appliers : apply[a] = "fn"}
<1>1. InFlight # {} => Converging = {}
  BY InFlightFinite DEF CountsTokens, OneApplier, ClosedAtBoundary
<1>2. ~pending => Converging = {}
  BY DEF OneApplier
<1>3. ASSUME NEW w \in Workers, Begin(w) \/ BeginChild(w)
      PROVE  [B!Next]_B!vars
  <2>1. CASE panicked' = TRUE /\ BeginChild(w) /\ running = 0
    BY <2>1, InFlightFinite DEF BeginChild, CountsTokens
  <2>2. CASE TakeToken(w) /\ UNCHANGED applyVars
    <3>1. InFlight' = InFlight \cup {w} /\ w \notin InFlight
      BY <1>3, <2>2 DEF Begin, BeginChild, TakeToken, InFlight
    <3>2. Converging = {} /\ Converging' = Converging
      BY <1>1, <1>2, <1>3, <2>2 DEF Begin, BeginChild, applyVars
    <3>3. B!Enter(w)
      BY <3>1, <3>2 DEF B!Enter
    <3> QED
      BY <3>3 DEF B!Next
  <2> QED
    BY <1>3, <2>1, <2>2 DEF Begin, BeginChild
<1>4. ASSUME NEW w \in Workers, Finish(w)
      PROVE  [B!Next]_B!vars
  <2>1. InFlight' = InFlight \ {w} /\ w \in InFlight
    BY <1>4 DEF Finish, Retire, InFlight
  <2>2. Converging' = Converging
    BY <1>4 DEF Finish, Retire, applyVars
  <2>3. B!Leave(w)
    BY <2>1, <2>2 DEF B!Leave
  <2> QED
    BY <2>3 DEF B!Next
<1>5. ASSUME NEW a \in Appliers, Recheck(a)
      PROVE  [B!Next]_B!vars
  <2>1. InFlight' = InFlight
    BY <1>5 DEF Recheck, InFlight
  <2>2. CASE RunFn(a)
    <3>1. InFlight = {} /\ Converging = {} /\ Converging' = {a}
      BY <1>5, <2>2, InFlightFinite
      DEF Recheck, RunFn, GiveUp, OneApplier, ClosedAtBoundary, CountsTokens
    <3>2. B!StartChange(a)
      BY <2>1, <3>1 DEF B!StartChange
    <3> QED
      BY <3>2 DEF B!Next
  <2>3. CASE GiveUp(a, "end")
    <3>1. Converging' = Converging
      BY <1>5, <2>3 DEF Recheck, GiveUp
    <3> QED
      BY <2>1, <3>1 DEF B!vars
  <2> QED
    BY <1>5, <2>2, <2>3 DEF Recheck
<1>6. ASSUME NEW a \in Appliers, FnReturns(a)
      PROVE  [B!Next]_B!vars
  <2>1. InFlight' = InFlight
    BY <1>6 DEF FnReturns, InFlight
  <2>2. a \in Converging /\ Converging' = Converging \ {a}
    BY <1>6 DEF FnReturns
  <2>3. B!FinishChange(a)
    BY <2>1, <2>2 DEF B!FinishChange
  <2> QED
    BY <2>3 DEF B!Next
<1>7. ASSUME NEW a \in Appliers,
             BeginApply(a) \/ Expire(a) \/ Cancel(a) \/ Select(a) \/ EndApply(a)
      PROVE  [B!Next]_B!vars
  <2>1. InFlight' = InFlight /\ Converging' = Converging
    BY <1>7 DEF BeginApply, Expire, Cancel, Select, EndApply, InFlight
  <2> QED
    BY <2>1 DEF B!vars
<1>8. CASE UNCHANGED vars
  BY <1>8 DEF vars, B!vars, InFlight
<1> QED
  BY <1>3, <1>4, <1>5, <1>6, <1>7, <1>8 DEF Next

\* The gate implements the exclusion stated in module Boundary.
THEOREM Refinement == Spec => ImplementsBoundary
  BY RefinesInit, RefinesStep, GateIndInvariant, PTL DEF Spec, ImplementsBoundary, B!Spec

-----------------------------------------------------------------------------
(* The report of a call *)

\* What a call will report follows fn: nothing is reported before it runs, and
\* a call that waits or gives up has not run it.
Reported ==
  \A a \in Appliers :
    /\ apply[a] \in {"select", "recheck"} => ~ranFn[a] /\ outcome[a] = "none"
    /\ apply[a] = "fn" => ranFn[a] /\ outcome[a] = "none"

LEMMA StepReported == TypeOK /\ Reported /\ TruthfulOutcome /\ [Next]_vars => Reported' /\ TruthfulOutcome'
<1> SUFFICES ASSUME TypeOK, Reported, TruthfulOutcome, [Next]_vars
             PROVE  Reported' /\ TruthfulOutcome'
  OBVIOUS
<1> USE DEF TypeOK, Reported, TruthfulOutcome
<1>1. CASE \E w \in Workers : Begin(w) \/ BeginChild(w) \/ Finish(w)
  BY <1>1 DEF Begin, BeginChild, Finish, Retire, applyVars
<1>2. ASSUME NEW a \in Appliers, BeginApply(a)
      PROVE  Reported' /\ TruthfulOutcome'
  BY <1>2 DEF BeginApply
<1>3. ASSUME NEW a \in Appliers, Expire(a) \/ Cancel(a) \/ Select(a)
      PROVE  Reported' /\ TruthfulOutcome'
  BY <1>3 DEF Expire, Cancel, Select
<1>4. ASSUME NEW a \in Appliers, Recheck(a)
      PROVE  Reported' /\ TruthfulOutcome'
  BY <1>4 DEF Recheck, RunFn, GiveUp
<1>5. ASSUME NEW a \in Appliers, FnReturns(a) \/ EndApply(a)
      PROVE  Reported' /\ TruthfulOutcome'
  BY <1>5 DEF FnReturns, EndApply
<1>6. CASE UNCHANGED vars
  BY <1>6 DEF vars
<1> QED
  BY <1>1, <1>2, <1>3, <1>4, <1>5, <1>6 DEF Next

\* A call that reports that nothing was applied ran no fn, and one that reports
\* fn's result ran it.
THEOREM Truthful == Spec => []TruthfulOutcome
<1>1. Init => Reported /\ TruthfulOutcome
  BY DEF Init, Reported, TruthfulOutcome
<1> QED
  BY <1>1, StepReported, GateTypeCorrect, PTL DEF Spec

\* The gate's whole safety: types, exclusion, no panic, true reports, and no
\* boundary lost to a deadline.
THEOREM GateIsSafe == Spec => GateSafe
<1>1. Spec => [](TypeOK /\ NoApplyWhileExecuting /\ NoPanic /\ TruthfulOutcome)
  BY GateTypeCorrect, Exclusion, GatePanicFree, Truthful, PTL
<1> QED
  BY <1>1, BoundaryNotLost DEF GateSafe

-----------------------------------------------------------------------------
(* The inductive invariant: pointers agree with the table, distinct sessions *)
(* have distinct entries, and an entry's token says whether it has a holder. *)

Separate ==
  \A s, t \in Sessions : locks[s] # Nil /\ locks[s] = locks[t] => s = t

Counted ==
  \A s \in Sessions : locks[s] # Nil => refs[locks[s]] = Cardinality(Users(s))

TokenTells ==
  \A r \in Runs : pc[r] = "holding" => full[entry[r]]

LockInv ==
  /\ LockTypeOK
  /\ NoOrphanedEntry
  /\ \A r \in Runs : Using(r) => entry[r] # Nil
  /\ Separate
  /\ Counted
  /\ TokenTells
  /\ OneRunPerSession
  /\ ~lockPanicked

-----------------------------------------------------------------------------
(* Counting users *)

\* A session's users are finitely many.
LEMMA UsersFinite ==
  ASSUME NEW s \in Sessions
  PROVE  /\ IsFiniteSet(Users(s))
         /\ Cardinality(Users(s)) \in Nat
         /\ Cardinality(Users(s)) = 0 <=> Users(s) = {}
<1>1. IsFiniteSet(Users(s))
  BY RunsAssumption, FS_Subset DEF Users
<1> QED
  BY <1>1, FS_CardinalityType, FS_EmptySet

\* A run that enters adds one user to its own session and none to another.
LEMMA EnteringCounts ==
  ASSUME NEW r \in Runs, NEW s \in Sessions, pc \in [Runs -> Phases],
         pc[r] = "idle", pc' = [pc EXCEPT ![r] = "waiting"]
  PROVE  Cardinality(Users(s)') =
           IF s = SessionOf[r] THEN Cardinality(Users(s)) + 1 ELSE Cardinality(Users(s))
<1>1. CASE s = SessionOf[r]
  <2>1. Users(s)' = Users(s) \cup {r} /\ r \notin Users(s)
    BY <1>1 DEF Users, Using
  <2> QED
    BY <1>1, <2>1, UsersFinite, FS_AddElement
<1>2. CASE s # SessionOf[r]
  <2>1. Users(s)' = Users(s)
    BY <1>2 DEF Users, Using
  <2> QED
    BY <1>2, <2>1
<1> QED
  BY <1>1, <1>2

\* A run that leaves takes one user off its own session and none off another.
LEMMA LeavingCounts ==
  ASSUME NEW r \in Runs, NEW s \in Sessions, pc \in [Runs -> Phases],
         pc[r] = "leaving", pc' = [pc EXCEPT ![r] = "idle"]
  PROVE  Cardinality(Users(s)') =
           IF s = SessionOf[r] THEN Cardinality(Users(s)) - 1 ELSE Cardinality(Users(s))
<1>1. CASE s = SessionOf[r]
  <2>1. Users(s)' = Users(s) \ {r} /\ r \in Users(s)
    BY <1>1 DEF Users, Using
  <2> QED
    BY <1>1, <2>1, UsersFinite, FS_RemoveElement
<1>2. CASE s # SessionOf[r]
  <2>1. Users(s)' = Users(s)
    BY <1>2 DEF Users, Using
  <2> QED
    BY <1>2, <2>1
<1> QED
  BY <1>1, <1>2

\* A step between two in-use control points changes no session's users.
LEMMA StayingCounts ==
  ASSUME NEW r \in Runs, NEW s \in Sessions, NEW p, pc \in [Runs -> Phases],
         pc[r] # "idle", p # "idle", pc' = [pc EXCEPT ![r] = p]
  PROVE  Users(s)' = Users(s)
  BY DEF Users, Using

-----------------------------------------------------------------------------
\* No run, no entry.
LEMMA LockInitInv == LockInit => LockInv
<1> SUFFICES ASSUME LockInit PROVE LockInv
  OBVIOUS
<1>1. LockTypeOK
  BY RunsAssumption DEF LockInit, LockTypeOK, Phases
<1>2. NoOrphanedEntry /\ TokenTells /\ OneRunPerSession /\ \A r \in Runs : Using(r) => entry[r] # Nil
  BY DEF LockInit, NoOrphanedEntry, TokenTells, OneRunPerSession, Using
<1>3. Separate /\ Counted /\ ~lockPanicked
  <2>1. \A s \in Sessions : locks[s] = Nil
    BY DEF LockInit
  <2>2. Separate
    BY <2>1 DEF Separate
  <2>3. Counted
    BY <2>1 DEF Counted
  <2>4. ~lockPanicked
    BY DEF LockInit
  <2> QED
    BY <2>2, <2>3, <2>4
<1> QED
  BY <1>1, <1>2, <1>3 DEF LockInv

\* Each step of a run keeps the table, the entries and the counts in line.
LEMMA LockStepInv == LockInv /\ [LockNext]_lockVars => LockInv'
<1> SUFFICES ASSUME LockInv, [LockNext]_lockVars PROVE LockInv'
  OBVIOUS
<1> USE RunsAssumption DEF LockInv, LockTypeOK, Using, Phases
<1>0. pc \in [Runs -> Phases]
  OBVIOUS
<1>1. ASSUME NEW r \in Runs, Register(r)
      PROVE  LockInv'
  <2> DEFINE s == SessionOf[r]
  <2>0. /\ s \in Sessions
        /\ pc[r] = "idle"
        /\ pc' = [pc EXCEPT ![r] = "waiting"]
        /\ UNCHANGED lockPanicked
    BY <1>1 DEF Register, RegisterCounting
  <2>1. \A t \in Sessions : Cardinality(Users(t)') =
           IF t = s THEN Cardinality(Users(t)) + 1 ELSE Cardinality(Users(t))
    BY <1>0, <2>0, EnteringCounts
  <2>2. CASE /\ locks[s] # Nil
             /\ entry' = [entry EXCEPT ![r] = locks[s]]
             /\ refs' = [refs EXCEPT ![locks[s]] = @ + 1]
             /\ UNCHANGED <<locks, full>>
    <3>1. LockTypeOK'
      BY <2>0, <2>2
    <3>2. NoOrphanedEntry' /\ TokenTells' /\ OneRunPerSession'
      BY <2>0, <2>2 DEF NoOrphanedEntry, TokenTells, OneRunPerSession
    <3>3. Counted' /\ Separate'
      BY <2>0, <2>1, <2>2, UsersFinite DEF Counted, Separate
    <3> QED
      BY <2>0, <2>2, <3>1, <3>2, <3>3
  <2>3. ASSUME NEW e \in Entries, locks[s] = Nil, Unreferenced(e),
               locks' = [locks EXCEPT ![s] = e],
               entry' = [entry EXCEPT ![r] = e],
               refs' = [refs EXCEPT ![e] = 1],
               full' = [full EXCEPT ![e] = FALSE]
        PROVE  LockInv'
    <3>0. e # Nil
      OBVIOUS
    <3>1. LockTypeOK'
      BY <2>0, <2>3, <3>0 DEF Unreferenced
    <3>2. Users(s) = {}
      BY <2>0, <2>3 DEF NoOrphanedEntry, Users
    <3>3. NoOrphanedEntry'
      BY <2>0, <2>3, <3>2 DEF NoOrphanedEntry, Users
    <3>4. Separate'
      BY <2>0, <2>3 DEF Separate, Unreferenced
    <3>5. Counted'
      <4>1. Cardinality(Users(s)') = 1
        <5>1. Cardinality(Users(s)) = 0
          BY <3>2, FS_EmptySet
        <5>2. Cardinality(Users(s)') = Cardinality(Users(s)) + 1
          BY <2>0, <2>1
        <5> QED
          BY <5>1, <5>2
      <4>2. \A t \in Sessions : t # s => locks'[t] = locks[t] /\ (locks[t] # Nil => locks[t] # e)
        <5>1. ASSUME NEW t \in Sessions, t # s PROVE locks'[t] = locks[t]
          BY <2>0, <2>3, <5>1
        <5>2. ASSUME NEW t \in Sessions PROVE locks[t] # e
          BY <2>3 DEF Unreferenced
        <5> QED
          BY <5>1, <5>2
      <4> QED
        <5> SUFFICES ASSUME NEW t \in Sessions, locks'[t] # Nil
                     PROVE  refs'[locks'[t]] = Cardinality(Users(t)')
          BY DEF Counted
        <5>1. CASE t = s
          BY <2>0, <2>3, <4>1, <5>1
        <5>2. CASE t # s
          BY <2>0, <2>1, <2>3, <4>2, <5>2 DEF Counted
        <5> QED
          BY <5>1, <5>2
    <3>6. TokenTells' /\ OneRunPerSession'
      BY <2>0, <2>3 DEF TokenTells, OneRunPerSession, Unreferenced
    <3> QED
      BY <2>0, <2>3, <3>0, <3>1, <3>3, <3>4, <3>5, <3>6
  <2> QED
    BY <1>1, <2>2, <2>3 DEF Register, RegisterCounting
<1>2. ASSUME NEW r \in Runs, Acquire(r)
      PROVE  LockInv'
  <2>1. \A t \in Sessions : Users(t)' = Users(t)
    BY <1>0, <1>2, StayingCounts DEF Acquire
  <2>2. LockTypeOK' /\ NoOrphanedEntry' /\ TokenTells'
    BY <1>2 DEF Acquire, NoOrphanedEntry, TokenTells
  <2>3. Counted' /\ Separate'
    BY <1>2, <2>1 DEF Acquire, Counted, Separate
  <2>4. OneRunPerSession'
    <3>1. \A q \in Runs : SessionOf[q] = SessionOf[r] => pc[q] # "holding"
      BY <1>2 DEF Acquire, NoOrphanedEntry, TokenTells
    <3> QED
      BY <1>2, <3>1 DEF Acquire, OneRunPerSession
  <2> QED
    BY <1>2, <2>2, <2>3, <2>4 DEF Acquire
<1>3. ASSUME NEW r \in Runs, CancelWait(r)
      PROVE  LockInv'
  <2>1. \A t \in Sessions : Users(t)' = Users(t)
    BY <1>0, <1>3, StayingCounts DEF CancelWait
  <2> QED
    BY <1>3, <2>1 DEF CancelWait, NoOrphanedEntry, Separate, Counted, TokenTells, OneRunPerSession
<1>4. ASSUME NEW r \in Runs, Release(r)
      PROVE  LockInv'
  <2>1. \A t \in Sessions : Users(t)' = Users(t)
    BY <1>0, <1>4, StayingCounts DEF Release, ReleaseTo
  <2>2. LockTypeOK' /\ NoOrphanedEntry' /\ OneRunPerSession'
    BY <1>4 DEF Release, ReleaseTo, NoOrphanedEntry, OneRunPerSession
  <2>3. Counted' /\ Separate'
    BY <1>4, <2>1 DEF Release, ReleaseTo, Counted, Separate
  <2>4. TokenTells'
    <3>1. ASSUME NEW q \in Runs, q # r, pc[q] = "holding"
          PROVE  entry[q] # entry[r]
      BY <1>4, <3>1 DEF Release, ReleaseTo, NoOrphanedEntry, OneRunPerSession, Separate
    <3> QED
      BY <1>4, <3>1 DEF Release, ReleaseTo, TokenTells
  <2> QED
    BY <1>4, <2>2, <2>3, <2>4 DEF Release, ReleaseTo
<1>5. ASSUME NEW r \in Runs, Drop(r)
      PROVE  LockInv'
  <2> DEFINE s == SessionOf[r]
             e == locks[s]
  <2>0. s \in Sessions /\ pc[r] = "leaving" /\ pc' = [pc EXCEPT ![r] = "idle"]
    BY <1>5 DEF Drop, DropWhen
  <2>1. \A t \in Sessions : Cardinality(Users(t)') =
           IF t = s THEN Cardinality(Users(t)) - 1 ELSE Cardinality(Users(t))
    BY <1>0, <2>0, LeavingCounts
  <2>2. e \in Entries /\ e # Nil /\ refs[e] > 0
    BY <2>0 DEF NoOrphanedEntry
  <2>3. /\ entry' = [entry EXCEPT ![r] = Nil]
        /\ refs' = [refs EXCEPT ![e] = @ - 1]
        /\ locks' = IF refs[e] = 1 THEN [locks EXCEPT ![s] = Nil] ELSE locks
        /\ UNCHANGED <<full, lockPanicked>>
    BY <1>5, <2>2 DEF Drop, DropWhen
  <2>4. \A t \in Sessions : t # s /\ locks[t] # Nil => locks[t] # e
    BY <2>0, <2>2 DEF Separate
  <2>5. LockTypeOK'
    BY <2>0, <2>2, <2>3, <2>4
  <2>6. Separate' /\ TokenTells' /\ OneRunPerSession'
    BY <2>0, <2>3 DEF Separate, TokenTells, OneRunPerSession
  <2>7. Counted'
    BY <2>0, <2>1, <2>2, <2>3, <2>4 DEF Counted
  <2>8. refs[e] = 1 => \A q \in Runs : q # r /\ Using(q) => SessionOf[q] # s
    <3> SUFFICES ASSUME refs[e] = 1, NEW q \in Runs, q # r, Using(q), SessionOf[q] = s
                 PROVE  FALSE
      OBVIOUS
    <3>1. Cardinality(Users(s)') = 0
      BY <2>0, <2>1, <2>2 DEF Counted
    <3>2. IsFiniteSet(Users(s)')
      BY FS_Subset DEF Users
    <3>3. q \in Users(s)'
      BY <2>0 DEF Users
    <3> QED
      BY <3>1, <3>2, <3>3, FS_EmptySet
  <2>9. NoOrphanedEntry'
    BY <2>0, <2>3, <2>8 DEF NoOrphanedEntry
  <2> QED
    BY <2>0, <2>3, <2>5, <2>6, <2>7, <2>9
<1>6. CASE UNCHANGED lockVars
  BY <1>6 DEF lockVars, NoOrphanedEntry, Separate, Counted, TokenTells, OneRunPerSession, Users
<1> QED
  BY <1>1, <1>2, <1>3, <1>4, <1>5, <1>6 DEF LockNext

\* The invariant the theorems of this module rest on.
THEOREM LockIndInvariant == LockSpec => []LockInv
  BY LockInitInv, LockStepInv, PTL DEF LockSpec

\* At most one task executes on a session.
THEOREM MutualExclusion == LockSpec => []OneRunPerSession
<1>1. LockInv => OneRunPerSession
  BY DEF LockInv
<1> QED
  BY <1>1, LockIndInvariant, PTL

\* No panic of drop is reachable.
THEOREM LockPanicFree == LockSpec => []LockNoPanic
<1>1. LockInv => LockNoPanic
  BY DEF LockInv, LockNoPanic
<1> QED
  BY <1>1, LockIndInvariant, PTL

\* Holders and waiters of a session share the entry that is in the table.
THEOREM SharedEntry == LockSpec => []NoOrphanedEntry
<1>1. LockInv => NoOrphanedEntry
  BY DEF LockInv
<1> QED
  BY <1>1, LockIndInvariant, PTL

\* The table holds an entry exactly while its session is used, with its count.
THEOREM ExactTable == LockSpec => []TableExact
<1>1. LockInv => TableExact
  <2> SUFFICES ASSUME LockInv, NEW s \in Sessions
               PROVE  IF locks[s] = Nil THEN Users(s) = {}
                      ELSE Users(s) # {} /\ refs[locks[s]] = Cardinality(Users(s))
    BY DEF TableExact
  <2>1. CASE locks[s] = Nil
    BY <2>1 DEF LockInv, NoOrphanedEntry, Users
  <2>2. CASE locks[s] # Nil
    BY <2>2, UsersFinite DEF LockInv, LockTypeOK, Counted
  <2> QED
    BY <2>1, <2>2
<1> QED
  BY <1>1, LockIndInvariant, PTL

\* Types, and the bookkeeping of pointers, references and tokens.
THEOREM LockTypeCorrect == LockSpec => []LockTypeOK
<1>1. LockInv => LockTypeOK
  BY DEF LockInv
<1> QED
  BY <1>1, LockIndInvariant, PTL

\* The lock's whole safety.
THEOREM LockIsSafe == LockSpec => LockSafe
  BY LockTypeCorrect, MutualExclusion, LockPanicFree, ExactTable, SharedEntry, PTL DEF LockSafe

-----------------------------------------------------------------------------
(* The service's lifetime.  What an assembly holds follows from how far it   *)
(* has come, so the steps are numbered first.                                *)

AllSteps == <<
  "token", "stores", "curator", "logger", "sink", "sweep",
  "trustlist", "plugins", "remote", "registry",
  "ledger", "model", "browser", "context",
  "listener", "bases", "checkpoints", "recover", "list", "reconcile",
  "service">>

StepNames == {AllSteps[k] : k \in 1 .. 21}

\* u is s followed by t, of lengths m and n.
Joined(s, t, u, m, n) ==
  /\ u \in Seq(StepNames) /\ Len(u) = m + n
  /\ \A i \in 1 .. m : u[i] = s[i]
  /\ \A i \in m + 1 .. m + n : u[i] = t[i - m]

LEMMA ConcatJoins ==
  ASSUME NEW s \in Seq(StepNames), NEW t \in Seq(StepNames),
         NEW m \in Nat, NEW n \in Nat, Len(s) = m, Len(t) = n
  PROVE  Joined(s, t, s \o t, m, n)
  BY DEF Joined

LEMMA StepIsNamed == \A k \in 1 .. 21 : AllSteps[k] \in StepNames
  BY DEF StepNames

LEMMA OpenIs == OpenSteps \in Seq(StepNames) /\ Len(OpenSteps) = 6
<1>1. Len(OpenSteps) = 6
  BY DEF OpenSteps
<1>2. \A i \in 1 .. 6 : OpenSteps[i] = AllSteps[i + 0]
  BY DEF OpenSteps, AllSteps
<1>3. OpenSteps = [i \in 1 .. 6 |-> OpenSteps[i]]
  BY DEF OpenSteps
<1>4. OpenSteps = [i \in 1 .. 6 |-> AllSteps[i + 0]]
  BY <1>2, <1>3
<1> QED
  BY <1>1, <1>4, StepIsNamed

LEMMA PluginIs == PluginSteps \in Seq(StepNames) /\ Len(PluginSteps) = 4
<1>1. Len(PluginSteps) = 4
  BY DEF PluginSteps
<1>2. \A i \in 1 .. 4 : PluginSteps[i] = AllSteps[i + 6]
  BY DEF PluginSteps, AllSteps
<1>3. PluginSteps = [i \in 1 .. 4 |-> PluginSteps[i]]
  BY DEF PluginSteps
<1>4. PluginSteps = [i \in 1 .. 4 |-> AllSteps[i + 6]]
  BY <1>2, <1>3
<1> QED
  BY <1>1, <1>4, StepIsNamed

LEMMA RunnerIs == RunnerSteps \in Seq(StepNames) /\ Len(RunnerSteps) = 4
<1>1. Len(RunnerSteps) = 4
  BY DEF RunnerSteps
<1>2. \A i \in 1 .. 4 : RunnerSteps[i] = AllSteps[i + 10]
  BY DEF RunnerSteps, AllSteps
<1>3. RunnerSteps = [i \in 1 .. 4 |-> RunnerSteps[i]]
  BY DEF RunnerSteps
<1>4. RunnerSteps = [i \in 1 .. 4 |-> AllSteps[i + 10]]
  BY <1>2, <1>3
<1> QED
  BY <1>1, <1>4, StepIsNamed

LEMMA RecoveryIs == RecoverySteps \in Seq(StepNames) /\ Len(RecoverySteps) = 6
<1>1. Len(RecoverySteps) = 6
  BY DEF RecoverySteps
<1>2. \A i \in 1 .. 6 : RecoverySteps[i] = AllSteps[i + 14]
  BY DEF RecoverySteps, AllSteps
<1>3. RecoverySteps = [i \in 1 .. 6 |-> RecoverySteps[i]]
  BY DEF RecoverySteps
<1>4. RecoverySteps = [i \in 1 .. 6 |-> AllSteps[i + 14]]
  BY <1>2, <1>3
<1> QED
  BY <1>1, <1>4, StepIsNamed

LEMMA ServiceIs == ServiceSteps \in Seq(StepNames) /\ Len(ServiceSteps) = 1
<1>1. Len(ServiceSteps) = 1
  BY DEF ServiceSteps
<1>2. \A i \in 1 .. 1 : ServiceSteps[i] = AllSteps[i + 20]
  BY DEF ServiceSteps, AllSteps
<1>3. ServiceSteps = [i \in 1 .. 1 |-> ServiceSteps[i]]
  BY DEF ServiceSteps
<1>4. ServiceSteps = [i \in 1 .. 1 |-> AllSteps[i + 20]]
  BY <1>2, <1>3
<1> QED
  BY <1>1, <1>4, StepIsNamed


LEMMA StepsBySection ==
  /\ Len(Steps) = 21
  /\ \A i \in 1 .. 6 : Steps[i] = OpenSteps[i]
  /\ \A i \in 7 .. 10 : Steps[i] = PluginSteps[i - 6]
  /\ \A i \in 11 .. 14 : Steps[i] = RunnerSteps[i - 10]
  /\ \A i \in 15 .. 20 : Steps[i] = RecoverySteps[i - 14]
  /\ Steps[21] = ServiceSteps[1]
<1> DEFINE a == OpenSteps \o PluginSteps
           b == a \o RunnerSteps
           c == b \o RecoverySteps
           d == c \o ServiceSteps
<1>0. Steps = d
  BY DEF Steps
<1> HIDE DEF d
<1>1. Joined(OpenSteps, PluginSteps, a, 6, 4)
  BY OpenIs, PluginIs, ConcatJoins
<1>2. Joined(a, RunnerSteps, b, 10, 4)
  <2>1. a \in Seq(StepNames) /\ Len(a) = 10
    BY <1>1 DEF Joined
  <2> HIDE DEF a
  <2> QED
    BY <2>1, RunnerIs, ConcatJoins
<1>3. Joined(b, RecoverySteps, c, 14, 6)
  <2>1. b \in Seq(StepNames) /\ Len(b) = 14
    BY <1>2 DEF Joined
  <2> HIDE DEF b
  <2> QED
    BY <2>1, RecoveryIs, ConcatJoins
<1>4. Joined(c, ServiceSteps, d, 20, 1)
  <2>1. c \in Seq(StepNames) /\ Len(c) = 20
    BY <1>3 DEF Joined
  <2> HIDE DEF c
  <2> QED
    BY <2>1, ServiceIs, ConcatJoins DEF d
<1> HIDE DEF a, b, c
<1>5. Len(Steps) = 21
  BY <1>0, <1>4 DEF Joined
<1>6. \A i \in 1 .. 6 : Steps[i] = OpenSteps[i]
  <2> TAKE i \in 1 .. 6
  <2>1. i \in 1 .. 10 /\ i \in 1 .. 14 /\ i \in 1 .. 20
    OBVIOUS
  <2>2. a[i] = OpenSteps[i] /\ b[i] = a[i] /\ c[i] = b[i] /\ d[i] = c[i]
    BY <2>1, <1>1, <1>2, <1>3, <1>4 DEF Joined
  <2> QED
    BY <1>0, <2>2
<1>7. \A i \in 7 .. 10 : Steps[i] = PluginSteps[i - 6]
  <2> TAKE i \in 7 .. 10
  <2>1. i \in 6 + 1 .. 6 + 4 /\ i \in 1 .. 10 /\ i \in 1 .. 14 /\ i \in 1 .. 20
    OBVIOUS
  <2>2. a[i] = PluginSteps[i - 6] /\ b[i] = a[i] /\ c[i] = b[i] /\ d[i] = c[i]
    BY <2>1, <1>1, <1>2, <1>3, <1>4 DEF Joined
  <2> QED
    BY <1>0, <2>2
<1>8. \A i \in 11 .. 14 : Steps[i] = RunnerSteps[i - 10]
  <2> TAKE i \in 11 .. 14
  <2>1. i \in 10 + 1 .. 10 + 4 /\ i \in 1 .. 14 /\ i \in 1 .. 20
    OBVIOUS
  <2>2. b[i] = RunnerSteps[i - 10] /\ c[i] = b[i] /\ d[i] = c[i]
    BY <2>1, <1>2, <1>3, <1>4 DEF Joined
  <2> QED
    BY <1>0, <2>2
<1>9. \A i \in 15 .. 20 : Steps[i] = RecoverySteps[i - 14]
  <2> TAKE i \in 15 .. 20
  <2>1. i \in 14 + 1 .. 14 + 6 /\ i \in 1 .. 20
    OBVIOUS
  <2>2. c[i] = RecoverySteps[i - 14] /\ d[i] = c[i]
    BY <2>1, <1>3, <1>4 DEF Joined
  <2> QED
    BY <1>0, <2>2
<1>10. Steps[21] = ServiceSteps[1]
  BY <1>0, <1>4 DEF Joined
<1> QED
  BY <1>5, <1>6, <1>7, <1>8, <1>9, <1>10

LEMMA StepIs == ASSUME NEW i \in 1 .. 21 PROVE Steps[i] = AllSteps[i]
  BY StepsBySection DEF AllSteps, OpenSteps, PluginSteps, RunnerSteps, RecoverySteps, ServiceSteps

\* A step is found at its own number.
LEMMA StepAt ==
  ASSUME NEW i \in 1 .. 21
  PROVE  At(Steps[i]) = i
  BY StepsBySection, StepIs DEF At, AllSteps

\* The numbers of the steps that take something.
LEMMA NumberOf ==
  ASSUME NEW i \in 1 .. 21
  PROVE  /\ Steps[i] = "stores" <=> i = 2
         /\ Steps[i] = "plugins" <=> i = 8
         /\ Steps[i] = "browser" <=> i = 13
         /\ Steps[i] = "listener" <=> i = 15
  BY StepIs DEF AllSteps

LEMMA ListenerAt == At("listener") = 15 /\ At("plugins") = 8
  BY StepAt, NumberOf

-----------------------------------------------------------------------------
(* The inductive invariant of the service: what it holds at each step and    *)
(* phase, and that nothing runs that the phase has not started.              *)

TaskWork(t) == work[<<t, "task">>]

ServeTypes ==
  /\ ServeTypeOK
  /\ assemblies \in 0 .. MaxAssemblies
  /\ phase = "assembling" => assemblies \in 1 .. MaxAssemblies
  /\ config \in [plugins : BOOLEAN, browser : BOOLEAN]
  /\ attached \in BOOLEAN /\ live \in BOOLEAN /\ accepts \in BOOLEAN

OneMount == (\A a, b \in mounted : a = b) /\ (mounted # {} => attached)

Running ==
  /\ accepts => phase = "serving"
  /\ ticker # "off" => phase = "serving"
  /\ \A t \in ServeTasks :
       /\ TaskWork(t) = "assigned" => ticker = "ticking"
       /\ TaskWork(t) = "running" => phase \in {"serving", "wait"}

Holding ==
  /\ \/ phase = "assembling" /\ step > 2
     \/ phase \in {"built", "serving"} \cup Closing
     => "store" \in held
  /\ \/ phase = "assembling" /\ step > 13
     \/ phase \in {"built", "serving", "wait", "drain", "browser"}
     => (config.browser => "browser" \in held)
  /\ phase = "assembling" /\ "listener" \in held => step > 15
  /\ CleanedUp

ServeInv == ServeTypes /\ OneMount /\ Running /\ Holding

LEMMA StepsLength == Len(Steps) = 21
  BY StepsBySection

LEMMA ServeInitInv == ServeInit => ServeInv
<1> SUFFICES ASSUME ServeInit PROVE ServeInv
  OBVIOUS
<1> USE DEF ServeInit
<1>1. ServeTypes
  <2>1. step \in 1 .. Len(Steps) /\ assemblies \in 0 .. MaxAssemblies
    BY ServeAssumption, StepsLength
  <2>2. work \in [Work -> {"none", "assigned", "running", "done"}]
        /\ episode \in [Work -> {"none", "running"}]
    BY DEF Off
  <2> QED
    BY <2>1, <2>2 DEF ServeTypes, ServeTypeOK
<1>2. OneMount
  BY DEF OneMount
<1>3. Running
  BY DEF Running, TaskWork, Off, Work
<1>4. Holding
  BY DEF Holding, Closing, CleanedUp
<1> QED
  BY <1>1, <1>2, <1>3, <1>4 DEF ServeInv

\* The steps of the service, by what they touch.
Ticking == TickStart \/ TickEnd \/ TickerStops
Working ==
  \/ \E t \in ServeTasks : NextTask(t) \/ Dispatch(t) \/ Delegate(t)
  \/ \E w \in Work : WorkEnds(w) \/ RecordEpisode(w)
Handling == \E h \in Handlers : HandlerEnters(h) \/ HandlerReturns(h)
Lifetime == Start \/ CancelContext \/ shutdownHTTPServer \/ StartReturns

LEMMA ServeCases ==
  ASSUME [ServeNext]_serveVars
  PROVE  \/ BuildServeService \/ StepDone \/ StepFails
         \/ Lifetime \/ Ticking \/ Working \/ Handling \/ CloseNext
         \/ UNCHANGED serveVars
  BY DEF ServeNext, Lifetime, Ticking, Working, Handling

LEMMA StepServeTypes ==
  ASSUME ServeInv, [ServeNext]_serveVars
  PROVE  ServeTypes'
<1> USE DEF ServeInv, ServeTypes, ServeTypeOK
<1>1. CASE BuildServeService
  BY <1>1, ServeAssumption, StepsLength DEF BuildServeService
<1>2. CASE StepDone
  <2> DEFINE s == Steps[step]
  <2>1. held' \subseteq Resources
    BY <1>2 DEF StepDone, Takes, Resources
  <2>2. attached' \in BOOLEAN /\ mounted' \subseteq 1 .. MaxAssemblies
    BY <1>2 DEF StepDone, SetPlugins
  <2>3. /\ phase' \in {"built", "assembling"}
        /\ step' \in 1 .. Len(Steps)
    BY <1>2, StepsLength DEF StepDone
  <2>4. UNCHANGED <<config, assemblies, live, ticker, accepts, inside, work, episode>>
        /\ phase = "assembling"
    BY <1>2 DEF StepDone, runVars
  <2> QED
    BY <2>1, <2>2, <2>3, <2>4
<1>3. CASE StepFails
  <2>1. held' \subseteq Resources
    BY <1>3 DEF StepFails
  <2>2. attached' \in BOOLEAN /\ mounted' \subseteq 1 .. MaxAssemblies
    BY <1>3 DEF StepFails, drainPlugins, ClearPlugins
  <2>3. phase' = "down" /\ step' \in 1 .. Len(Steps)
    BY <1>3, StepsLength DEF StepFails
  <2>4. UNCHANGED <<config, assemblies, live, ticker, accepts, inside, work, episode>>
    BY <1>3 DEF StepFails, runVars
  <2> QED
    BY <2>1, <2>2, <2>3, <2>4
<1>4. CASE Lifetime
  BY <1>4 DEF Lifetime, Start, CancelContext, shutdownHTTPServer, StartReturns,
       assemblyVars, runVars, Closing
<1>5. CASE Ticking
  BY <1>5 DEF Ticking, TickStart, TickEnd, TickerStops, assemblyVars
<1>6. CASE Working
  <2>1. UNCHANGED <<phase, assemblyVars, live, ticker, accepts, inside>>
    BY <1>6 DEF Working, NextTask, Dispatch, Delegate, WorkEnds, RecordEpisode
  <2>2. work' \in [Work -> {"none", "assigned", "running", "done"}]
    BY <1>6 DEF Working, NextTask, Dispatch, Delegate, WorkEnds, RecordEpisode
  <2>3. episode' \in [Work -> {"none", "running"}]
    BY <1>6 DEF Working, NextTask, Dispatch, Delegate, WorkEnds, RecordEpisode
  <2> QED
    BY <2>1, <2>2, <2>3 DEF assemblyVars
<1>7. CASE Handling
  BY <1>7 DEF Handling, HandlerEnters, HandlerReturns, assemblyVars
<1>8. CASE CloseNext
  <2>1. CASE Wait
    BY <2>1 DEF Wait, assemblyVars, runVars, Closing
  <2>2. CASE Drain
    BY <2>2 DEF Drain, drainPlugins, ClearPlugins, runVars, Closing
  <2>3. CASE CloseBrowser
    BY <2>3 DEF CloseBrowser, runVars, Closing
  <2>4. CASE CloseBus
    BY <2>4 DEF CloseBus, assemblyVars, runVars, Closing
  <2>5. CASE CloseStore
    BY <2>5 DEF CloseStore, runVars, Closing
  <2> QED
    BY <1>8, <2>1, <2>2, <2>3, <2>4, <2>5 DEF CloseNext
<1>9. CASE UNCHANGED serveVars
  BY <1>9 DEF serveVars, assemblyVars, runVars
<1> QED
  BY <1>1, <1>2, <1>3, <1>4, <1>5, <1>6, <1>7, <1>8, <1>9, ServeCases

\* Only the step that mounts adds a mount, and only where no loader is attached.
LEMMA StepOneMount ==
  ASSUME ServeInv, [ServeNext]_serveVars
  PROVE  OneMount'
<1> USE DEF ServeInv, OneMount
<1>1. CASE BuildServeService
  BY <1>1 DEF BuildServeService
<1>2. CASE StepDone
  BY <1>2 DEF StepDone, SetPlugins
<1>3. CASE StepFails
  BY <1>3 DEF StepFails, drainPlugins, ClearPlugins
<1>4. CASE Lifetime
  BY <1>4 DEF Lifetime, Start, CancelContext, shutdownHTTPServer, StartReturns, assemblyVars
<1>5. CASE Ticking
  BY <1>5 DEF Ticking, TickStart, TickEnd, TickerStops, assemblyVars
<1>6. CASE Working
  BY <1>6 DEF Working, NextTask, Dispatch, Delegate, WorkEnds, RecordEpisode, assemblyVars
<1>7. CASE Handling
  BY <1>7 DEF Handling, HandlerEnters, HandlerReturns, assemblyVars
<1>8. CASE CloseNext
  BY <1>8 DEF CloseNext, Wait, Drain, CloseBrowser, CloseBus, CloseStore, drainPlugins,
       ClearPlugins, assemblyVars
<1>9. CASE UNCHANGED serveVars
  BY <1>9 DEF serveVars, assemblyVars
<1> QED
  BY <1>1, <1>2, <1>3, <1>4, <1>5, <1>6, <1>7, <1>8, <1>9, ServeCases

\* What runs was started in a phase that is not over.
LEMMA StepRunning ==
  ASSUME ServeInv, [ServeNext]_serveVars
  PROVE  Running'
<1> USE DEF ServeInv, ServeTypes, ServeTypeOK, Running, TaskWork
<1>0. \A t \in ServeTasks : <<t, "task">> \in Work
  BY DEF Work
<1>1. CASE BuildServeService
  <2>1. ticker = "off" /\ ~accepts /\ ticker' = "off" /\ ~accepts'
    BY <1>1 DEF BuildServeService
  <2>2. \A t \in ServeTasks : work'[<<t, "task">>] = "none"
    BY <1>0, <1>1, <2>1 DEF BuildServeService
  <2> QED
    BY <2>1, <2>2
<1>2. CASE StepDone
  BY <1>2 DEF StepDone, runVars
<1>3. CASE StepFails
  BY <1>3 DEF StepFails, runVars
<1>4. CASE Lifetime
  BY <1>4 DEF Lifetime, Start, CancelContext, shutdownHTTPServer, StartReturns, assemblyVars, runVars
<1>5. CASE Ticking
  BY <1>5 DEF Ticking, TickStart, TickEnd, TickerStops, assemblyVars
<1>6. CASE Working
  <2>1. UNCHANGED <<phase, ticker, accepts>>
    BY <1>6 DEF Working, NextTask, Dispatch, Delegate, WorkEnds, RecordEpisode
  <2>2. ASSUME NEW t \in ServeTasks, work'[<<t, "task">>] # work[<<t, "task">>]
        PROVE  \/ work'[<<t, "task">>] \in {"assigned", "running"} /\ ticker = "ticking"
               \/ work'[<<t, "task">>] = "done"
    <3>1. CASE \E u \in ServeTasks : NextTask(u) \/ Dispatch(u)
      BY <1>0, <2>2, <3>1 DEF NextTask, Dispatch
    <3>2. CASE \E u \in ServeTasks : Delegate(u)
      BY <1>0, <2>2, <3>2 DEF Delegate, Work
    <3>3. CASE \E w \in Work : WorkEnds(w) \/ RecordEpisode(w)
      BY <1>0, <2>2, <3>3 DEF WorkEnds, RecordEpisode
    <3> QED
      BY <1>6, <3>1, <3>2, <3>3 DEF Working
  <2> QED
    BY <2>1, <2>2
<1>7. CASE Handling
  BY <1>7 DEF Handling, HandlerEnters, HandlerReturns, assemblyVars
<1>8. CASE CloseNext
  BY <1>8 DEF CloseNext, Wait, Drain, CloseBrowser, CloseBus, CloseStore, assemblyVars, runVars, Closing
<1>9. CASE UNCHANGED serveVars
  BY <1>9 DEF serveVars, assemblyVars, runVars
<1> QED
  BY <1>1, <1>2, <1>3, <1>4, <1>5, <1>6, <1>7, <1>8, <1>9, ServeCases

\* The store and the browser are held from the step that takes them to the phase
\* of Close that gives them back.
LEMMA StepHolding ==
  ASSUME ServeInv, [ServeNext]_serveVars
  PROVE  Holding'
<1> USE DEF ServeInv, Holding, CleanedUp
<1>1. CASE BuildServeService
  BY <1>1 DEF BuildServeService, Closing
<1>2. CASE StepDone
  <2> USE DEF ServeTypes, ServeTypeOK
  <2>0. step \in 1 .. 21
    BY StepsLength
  <2>1. /\ phase = "assembling" /\ config' = config
        /\ held' = held \cup Takes(Steps[step], config)
        /\ \/ step = 21 /\ phase' = "built"
           \/ step # 21 /\ phase' = "assembling" /\ step' = step + 1
    BY <1>2, StepsLength DEF StepDone
  <2>2. step >= 2 => "store" \in held'
    BY <2>0, <2>1, NumberOf DEF Takes
  <2>3. step >= 13 /\ config.browser => "browser" \in held'
    BY <2>0, <2>1, NumberOf DEF Takes
  <2>4. "listener" \in held' => step >= 15
    <3>1. "listener" \in Takes(Steps[step], config) => Steps[step] = "listener"
      BY DEF Takes
    <3>2. "listener" \in held => step > 15
      BY <2>1
    <3>3. Steps[step] = "listener" => step = 15
      BY <2>0, NumberOf
    <3>4. "listener" \in held' =>
          "listener" \in held \/ "listener" \in Takes(Steps[step], config)
      BY <2>1
    <3> QED
      BY <2>0, <3>1, <3>2, <3>3, <3>4
  <2> QED
    BY <2>0, <2>1, <2>2, <2>3, <2>4 DEF Closing
<1>3. CASE StepFails
  <2> USE DEF ServeTypes, ServeTypeOK
  <2>0. step \in 1 .. 21
    BY StepsLength
  <2>1. phase = "assembling" /\ phase' = "down" /\ "store" \notin held'
    BY <1>3 DEF StepFails, GivenBack
  <2>2. "listener" \notin held'
    BY <1>3, <2>0, <2>1, StepAt, ListenerAt DEF StepFails, GivenBack
  <2> QED
    BY <2>1, <2>2 DEF Closing
<1>4. CASE Lifetime
  BY <1>4 DEF Lifetime, Start, CancelContext, shutdownHTTPServer, StartReturns, assemblyVars, Closing, Running
<1>5. CASE Ticking
  BY <1>5 DEF Ticking, TickStart, TickEnd, TickerStops, assemblyVars
<1>6. CASE Working
  BY <1>6 DEF Working, NextTask, Dispatch, Delegate, WorkEnds, RecordEpisode, assemblyVars
<1>7. CASE Handling
  BY <1>7 DEF Handling, HandlerEnters, HandlerReturns, assemblyVars
<1>8. CASE CloseNext
  <2>1. CASE Wait
    BY <2>1 DEF Wait, assemblyVars, Closing
  <2>2. CASE Drain
    BY <2>2 DEF Drain, Closing
  <2>3. CASE CloseBrowser
    BY <2>3 DEF CloseBrowser, Closing
  <2>4. CASE CloseBus
    BY <2>4 DEF CloseBus, assemblyVars, Closing
  <2>5. CASE CloseStore
    BY <2>5 DEF CloseStore, Closing
  <2> QED
    BY <1>8, <2>1, <2>2, <2>3, <2>4, <2>5 DEF CloseNext
<1>9. CASE UNCHANGED serveVars
  BY <1>9 DEF serveVars, assemblyVars
<1> QED
  BY <1>1, <1>2, <1>3, <1>4, <1>5, <1>6, <1>7, <1>8, <1>9, ServeCases

LEMMA ServeInvImplies ==
  ServeInv => ServeTypeOK /\ CleanedUp /\ MountedOnce /\ TasksFinishFirst
<1> SUFFICES ASSUME ServeInv
             PROVE  ServeTypeOK /\ CleanedUp /\ MountedOnce /\ TasksFinishFirst
  OBVIOUS
<1>1. Cardinality(mounted) <= 1
  <2>1. CASE mounted = {}
    BY <2>1, FS_EmptySet
  <2>2. CASE mounted # {}
    <3>1. PICK a : a \in mounted
      BY <2>2
    <3>2. mounted = {a}
      BY <3>1 DEF ServeInv, OneMount
    <3>3. Cardinality({a}) = 1
      BY FS_Singleton
    <3> QED
      BY <3>2, <3>3
  <2> QED
    BY <2>1, <2>2
<1>2. MountedOnce
  BY <1>1 DEF MountedOnce, ServeInv, OneMount
<1>3. TasksFinishFirst
  BY DEF TasksFinishFirst, ServeInv, Running, Holding, TaskWork, Closing
<1> QED
  BY <1>2, <1>3 DEF ServeInv, ServeTypes, Holding

\* Nothing is dispatched in the phases of Close: the ticker is off by then.
LEMMA StepDispatches ==
  ASSUME ServeInv, [ServeNext]_serveVars, phase \in Closing, NEW t \in ServeTasks
  PROVE  work'[<<t, "task">>] # "running" \/ work[<<t, "task">>] = "running"
<1>0. ticker # "ticking" /\ <<t, "task">> \in Work
      /\ work \in [Work -> {"none", "assigned", "running", "done"}]
  BY DEF ServeInv, ServeTypes, ServeTypeOK, Running, Closing, Work
<1>1. CASE Working
  <2>1. CASE \E u \in ServeTasks : NextTask(u) \/ Dispatch(u)
    BY <1>0, <2>1 DEF NextTask, Dispatch
  <2>2. CASE \E u \in ServeTasks : Delegate(u)
    BY <1>0, <2>2 DEF Delegate, Work
  <2>3. CASE \E w \in Work : WorkEnds(w) \/ RecordEpisode(w)
    BY <1>0, <2>3 DEF WorkEnds, RecordEpisode
  <2> QED
    BY <1>1, <2>1, <2>2, <2>3 DEF Working
<1>2. CASE ~Working
  <2>1. UNCHANGED work
    <3>1. ~BuildServeService
      BY DEF BuildServeService, Closing
    <3> QED
      BY <1>2, <3>1, ServeCases DEF StepDone, StepFails, Lifetime, Start, CancelContext,
         shutdownHTTPServer, StartReturns, Ticking, TickStart, TickEnd, TickerStops, Handling,
         HandlerEnters, HandlerReturns, CloseNext, Wait, Drain, CloseBrowser, CloseBus,
         CloseStore, serveVars, assemblyVars, runVars
  <2> QED
    BY <2>1
<1> QED
  BY <1>1, <1>2

LEMMA ServeStepInv == ServeInv /\ [ServeNext]_serveVars => ServeInv'
  BY StepServeTypes, StepOneMount, StepRunning, StepHolding DEF ServeInv

\* The service's lifetime: a failed assembly gives back the store and the port,
\* plugins are mounted by one loader at a time, the store and the browser outlast
\* every task the coordinator dispatched, and Close's wait meets no new one.
THEOREM ServeIsSafe == ServeSpec => ServeSafe
<1>1. ServeInv /\ [ServeNext]_serveVars
      => ((phase \in Closing) => (\A t \in ServeTasks :
            work'[<<t, "task">>] # "running" \/ work[<<t, "task">>] = "running"))
  BY StepDispatches
<1> QED
  BY <1>1, ServeInitInv, ServeStepInv, ServeInvImplies, PTL
     DEF ServeSpec, ServeSafe, NoneAfterReturn

-----------------------------------------------------------------------------
(* The plugin loader.  First a fact about numbers its passes are counted by. *)

LEMMA LeastOf ==
  ASSUME NEW T, T \subseteq Nat, T # {}
  PROVE  \E x \in T : \A y \in T : x <= y
<1> DEFINE R == OpToRel(<, Nat)
<1>1. PICK x \in T : \A y \in T : ~(<<y, x>> \in R)
  <2>1. IsWellFoundedOn(R, Nat)
    BY NatLessThanWellFounded
  <2> HIDE DEF R
  <2> QED
    BY <2>1, WFMin
<1>2. \A a, b \in Nat : a < b => <<a, b>> \in R
  BY DEF OpToRel
<1> HIDE DEF R
<1>3. ASSUME NEW y \in T PROVE x <= y
  <2>1. x \in Nat /\ y \in Nat
    BY <1>1, <1>3
  <2>2. ~(y < x)
    BY <1>1, <1>2, <1>3, <2>1
  <2> QED
    BY <2>1, <2>2
<1> QED
  BY <1>1, <1>3

-----------------------------------------------------------------------------
(* The plugin loader.  What is mounted, or has left the map and is not yet    *)
(* disposed of, decides what the registry and the ledger hold.                *)

Mounts == [Names -> Packages \cup {Absent}]
Contributors == Names \cup {Host}

RightName(inst) == \A n \in Names : inst[n] # Absent => NameOf[inst[n]] = n
SuspendedAreUp(inst, susp) == \A n \in susp : inst[n] # Absent
Serves(inst, susp, n) == n \in Names /\ inst[n] # Absent /\ n \notin susp
Files(inst, susp, reg) == \A n \in Contributors, t \in Tools :
  <<n, t>> \in reg <=> \/ n = Host /\ t \in HostTools
                       \/ Serves(inst, susp, n) /\ t \in ToolsOf[inst[n]]
Owned(inst, led) == \A p \in Packages : p \in led <=> inst[NameOf[p]] = p
Apart(inst, susp) == \A n, k \in Names : Serves(inst, susp, n) /\ Serves(inst, susp, k) =>
  \A t \in ToolsOf[inst[n]] : t \in ToolsOf[inst[k]] => n = k
OffHost(inst) == \A n \in Names : inst[n] # Absent => ToolsOf[inst[n]] \cap HostTools = {}

Shape(inst, susp, reg, led) ==
  /\ inst \in Mounts /\ susp \subseteq Names
  /\ reg \subseteq Contributors \X Tools /\ led \subseteq Packages
  /\ RightName(inst) /\ SuspendedAreUp(inst, susp)
  /\ Files(inst, susp, reg) /\ Owned(inst, led)
  /\ Apart(inst, susp) /\ OffHost(inst)

\* The variables of a convergence among themselves.
Fits(m) == /\ m \in Mount
           /\ Shape(m.inst, m.susp, m.reg, m.led)
           /\ m.fail \cap Up(m) = {} /\ m.unconf \cap Up(m) = {}

LEMMA ToolsAre ==
  ASSUME NEW p \in Packages
  PROVE  /\ ToolsOf[p] \subseteq Tools /\ NameOf[p] \in Names /\ ServicesOf[p] \cap Tools = {}
         /\ p # Absent /\ HostTools \subseteq Tools
BY LoaderAssumption DEF Tools

LEMMA HostIsNoPlugin == Host \notin Names /\ Absent \notin Packages
BY LoaderAssumption

LEMMA TypeOfMount ==
  ASSUME NEW m \in Mount
  PROVE  /\ m.inst \in Mounts /\ m.susp \subseteq Names /\ m.reg \subseteq Contributors \X Tools
         /\ m.led \subseteq Packages /\ m.fail \subseteq Names /\ m.unconf \subseteq Names
         /\ m.note \subseteq Names
         /\ \A n \in Names : m.inst[n] \in Packages \cup {Absent}
BY DEF Mount, Mounts, Contributors

LEMMA FilesAt ==
  ASSUME NEW inst, NEW susp, NEW reg, NEW led, Shape(inst, susp, reg, led), NEW n \in Contributors, NEW t \in Tools
  PROVE  <<n, t>> \in reg <=> \/ n = Host /\ t \in HostTools
                              \/ Serves(inst, susp, n) /\ t \in ToolsOf[inst[n]]
BY DEF Shape, Files

\* No tool has two contributors.
LEMMA ShapeIsOneTool ==
  ASSUME NEW inst, NEW susp, NEW reg, NEW led, Shape(inst, susp, reg, led), NEW e \in reg, NEW f \in reg, e[2] = f[2]
  PROVE  e = f
<1>1. e \in Contributors \X Tools /\ f \in Contributors \X Tools
  BY DEF Shape
<1>2. PICK n \in Contributors, t \in Tools : e = <<n, t>>
  BY <1>1
<1>3. PICK k \in Contributors, u \in Tools : f = <<k, u>>
  BY <1>1
<1>4. t = u
  BY <1>2, <1>3
<1>5. (n = Host /\ t \in HostTools) \/ (Serves(inst, susp, n) /\ t \in ToolsOf[inst[n]])
  <2>1. <<n, t>> \in reg
    BY <1>2
  <2> QED
    BY <1>2, <2>1, FilesAt
<1>6. (k = Host /\ t \in HostTools) \/ (Serves(inst, susp, k) /\ t \in ToolsOf[inst[k]])
  <2>1. <<k, t>> \in reg
    BY <1>3, <1>4
  <2> QED
    BY <1>3, <1>4, <2>1, FilesAt
<1>7. n = k
  <2>1. CASE t \in HostTools
    BY <1>5, <1>6, <2>1 DEF Shape, OffHost, Serves
  <2>2. CASE t \notin HostTools
    <3>1. Serves(inst, susp, n) /\ t \in ToolsOf[inst[n]] /\ Serves(inst, susp, k) /\ t \in ToolsOf[inst[k]]
      BY <1>5, <1>6, <2>2
    <3> QED
      BY <3>1 DEF Shape, Apart, Serves
  <2> QED
    BY <2>1, <2>2
<1> QED
  BY <1>2, <1>3, <1>4, <1>7

\* What plugins filed goes with them.
LEMMA ShapeWithout ==
  ASSUME NEW inst, NEW susp, NEW reg, NEW led, Shape(inst, susp, reg, led), NEW S, S \subseteq Names,
         NEW inst2, inst2 = [n \in Names |-> IF n \in S THEN Absent ELSE inst[n]],
         NEW reg2, reg2 = {e \in reg : e[1] \notin S},
         NEW led2, led2 = led \ {inst[n] : n \in S}
  PROVE  Shape(inst2, susp \ S, reg2, led2)
<1>1. inst2 \in Mounts /\ \A n \in Names : inst2[n] = IF n \in S THEN Absent ELSE inst[n]
  BY DEF Shape, Mounts
<1>2. susp \ S \subseteq Names /\ reg2 \subseteq Contributors \X Tools /\ led2 \subseteq Packages
  BY DEF Shape
<1>3. RightName(inst2)
  BY <1>1 DEF Shape, RightName
<1>4. SuspendedAreUp(inst2, susp \ S)
  BY <1>1 DEF Shape, SuspendedAreUp
<1>5. \A n \in Contributors : Serves(inst2, susp \ S, n) <=> Serves(inst, susp, n) /\ n \notin S
  BY <1>1 DEF Serves
<1>6. Files(inst2, susp \ S, reg2)
  <2> SUFFICES ASSUME NEW n \in Contributors, NEW t \in Tools
               PROVE  <<n, t>> \in reg2 <=> \/ n = Host /\ t \in HostTools
                                            \/ Serves(inst2, susp \ S, n) /\ t \in ToolsOf[inst2[n]]
    BY DEF Files
  <2>1. <<n, t>> \in reg2 <=> <<n, t>> \in reg /\ n \notin S
    OBVIOUS
  <2>2. n = Host => n \notin S
    BY HostIsNoPlugin
  <2>3. <<n, t>> \in reg <=> \/ n = Host /\ t \in HostTools
                             \/ Serves(inst, susp, n) /\ t \in ToolsOf[inst[n]]
    BY DEF Shape, Files
  <2>4. n \notin S /\ n \in Names => inst2[n] = inst[n]
    BY <1>1
  <2>5. Serves(inst, susp, n) => n \in Names
    BY DEF Serves
  <2> QED
    BY <2>1, <2>2, <2>3, <2>4, <2>5, <1>5
<1>7. Owned(inst2, led2)
  <2> SUFFICES ASSUME NEW p \in Packages PROVE p \in led2 <=> inst2[NameOf[p]] = p
    BY DEF Owned
  <2>1. NameOf[p] \in Names /\ p # Absent
    BY ToolsAre
  <2>2. p \in led <=> inst[NameOf[p]] = p
    BY DEF Shape, Owned
  <2>3. p \in led => (p \in {inst[n] : n \in S} <=> NameOf[p] \in S)
    <3>1. ASSUME p \in led, NEW n \in S, p = inst[n] PROVE n = NameOf[p]
      BY <3>1, <2>1 DEF Shape, RightName
    <3> QED
      BY <3>1, <2>2
  <2>4. inst2[NameOf[p]] = IF NameOf[p] \in S THEN Absent ELSE inst[NameOf[p]]
    BY <1>1, <2>1
  <2>5. p \in led2 <=> p \in led /\ ~(p \in {inst[n] : n \in S})
    OBVIOUS
  <2> QED
    BY <2>1, <2>2, <2>3, <2>4, <2>5
<1>8. Apart(inst2, susp \ S)
  <2>1. \A n \in Names : n \in Contributors
    BY DEF Contributors
  <2>2. \A n \in Names : Serves(inst2, susp \ S, n) => inst2[n] = inst[n]
    BY <1>1 DEF Serves
  <2>3. \A n \in Names : Serves(inst2, susp \ S, n) => Serves(inst, susp, n)
    BY <1>5, <2>1
  <2> QED
    BY <2>2, <2>3 DEF Shape, Apart
<1>9. OffHost(inst2)
  BY <1>1 DEF Shape, OffHost
<1> QED
  BY <1>1, <1>2, <1>3, <1>4, <1>6, <1>7, <1>8, <1>9 DEF Shape

\* What a package files when it is mounted: its tools are nobody's.
LEMMA ShapeWith ==
  ASSUME NEW inst, NEW susp, NEW reg, NEW led, Shape(inst, susp, reg, led), NEW p \in Packages,
         inst[NameOf[p]] = Absent, ToolsOf[p] \cap {e[2] : e \in reg} = {},
         NEW inst2, inst2 = [inst EXCEPT ![NameOf[p]] = p],
         NEW reg2, reg2 = reg \cup {NameOf[p]} \X ToolsOf[p]
  PROVE  Shape(inst2, susp \ {NameOf[p]}, reg2, led \cup {p})
<1> DEFINE c == NameOf[p]
<1>a. c \in Names /\ p # Absent /\ c # Host /\ ToolsOf[p] \subseteq Tools /\ HostTools \subseteq Tools
  BY ToolsAre, HostIsNoPlugin
<1>b. Host \in Contributors
  BY DEF Contributors
<1>1. inst2 \in Mounts /\ inst2[c] = p /\ \A n \in Names : n # c => inst2[n] = inst[n]
  BY <1>a DEF Shape, Mounts
<1>2. c \notin susp
  BY DEF Shape, SuspendedAreUp
<1>3. susp \ {c} = susp
  BY <1>2
<1>4. susp \subseteq Names /\ reg2 \subseteq Contributors \X Tools /\ led \cup {p} \subseteq Packages
  BY <1>a DEF Shape, Contributors
<1>5. RightName(inst2)
  BY <1>1 DEF Shape, RightName
<1>6. SuspendedAreUp(inst2, susp)
  BY <1>1, <1>2 DEF Shape, SuspendedAreUp
<1>7. /\ Serves(inst2, susp, c) /\ ~Serves(inst, susp, c)
      /\ \A n \in Contributors : n # c => (Serves(inst2, susp, n) <=> Serves(inst, susp, n))
  BY <1>a, <1>1, <1>2 DEF Serves
<1>8. Files(inst2, susp, reg2)
  <2> SUFFICES ASSUME NEW n \in Contributors, NEW t \in Tools
               PROVE  <<n, t>> \in reg2 <=> \/ n = Host /\ t \in HostTools
                                            \/ Serves(inst2, susp, n) /\ t \in ToolsOf[inst2[n]]
    BY DEF Files
  <2>1. <<n, t>> \in reg <=> \/ n = Host /\ t \in HostTools
                             \/ Serves(inst, susp, n) /\ t \in ToolsOf[inst[n]]
    BY DEF Shape, Files
  <2>2. <<n, t>> \in reg2 <=> <<n, t>> \in reg \/ (n = c /\ t \in ToolsOf[p])
    OBVIOUS
  <2>3. CASE n = c
    BY <2>1, <2>2, <2>3, <1>a, <1>1, <1>7
  <2>4. CASE n # c
    <3>1. Serves(inst, susp, n) => inst2[n] = inst[n]
      BY <2>4, <1>1 DEF Serves
    <3> QED
      BY <2>1, <2>2, <2>4, <3>1, <1>7
  <2> QED
    BY <2>3, <2>4
<1>9. Owned(inst2, led \cup {p})
  <2> SUFFICES ASSUME NEW q \in Packages PROVE q \in led \cup {p} <=> inst2[NameOf[q]] = q
    BY DEF Owned
  <2>1. NameOf[q] \in Names /\ q # Absent
    BY ToolsAre
  <2>2. q \in led <=> inst[NameOf[q]] = q
    BY DEF Shape, Owned
  <2>3. CASE NameOf[q] = c
    BY <2>1, <2>2, <2>3, <1>1
  <2>4. CASE NameOf[q] # c
    BY <2>1, <2>2, <2>4, <1>1
  <2> QED
    BY <2>3, <2>4
<1>10. \A t \in ToolsOf[p] : t \in Tools /\ \A n \in Contributors : <<n, t>> \notin reg
  <2> SUFFICES ASSUME NEW t \in ToolsOf[p], NEW n \in Contributors, <<n, t>> \in reg PROVE FALSE
    BY <1>a
  <2>1. <<n, t>>[2] = t
    OBVIOUS
  <2>2. t \in {e[2] : e \in reg}
    BY <2>1
  <2> QED
    BY <2>2
<1>11. \A t \in ToolsOf[p] : t \notin HostTools /\ \A n \in Names : Serves(inst, susp, n) => t \notin ToolsOf[inst[n]]
  <2>1. \A n \in Names : n \in Contributors
    BY DEF Contributors
  <2> QED
    BY <1>10, <1>b, <2>1 DEF Shape, Files
<1>12. Apart(inst2, susp)
  <2> SUFFICES ASSUME NEW n \in Names, NEW k \in Names, Serves(inst2, susp, n), Serves(inst2, susp, k),
                      NEW t \in ToolsOf[inst2[n]], t \in ToolsOf[inst2[k]]
               PROVE  n = k
    BY DEF Apart
  <2>0. \A i \in Names : i \in Contributors
    BY DEF Contributors
  <2>1. CASE n # c /\ k # c
    BY <2>0, <2>1, <1>1, <1>7 DEF Shape, Apart
  <2>2. CASE n = c /\ k # c
    <3>1. t \in ToolsOf[p] /\ t \in ToolsOf[inst[k]] /\ Serves(inst, susp, k)
      BY <2>0, <2>2, <1>1, <1>7
    <3> QED
      BY <3>1, <1>11
  <2>3. CASE n # c /\ k = c
    <3>1. t \in ToolsOf[p] /\ t \in ToolsOf[inst[n]] /\ Serves(inst, susp, n)
      BY <2>0, <2>3, <1>1, <1>7
    <3> QED
      BY <3>1, <1>11
  <2> QED
    BY <2>1, <2>2, <2>3
<1>13. OffHost(inst2)
  BY <1>1, <1>11 DEF Shape, OffHost
<1> QED
  BY <1>1, <1>3, <1>4, <1>5, <1>6, <1>8, <1>9, <1>12, <1>13 DEF Shape

\* A suspension withdraws what the plugin filed and leaves it mounted.
LEMMA ShapeSuspended ==
  ASSUME NEW inst, NEW susp, NEW reg, NEW led, Shape(inst, susp, reg, led),
         NEW S, S \subseteq Names, \A n \in S : inst[n] # Absent,
         NEW reg2, reg2 = {e \in reg : e[1] \notin S}
  PROVE  Shape(inst, susp \cup S, reg2, led)
<1>1. susp \cup S \subseteq Names /\ reg2 \subseteq Contributors \X Tools
  BY DEF Shape
<1>2. SuspendedAreUp(inst, susp \cup S)
  BY DEF Shape, SuspendedAreUp
<1>3. \A n : Serves(inst, susp \cup S, n) <=> Serves(inst, susp, n) /\ n \notin S
  BY DEF Serves
<1>4. Files(inst, susp \cup S, reg2)
  <2> SUFFICES ASSUME NEW n \in Contributors, NEW t \in Tools
               PROVE  <<n, t>> \in reg2 <=> \/ n = Host /\ t \in HostTools
                                            \/ Serves(inst, susp \cup S, n) /\ t \in ToolsOf[inst[n]]
    BY DEF Files
  <2>1. <<n, t>> \in reg2 <=> <<n, t>> \in reg /\ n \notin S
    OBVIOUS
  <2>2. n = Host => n \notin S
    BY HostIsNoPlugin
  <2>3. <<n, t>> \in reg <=> \/ n = Host /\ t \in HostTools
                             \/ Serves(inst, susp, n) /\ t \in ToolsOf[inst[n]]
    BY DEF Shape, Files
  <2> QED
    BY <2>1, <2>2, <2>3, <1>3
<1>5. Apart(inst, susp \cup S)
  BY <1>3 DEF Shape, Apart
<1> QED
  BY <1>1, <1>2, <1>4, <1>5 DEF Shape

\* A suspended plugin comes back with tools that are nobody's.
LEMMA ShapeResumed ==
  ASSUME NEW inst, NEW susp, NEW reg, NEW led, Shape(inst, susp, reg, led),
         NEW c \in susp, ToolsOf[inst[c]] \cap {e[2] : e \in reg} = {},
         NEW reg2, reg2 = reg \cup {c} \X ToolsOf[inst[c]]
  PROVE  Shape(inst, susp \ {c}, reg2, led)
<1>a. c \in Names /\ inst[c] # Absent /\ inst[c] \in Packages
  BY DEF Shape, SuspendedAreUp, Mounts
<1>b. ToolsOf[inst[c]] \subseteq Tools /\ c # Host /\ Host \in Contributors
  BY <1>a, ToolsAre, HostIsNoPlugin DEF Contributors
<1>1. susp \ {c} \subseteq Names /\ reg2 \subseteq Contributors \X Tools
  BY <1>a, <1>b DEF Shape, Contributors
<1>2. SuspendedAreUp(inst, susp \ {c})
  BY DEF Shape, SuspendedAreUp
<1>3. \A n : Serves(inst, susp \ {c}, n) <=> Serves(inst, susp, n) \/ n = c
  BY <1>a DEF Serves
<1>4. Files(inst, susp \ {c}, reg2)
  <2> SUFFICES ASSUME NEW n \in Contributors, NEW t \in Tools
               PROVE  <<n, t>> \in reg2 <=> \/ n = Host /\ t \in HostTools
                                            \/ Serves(inst, susp \ {c}, n) /\ t \in ToolsOf[inst[n]]
    BY DEF Files
  <2>1. <<n, t>> \in reg2 <=> <<n, t>> \in reg \/ (n = c /\ t \in ToolsOf[inst[c]])
    OBVIOUS
  <2>3. <<n, t>> \in reg <=> \/ n = Host /\ t \in HostTools
                             \/ Serves(inst, susp, n) /\ t \in ToolsOf[inst[n]]
    BY DEF Shape, Files
  <2> QED
    BY <2>1, <2>3, <1>3
<1>10. \A t \in ToolsOf[inst[c]] : t \in Tools /\ \A n \in Contributors : <<n, t>> \notin reg
  <2> SUFFICES ASSUME NEW t \in ToolsOf[inst[c]], NEW n \in Contributors, <<n, t>> \in reg PROVE FALSE
    BY <1>b
  <2>1. <<n, t>>[2] = t
    OBVIOUS
  <2>2. t \in {e[2] : e \in reg}
    BY <2>1
  <2> QED
    BY <2>2
<1>11. \A t \in ToolsOf[inst[c]] : \A n \in Names : Serves(inst, susp, n) => t \notin ToolsOf[inst[n]]
  <2>1. \A n \in Names : n \in Contributors
    BY DEF Contributors
  <2> QED
    BY <1>10, <2>1 DEF Shape, Files
<1>5. Apart(inst, susp \ {c})
  <2> SUFFICES ASSUME NEW n \in Names, NEW k \in Names, Serves(inst, susp \ {c}, n), Serves(inst, susp \ {c}, k),
                      NEW t \in ToolsOf[inst[n]], t \in ToolsOf[inst[k]]
               PROVE  n = k
    BY DEF Apart
  <2>1. Serves(inst, susp, n) \/ n = c
    BY <1>3
  <2>2. Serves(inst, susp, k) \/ k = c
    BY <1>3
  <2>3. CASE Serves(inst, susp, n) /\ Serves(inst, susp, k)
    BY <2>3 DEF Shape, Apart
  <2> QED
    BY <2>1, <2>2, <2>3, <1>11
<1> QED
  BY <1>1, <1>2, <1>4, <1>5 DEF Shape

-----------------------------------------------------------------------------
(* What each step of a convergence does to the fields of a mount.             *)

\* Entries are named after the plugin they install.
Reads(w) == \A n \in Names : /\ w.dep[n] \in Packages \cup {Absent}
                             /\ w.dep[n] # Absent => NameOf[w.dep[n]] = n

LEMMA ActivateDoes ==
  ASSUME NEW m \in Mount, Fits(m), NEW p \in Packages, m.inst[NameOf[p]] = Absent, ~toolNameConflicts(m, p)
  PROVE  /\ Activate(m, p) \in Mount
         /\ Activate(m, p).inst = [m.inst EXCEPT ![NameOf[p]] = p]
         /\ Activate(m, p).fail = m.fail \ {NameOf[p]}
         /\ Activate(m, p).unconf = m.unconf /\ Activate(m, p).note = m.note
         /\ Shape(Activate(m, p).inst, Activate(m, p).susp, Activate(m, p).reg, Activate(m, p).led)
<1> DEFINE c == NameOf[p]
<1>1. c \in Names /\ ToolsOf[p] \subseteq Tools
  BY ToolsAre
<1>2. PICK d : d = Activate(m, p)
  OBVIOUS
<1>3. d = [m EXCEPT !.inst = [m.inst EXCEPT ![c] = p], !.susp = m.susp \ {c}, !.led = m.led \cup {p},
                    !.reg = m.reg \cup {c} \X ToolsOf[p], !.fail = m.fail \ {c}]
  BY <1>2 DEF Activate, Mount
<1>4. /\ d.inst = [m.inst EXCEPT ![c] = p] /\ d.susp = m.susp \ {c} /\ d.led = m.led \cup {p}
      /\ d.reg = m.reg \cup {c} \X ToolsOf[p] /\ d.fail = m.fail \ {c}
      /\ d.unconf = m.unconf /\ d.note = m.note
  BY <1>3 DEF Mount
<1>5. d \in Mount
  BY <1>1, <1>3 DEF Mount
<1>6. Shape(d.inst, d.susp, d.reg, d.led)
  <2>1. Shape(m.inst, m.susp, m.reg, m.led)
    BY DEF Fits
  <2>2. ToolsOf[p] \cap {e[2] : e \in m.reg} = {}
    BY DEF toolNameConflicts, Registered
  <2>4. d.inst = [m.inst EXCEPT ![NameOf[p]] = p] /\ d.reg = m.reg \cup {NameOf[p]} \X ToolsOf[p]
    BY <1>4
  <2>3. Shape(d.inst, m.susp \ {NameOf[p]}, d.reg, m.led \cup {p})
    <3>1. ASSUME NEW i2, NEW r2, i2 = [m.inst EXCEPT ![NameOf[p]] = p], r2 = m.reg \cup {NameOf[p]} \X ToolsOf[p]
          PROVE  Shape(i2, m.susp \ {NameOf[p]}, r2, m.led \cup {p})
      BY <2>1, <2>2, <3>1, ShapeWith
    <3> QED
      BY <2>4, <3>1
  <2> QED
    BY <1>4, <2>3
<1> QED
  BY <1>2, <1>4, <1>5, <1>6

\* What the passes keep of the plugins they do not touch.
SameElsewhere(r, p, c) == \A n \in Names \ {c} :
  /\ r.inst[n] = p.inst[n]
  /\ n \in r.fail <=> n \in p.fail
  /\ n \in r.unconf <=> n \in p.unconf
  /\ n \in r.note <=> n \in p.note

BroughtUp(r, p, c, prev, w) ==
  /\ Fits(r) /\ SameElsewhere(r, p, c)
  /\ r.inst[c] # Absent \/ c \in r.fail
  /\ r.inst[c] # Absent => ~revokedEndorsementOf(r.inst[c], w)
  /\ prev = Absent /\ c \in p.unconf => c \in r.unconf \/ c \in r.note

LEMMA FitsAfterMount ==
  ASSUME NEW m \in Mount, Fits(m), NEW p \in Packages, m.inst[NameOf[p]] = Absent, ~toolNameConflicts(m, p),
         NEW d \in Mount, d.inst = Activate(m, p).inst, d.susp = Activate(m, p).susp,
         d.reg = Activate(m, p).reg, d.led = Activate(m, p).led,
         d.fail = m.fail \ {NameOf[p]}, d.unconf = m.unconf \ {NameOf[p]}
  PROVE  Fits(d) /\ d.inst[NameOf[p]] = p /\ \A n \in Names \ {NameOf[p]} : d.inst[n] = m.inst[n]
<1>1. Shape(d.inst, d.susp, d.reg, d.led) /\ d.inst = [m.inst EXCEPT ![NameOf[p]] = p]
  BY ActivateDoes
<1>2. NameOf[p] \in Names /\ m.inst \in Mounts
  BY ToolsAre, TypeOfMount
<1>3. d.inst[NameOf[p]] = p /\ \A n \in Names \ {NameOf[p]} : d.inst[n] = m.inst[n]
  BY <1>1, <1>2 DEF Mounts
<1>4. d.fail \cap Up(d) = {} /\ d.unconf \cap Up(d) = {}
  BY <1>3 DEF Fits, Up, IsMounted
<1> QED
  BY <1>1, <1>3, <1>4 DEF Fits

LEMMA BringUpDoes ==
  ASSUME NEW m \in Mount, Fits(m), NEW w, Reads(w), NEW c \in Names, w.dep[c] # Absent, m.inst[c] = Absent,
         ~Refuses(w.dep[c], w), NEW prev \in Packages \cup {Absent}, prev # Absent => NameOf[prev] = c
  PROVE  BroughtUp(BringUp(m, c, prev, w), m, c, prev, w) /\ BringUp(m, c, prev, w) \in Mount
<1> DEFINE p == w.dep[c]
           leaked == prev # Absent /\ c \in w.leaky
<1>1. p \in Packages /\ NameOf[p] = c
  BY DEF Reads
<1>2. PICK r : r = BringUp(m, c, prev, w)
  OBVIOUS
<1>3. CASE ~(toolNameConflicts(m, p) \/ serviceHeldBy(m, p) \/ ~Activates(m, p, w))
  <2>1. PICK a : a = Activate(m, p)
    OBVIOUS
  <2>2. /\ a \in Mount /\ a.fail = m.fail \ {c} /\ a.unconf = m.unconf /\ a.note = m.note
    <3>1. m.inst[NameOf[p]] = Absent /\ ~toolNameConflicts(m, p) /\ p \in Packages
      BY <1>1, <1>3
    <3> QED
      BY <1>1, <2>1, <3>1, ActivateDoes
  <2>3. r = [a EXCEPT !.note = IF leaked \/ c \in m.unconf THEN a.note \cup {c} ELSE a.note \ {c},
                      !.unconf = a.unconf \ {c}]
    BY <1>2, <1>3, <2>1, <2>2 DEF BringUp, Mount
  <2>4. /\ r \in Mount /\ r.inst = a.inst /\ r.susp = a.susp /\ r.reg = a.reg /\ r.led = a.led
        /\ r.fail = a.fail /\ r.unconf = a.unconf \ {c}
        /\ r.note = IF leaked \/ c \in m.unconf THEN a.note \cup {c} ELSE a.note \ {c}
    BY <2>2, <2>3 DEF Mount
  <2>5. Fits(r) /\ r.inst[c] = p /\ \A n \in Names \ {c} : r.inst[n] = m.inst[n]
    BY <1>1, <1>3, <2>1, <2>2, <2>4, FitsAfterMount
  <2>6. p # Absent /\ ~revokedEndorsementOf(p, w)
    BY DEF Refuses
  <2>7. SameElsewhere(r, m, c)
    BY <2>2, <2>4, <2>5 DEF SameElsewhere
  <2>8. c \in m.unconf => c \in r.note
    BY <2>4
  <2> QED
    BY <1>2, <2>4, <2>5, <2>6, <2>7, <2>8 DEF BroughtUp
<1>4. CASE toolNameConflicts(m, p) \/ serviceHeldBy(m, p) \/ ~Activates(m, p, w)
  <2>1. r = fail(m, c, prev, w)
    BY <1>2, <1>4 DEF BringUp
  <2>2. CASE prev # Absent /\ restores(m, prev, w)
    <3>0. prev \in Packages /\ NameOf[prev] = c /\ ~toolNameConflicts(m, prev) /\ ~revokedEndorsementOf(prev, w)
      BY <2>2 DEF restores
    <3>1. PICK a : a = Activate(m, prev)
      OBVIOUS
    <3>2. /\ a \in Mount /\ a.fail = m.fail \ {c} /\ a.unconf = m.unconf /\ a.note = m.note
      BY <3>0, <3>1, ActivateDoes
    <3>3. r = [a EXCEPT !.note = a.note \cup {c}, !.unconf = a.unconf \ {c}]
      BY <2>1, <2>2, <3>1, <3>2 DEF fail, Mount
    <3>4. /\ r \in Mount /\ r.inst = a.inst /\ r.susp = a.susp /\ r.reg = a.reg /\ r.led = a.led
          /\ r.fail = a.fail /\ r.unconf = a.unconf \ {c} /\ r.note = a.note \cup {c}
      BY <3>2, <3>3 DEF Mount
    <3>5. Fits(r) /\ r.inst[c] = prev /\ \A n \in Names \ {c} : r.inst[n] = m.inst[n]
      BY <3>0, <3>1, <3>2, <3>4, FitsAfterMount
    <3>7. SameElsewhere(r, m, c)
      BY <3>2, <3>4, <3>5 DEF SameElsewhere
    <3> QED
      BY <1>2, <2>2, <3>0, <3>4, <3>5, <3>7 DEF BroughtUp
  <2>3. CASE ~(prev # Absent /\ restores(m, prev, w))
    <3>1. ~IsMounted(m, c)
      BY DEF IsMounted
    <3>2. PICK u : u = IF prev # Absent /\ revokedEndorsementOf(prev, w) /\ c \in w.leaky THEN m.unconf \cup {c} ELSE m.unconf
      OBVIOUS
    <3>3. r = [m EXCEPT !.fail = m.fail \cup {c}, !.unconf = u]
      BY <2>1, <2>3, <3>1, <3>2 DEF fail, Mount
    <3>4. m.unconf \subseteq Names /\ u \subseteq Names /\ m.unconf \subseteq u /\ u \subseteq m.unconf \cup {c}
      BY <3>2 DEF Mount
    <3>5. /\ r \in Mount /\ r.inst = m.inst /\ r.susp = m.susp /\ r.reg = m.reg /\ r.led = m.led
          /\ r.fail = m.fail \cup {c} /\ r.unconf = u /\ r.note = m.note
      BY <3>3, <3>4 DEF Mount
    <3>6. Fits(r)
      <4>1. Up(r) = Up(m) /\ c \notin Up(m)
        BY <3>5 DEF Up, IsMounted
      <4> QED
        BY <3>4, <3>5, <4>1 DEF Fits
    <3>7. SameElsewhere(r, m, c)
      BY <3>4, <3>5 DEF SameElsewhere
    <3> QED
      BY <1>2, <3>4, <3>5, <3>6, <3>7 DEF BroughtUp
  <2> QED
    BY <2>2, <2>3
<1> QED
  BY <1>3, <1>4

\* What pass 1 leaves: mounts as they were, and a record for what is refused.
LEMMA PrepareDoes ==
  ASSUME NEW m \in Mount, Fits(m), NEW w, Reads(w), NEW d, d = Prepare(m, w)
  PROVE  /\ d \in Mount /\ Fits(d) /\ d.inst = m.inst
         /\ \A n \in Names : w.dep[n] # Absent /\ Refuses(w.dep[n], w) /\ m.inst[n] = Absent => n \in d.fail
         /\ \A n \in m.unconf : w.dep[n] # Absent => n \in d.unconf
<1>1. PICK gone : gone = {n \in Names : w.dep[n] = Absent}
  OBVIOUS
<1>2. PICK refused : refused = {n \in Names \ gone : Refuses(w.dep[n], w)}
  OBVIOUS
<1>3. PICK same : same = {n \in Names \ (gone \cup refused) : m.inst[n] = w.dep[n] /\ n \notin m.susp}
  OBVIOUS
<1>4. d = [m EXCEPT !.fail = (m.fail \ gone) \cup (refused \ Up(m)),
                    !.unconf = m.unconf \ gone,
                    !.note = (m.note \cup (refused \cap Up(m))) \ same]
  BY <1>1, <1>2, <1>3 DEF Prepare, Mount
<1>5. refused \subseteq Names /\ m.fail \subseteq Names /\ m.unconf \subseteq Names /\ m.note \subseteq Names
  BY <1>2 DEF Mount
<1>6. /\ d \in Mount /\ d.inst = m.inst /\ d.susp = m.susp /\ d.reg = m.reg /\ d.led = m.led
      /\ d.fail = (m.fail \ gone) \cup (refused \ Up(m)) /\ d.unconf = m.unconf \ gone
  BY ZenonT(60), <1>4, <1>5 DEF Mount
<1>7. Up(d) = Up(m)
  BY <1>6 DEF Up, IsMounted
<1>8. Fits(d)
  BY <1>6, <1>7 DEF Fits
<1>9. \A n \in Names : w.dep[n] # Absent /\ Refuses(w.dep[n], w) /\ m.inst[n] = Absent => n \in d.fail
  BY <1>1, <1>2, <1>6 DEF Up, IsMounted
<1>10. \A n \in m.unconf : w.dep[n] # Absent => n \in d.unconf
  BY <1>1, <1>6
<1> QED
  BY <1>6, <1>8, <1>9, <1>10

LEMMA FitsWithout ==
  ASSUME NEW m \in Mount, Fits(m), NEW S, S \subseteq Names, NEW u, u = unload(m, S)
  PROVE  /\ u \in Mount /\ Fits(u)
         /\ u.inst = [n \in Names |-> IF n \in S THEN Absent ELSE m.inst[n]]
         /\ u.fail = m.fail /\ u.unconf = m.unconf
<1>1. PICK i2 : i2 = [n \in Names |-> IF n \in S THEN Absent ELSE m.inst[n]]
  OBVIOUS
<1>2. PICK l2 : l2 = m.led \ {m.inst[n] : n \in S}
  OBVIOUS
<1>3. PICK r2 : r2 = {e \in m.reg : e[1] \notin S}
  OBVIOUS
<1>a. u = [m EXCEPT !.inst = i2, !.susp = m.susp \ S, !.note = m.note \ S, !.led = l2, !.reg = r2]
  BY <1>1, <1>2, <1>3 DEF unload, Withdrawn, Mount
<1>b. i2 \in [Names -> Packages \cup {Absent}] /\ l2 \subseteq m.led /\ r2 \subseteq m.reg
  BY <1>1, <1>2, <1>3 DEF Mount
<1>4. /\ u.inst = i2 /\ u.susp = m.susp \ S /\ u.led = l2 /\ u.reg = r2
      /\ u.fail = m.fail /\ u.unconf = m.unconf /\ u.note = m.note \ S
  BY <1>a DEF Mount
<1>5. u \in Mount
  BY ZenonT(60), <1>a, <1>b DEF Mount
<1>6. Shape(u.inst, u.susp, u.reg, u.led)
  <2>1. Shape(m.inst, m.susp, m.reg, m.led)
    BY DEF Fits
  <2>2. Shape(i2, m.susp \ S, r2, l2)
    BY <1>1, <1>2, <1>3, <2>1, ShapeWithout
  <2> QED
    BY <1>4, <2>2
<1>7. Up(u) \subseteq Up(m)
  BY <1>1, <1>4 DEF Up, IsMounted
<1> QED
  BY <1>1, <1>4, <1>5, <1>6, <1>7 DEF Fits

\* What is still up has not been revoked, and what has gone for its key alone
\* has a record.
LEMMA TakeDownDoes ==
  ASSUME NEW m \in Mount, Fits(m), NEW w, Reads(w), NEW d, d = TakeDown(m, w)
  PROVE  /\ d \in Mount /\ Fits(d)
         /\ \A n \in Names : d.inst[n] = IF Goes(m, n, w) THEN Absent ELSE m.inst[n]
         /\ \A n \in Names : Goes(m, n, w) /\ w.dep[n] # Absent /\ ~Planned(m, n, w) => n \in d.fail
         /\ m.fail \subseteq d.fail
         /\ \A n \in m.unconf : n \in d.unconf
<1>1. PICK down : down = {n \in Names : Goes(m, n, w)}
  OBVIOUS
<1>2. PICK out : out = {n \in down : w.dep[n] # Absent /\ ~Planned(m, n, w)}
  OBVIOUS
<1>3. PICK u : u = unload(m, down)
  OBVIOUS
<1>4. /\ u \in Mount /\ Fits(u)
      /\ u.inst = [n \in Names |-> IF n \in down THEN Absent ELSE m.inst[n]]
      /\ u.fail = m.fail /\ u.unconf = m.unconf
  <2>1. down \subseteq Names
    BY <1>1
  <2> QED
    BY <1>3, <2>1, FitsWithout
<1>5. d = recordRevokedUnload(u, out, w)
  BY <1>1, <1>2, <1>3 DEF TakeDown
<1>a. PICK uc : uc = (u.unconf \ out) \cup (out \cap w.leaky)
  OBVIOUS
<1>6. d = [u EXCEPT !.fail = u.fail \cup out, !.unconf = uc]
  BY <1>4, <1>5, <1>a DEF recordRevokedUnload, Mount
<1>7. out \subseteq Names /\ out \subseteq down /\ u.fail \subseteq Names /\ uc \subseteq Names
  BY <1>1, <1>2, <1>4, <1>a DEF Mount
<1>8. /\ d \in Mount /\ d.inst = u.inst /\ d.susp = u.susp /\ d.reg = u.reg /\ d.led = u.led
      /\ d.fail = u.fail \cup out /\ d.unconf = uc
  BY ZenonT(60), <1>4, <1>6, <1>7 DEF Mount
<1>9. \A n \in down : n \notin Up(d)
  BY <1>4, <1>8 DEF Up, IsMounted
<1>10. Up(d) = Up(u)
  BY <1>8 DEF Up, IsMounted
<1>11. Fits(d)
  BY <1>a, <1>4, <1>7, <1>8, <1>9, <1>10 DEF Fits
<1>12. \A n \in Names : d.inst[n] = IF Goes(m, n, w) THEN Absent ELSE m.inst[n]
  BY <1>1, <1>4, <1>8
<1>13. \A n \in m.unconf : n \in d.unconf
  <2> TAKE n \in m.unconf
  <2>1. n \in Names /\ n \notin Up(m)
    BY DEF Fits, Mount
  <2>2. n \notin down
    BY <1>1, <2>1 DEF Goes, Up
  <2> QED
    BY <1>a, <1>4, <1>7, <1>8, <2>2
<1> QED
  BY <1>1, <1>2, <1>4, <1>8, <1>11, <1>12, <1>13

-----------------------------------------------------------------------------
(* The passes one after the other.  p is what the passes over the first i     *)
(* plugins leave of m.                                                        *)

Awaits(m, w, n, i) == \E j \in i + 1 .. Len(Order) : Order[j] = n /\ Planned(m, n, w)
Dealt(n, i) == \E j \in 1 .. i : Order[j] = n

PassTo(m, w, p, i) ==
  /\ p \in Mount /\ Fits(p)
  /\ \A n \in Names : Awaits(m, w, n, i) => p.inst[n] = Absent
  /\ \A n \in Names : p.inst[n] # Absent => /\ ~revokedEndorsementOf(p.inst[n], w)
                                            /\ (Planned(m, n, w) \/ p.inst[n] = m.inst[n])
  /\ \A n \in Names : w.dep[n] # Absent => p.inst[n] # Absent \/ n \in p.fail \/ Awaits(m, w, n, i)
  /\ \A n \in m.unconf : w.dep[n] # Absent => n \in p.unconf \/ (n \in p.note /\ Dealt(n, i))

LEMMA NamesInOrder ==
  /\ \A i \in 1 .. Len(Order) : Order[i] \in Names
  /\ \A n \in Names : \E i \in 1 .. Len(Order) : Order[i] = n
  /\ Len(Order) \in Nat
BY LoaderAssumption DEF Names

LEMMA FirstPasses ==
  ASSUME NEW m \in Mount, Fits(m), NEW w, Reads(w)
  PROVE  PassTo(m, w, TakeDown(Prepare(m, w), w), 0)
<1>1. PICK d : d = Prepare(m, w)
  OBVIOUS
<1>2. PICK p : p = TakeDown(d, w)
  OBVIOUS
<1>3. /\ d \in Mount /\ Fits(d) /\ d.inst = m.inst
      /\ \A n \in Names : w.dep[n] # Absent /\ Refuses(w.dep[n], w) /\ m.inst[n] = Absent => n \in d.fail
      /\ \A n \in m.unconf : w.dep[n] # Absent => n \in d.unconf
  BY <1>1, PrepareDoes
<1>4. /\ p \in Mount /\ Fits(p)
      /\ \A n \in Names : p.inst[n] = IF Goes(d, n, w) THEN Absent ELSE d.inst[n]
      /\ \A n \in Names : Goes(d, n, w) /\ w.dep[n] # Absent /\ ~Planned(d, n, w) => n \in p.fail
      /\ d.fail \subseteq p.fail
      /\ \A n \in d.unconf : n \in p.unconf
  BY <1>2, <1>3, TakeDownDoes
<1>5. \A n \in Names : Planned(d, n, w) <=> Planned(m, n, w)
  BY <1>3 DEF Planned
<1>6. \A n \in Names : Goes(d, n, w) <=> /\ m.inst[n] # Absent
                                         /\ \/ w.dep[n] = Absent
                                            \/ revokedEndorsementOf(m.inst[n], w)
                                            \/ Planned(m, n, w)
  BY <1>3, <1>5 DEF Goes, IsMounted
<1>7. ASSUME NEW n \in Names, Awaits(m, w, n, 0) PROVE p.inst[n] = Absent
  BY <1>3, <1>4, <1>6, <1>7 DEF Awaits
<1>8. ASSUME NEW n \in Names, p.inst[n] # Absent
      PROVE  ~revokedEndorsementOf(p.inst[n], w) /\ p.inst[n] = m.inst[n]
  BY <1>3, <1>4, <1>6, <1>8
<1>9. ASSUME NEW n \in Names, w.dep[n] # Absent
      PROVE  p.inst[n] # Absent \/ n \in p.fail \/ Awaits(m, w, n, 0)
  <2>1. CASE Planned(m, n, w)
    <3>1. PICK j \in 1 .. Len(Order) : Order[j] = n
      BY NamesInOrder
    <3>2. j \in 0 + 1 .. Len(Order)
      BY <3>1
    <3> QED
      BY <2>1, <3>1, <3>2 DEF Awaits
  <2>2. CASE ~Planned(m, n, w) /\ Refuses(w.dep[n], w)
    <3>1. CASE m.inst[n] = Absent
      BY <1>3, <1>4, <1>9, <2>2, <3>1
    <3>2. CASE m.inst[n] # Absent /\ Goes(d, n, w)
      BY <1>4, <1>5, <1>9, <2>2, <3>2
    <3>3. CASE m.inst[n] # Absent /\ ~Goes(d, n, w)
      BY <1>3, <1>4, <3>3
    <3> QED
      BY <3>1, <3>2, <3>3
  <2>3. CASE ~Planned(m, n, w) /\ ~Refuses(w.dep[n], w)
    <3>1. m.inst[n] = w.dep[n]
      BY <1>9, <2>3 DEF Planned
    <3>2. ~revokedEndorsementOf(m.inst[n], w)
      BY <2>3, <3>1 DEF Refuses
    <3>3. ~Goes(d, n, w)
      BY <1>6, <1>9, <2>3, <3>2
    <3> QED
      BY <1>3, <1>4, <1>9, <3>1, <3>3
  <2> QED
    BY <2>1, <2>2, <2>3
<1>10. \A n \in m.unconf : w.dep[n] # Absent => n \in p.unconf
  BY <1>3, <1>4
<1> QED
  BY <1>1, <1>2, <1>4, <1>7, <1>8, <1>9, <1>10 DEF PassTo

LEMMA NextPass ==
  ASSUME NEW m \in Mount, Fits(m), NEW w, Reads(w), NEW i \in 1 .. Len(Order), NEW p, PassTo(m, w, p, i - 1),
         Planned(m, Order[i], w)
  PROVE  PassTo(m, w, BringUp(p, Order[i], m.inst[Order[i]], w), i)
<1>1. PICK c : c = Order[i]
  OBVIOUS
<1>2. PICK r : r = BringUp(p, c, m.inst[c], w)
  OBVIOUS
<1>3. c \in Names /\ Planned(m, c, w) /\ Len(Order) \in Nat /\ i \in Nat /\ i - 1 + 1 = i
  BY <1>1, NamesInOrder
<1>4. p \in Mount /\ Fits(p)
  BY DEF PassTo
<1>5. Awaits(m, w, c, i - 1)
  <2>1. i \in i - 1 + 1 .. Len(Order)
    BY <1>3
  <2> QED
    BY <1>1, <1>3, <2>1 DEF Awaits
<1>6. p.inst[c] = Absent
  BY <1>3, <1>5 DEF PassTo
<1>7. w.dep[c] # Absent /\ ~Refuses(w.dep[c], w)
  BY <1>3 DEF Planned
<1>8. m.inst[c] \in Packages \cup {Absent} /\ (m.inst[c] # Absent => NameOf[m.inst[c]] = c)
  BY <1>3 DEF Fits, Shape, RightName, Mounts
<1>9. BroughtUp(r, p, c, m.inst[c], w) /\ r \in Mount
  BY <1>2, <1>3, <1>4, <1>6, <1>7, <1>8, BringUpDoes
<1>10. \A n \in Names \ {c} : /\ r.inst[n] = p.inst[n]
                              /\ n \in r.fail <=> n \in p.fail
                              /\ n \in r.unconf <=> n \in p.unconf
                              /\ n \in r.note <=> n \in p.note
  BY <1>9 DEF BroughtUp, SameElsewhere
<1>11. ASSUME NEW n \in Names PROVE Awaits(m, w, n, i) <=> Awaits(m, w, n, i - 1) /\ n # c
  <2>1. ASSUME Awaits(m, w, n, i) PROVE Awaits(m, w, n, i - 1) /\ n # c
    <3>1. PICK j \in i + 1 .. Len(Order) : Order[j] = n /\ Planned(m, n, w)
      BY <2>1 DEF Awaits
    <3>2. j \in i - 1 + 1 .. Len(Order) /\ j \in 1 .. Len(Order) /\ j # i
      BY <1>3, <3>1
    <3> QED
      BY <1>1, <3>1, <3>2, LoaderAssumption DEF Awaits
  <2>2. ASSUME Awaits(m, w, n, i - 1), n # c PROVE Awaits(m, w, n, i)
    <3>1. PICK j \in i - 1 + 1 .. Len(Order) : Order[j] = n /\ Planned(m, n, w)
      BY <2>2 DEF Awaits
    <3>2. j \in i + 1 .. Len(Order)
      BY <1>1, <1>3, <2>2, <3>1
    <3> QED
      BY <3>1, <3>2 DEF Awaits
  <2> QED
    BY <2>1, <2>2
<1>12. ASSUME NEW n, Dealt(n, i - 1) PROVE Dealt(n, i) /\ n # c
  <2>1. PICK j \in 1 .. i - 1 : Order[j] = n
    BY <1>12 DEF Dealt
  <2>2. j \in 1 .. i /\ j # i /\ j \in 1 .. Len(Order)
    BY <1>3, <2>1
  <2> QED
    BY <1>1, <2>1, <2>2, LoaderAssumption DEF Dealt
<1>13. \A n \in Names : Awaits(m, w, n, i) => r.inst[n] = Absent
  BY <1>10, <1>11 DEF PassTo
<1>14. ASSUME NEW n \in Names, r.inst[n] # Absent
       PROVE  ~revokedEndorsementOf(r.inst[n], w) /\ (Planned(m, n, w) \/ r.inst[n] = m.inst[n])
  <2>1. CASE n = c
    BY <1>3, <1>9, <1>14, <2>1 DEF BroughtUp
  <2>2. CASE n # c
    BY <1>10, <1>14, <2>2 DEF PassTo
  <2> QED
    BY <2>1, <2>2
<1>15. ASSUME NEW n \in Names, w.dep[n] # Absent PROVE r.inst[n] # Absent \/ n \in r.fail \/ Awaits(m, w, n, i)
  <2>1. CASE n = c
    BY <1>9, <2>1 DEF BroughtUp
  <2>2. CASE n # c
    BY <1>10, <1>11, <1>15, <2>2 DEF PassTo
  <2> QED
    BY <2>1, <2>2
<1>16. ASSUME NEW n \in m.unconf, w.dep[n] # Absent PROVE n \in r.unconf \/ (n \in r.note /\ Dealt(n, i))
  <2>0. n \in Names /\ m.inst[n] = Absent
    BY DEF Fits, Up, IsMounted, Mount
  <2>1. CASE n = c
    <3>1. n \in p.unconf
      BY <1>12, <1>16, <2>1 DEF PassTo
    <3>2. Dealt(n, i)
      <4>1. i \in 1 .. i
        BY <1>3
      <4> QED
        BY <1>1, <2>1, <4>1 DEF Dealt
    <3> QED
      BY <1>9, <2>0, <2>1, <3>1, <3>2 DEF BroughtUp
  <2>2. CASE n # c
    BY <1>10, <1>12, <1>16, <2>0, <2>2 DEF PassTo
  <2> QED
    BY <2>1, <2>2
<1>17. PassTo(m, w, r, i)
  BY <1>9, <1>13, <1>14, <1>15, <1>16 DEF PassTo, BroughtUp
<1> QED
  BY <1>1, <1>2, <1>17

LEMMA SkippedPass ==
  ASSUME NEW m \in Mount, NEW w, NEW i \in 1 .. Len(Order), NEW p, PassTo(m, w, p, i - 1),
         ~Planned(m, Order[i], w)
  PROVE  PassTo(m, w, p, i)
<1>1. Len(Order) \in Nat /\ i \in Nat /\ i - 1 + 1 = i
  BY NamesInOrder
<1>2. ASSUME NEW n PROVE Awaits(m, w, n, i) <=> Awaits(m, w, n, i - 1)
  <2>1. ASSUME Awaits(m, w, n, i) PROVE Awaits(m, w, n, i - 1)
    <3>1. PICK j \in i + 1 .. Len(Order) : Order[j] = n /\ Planned(m, n, w)
      BY <2>1 DEF Awaits
    <3>2. j \in i - 1 + 1 .. Len(Order)
      BY <1>1, <3>1
    <3> QED
      BY <3>1, <3>2 DEF Awaits
  <2>2. ASSUME Awaits(m, w, n, i - 1) PROVE Awaits(m, w, n, i)
    <3>1. PICK j \in i - 1 + 1 .. Len(Order) : Order[j] = n /\ Planned(m, n, w)
      BY <2>2 DEF Awaits
    <3>2. j # i
      BY <3>1
    <3>3. j \in i + 1 .. Len(Order)
      BY <1>1, <3>1, <3>2
    <3> QED
      BY <3>1, <3>3 DEF Awaits
  <2> QED
    BY <2>1, <2>2
<1>3. ASSUME NEW n, Dealt(n, i - 1) PROVE Dealt(n, i)
  <2>1. PICK j \in 1 .. i - 1 : Order[j] = n
    BY <1>3 DEF Dealt
  <2>2. j \in 1 .. i
    BY <1>1, <2>1
  <2> QED
    BY <2>1, <2>2 DEF Dealt
<1> QED
  BY <1>2, <1>3 DEF PassTo

-----------------------------------------------------------------------------
(* The passes and the resumptions are recursive functions; a least          *)
(* counterexample shows that they exist.                                     *)

\* f is what the passes over the first n plugins leave of m.
Passes(m, w, n, f) ==
  f = [i \in 0 .. n |-> IF i = 0 THEN TakeDown(Prepare(m, w), w)
                       ELSE IF Planned(m, Order[i], w) THEN BringUp(f[i - 1], Order[i], m.inst[Order[i]], w)
                       ELSE f[i - 1]]

LEMMA PassesOf ==
  ASSUME NEW m, NEW w
  PROVE  \A n \in 0 .. Len(Order) : \E f : Passes(m, w, n, f)
<1>0. Len(Order) \in Nat
  BY LoaderAssumption
<1>1. SUFFICES ASSUME NEW T, T = {n \in 0 .. Len(Order) : ~(\E f : Passes(m, w, n, f))}, T # {} PROVE FALSE
  <2>1. PICK T : T = {n \in 0 .. Len(Order) : ~(\E f : Passes(m, w, n, f))}
    OBVIOUS
  <2>2. T = {}
    BY <1>1, <2>1
  <2> QED
    BY <2>1, <2>2
<1>2. T \subseteq Nat
  BY <1>1
<1>3. PICK n \in T : \A k \in T : n <= k
  BY <1>1, <1>2, LeastOf
<1>4. n \in 0 .. Len(Order) /\ ~(\E f : Passes(m, w, n, f))
  BY <1>1, <1>3
<1>5. CASE n = 0
  <2>1. PICK f : f = [i \in 0 .. 0 |-> TakeDown(Prepare(m, w), w)]
    OBVIOUS
  <2>2. \A i \in 0 .. 0 : i = 0
    OBVIOUS
  <2>3. Passes(m, w, 0, f)
    BY <2>1, <2>2 DEF Passes
  <2> QED
    BY <1>4, <1>5, <2>3
<1>6. CASE n > 0
  <2>1. n - 1 \in 0 .. Len(Order) /\ n - 1 < n
    BY <1>0, <1>4, <1>6
  <2>2. PICK g : Passes(m, w, n - 1, g)
    BY <1>1, <1>3, <2>1
  <2>3. PICK f : f = [i \in 0 .. n |-> IF i = n THEN (IF Planned(m, Order[n], w) THEN BringUp(g[n - 1], Order[n], m.inst[Order[n]], w) ELSE g[n - 1]) ELSE g[i]]
    OBVIOUS
  <2>4. \A i \in 0 .. n : f[i] = IF i = 0 THEN TakeDown(Prepare(m, w), w) ELSE (IF Planned(m, Order[i], w) THEN BringUp(f[i - 1], Order[i], m.inst[Order[i]], w) ELSE f[i - 1])
    <3> TAKE i \in 0 .. n
    <3>1. CASE i = 0
      <4>1. g[0] = TakeDown(Prepare(m, w), w)
        BY <2>1, <2>2 DEF Passes
      <4> QED
        BY <1>6, <2>3, <3>1, <4>1
    <3>2. CASE i > 0 /\ i < n
      <4>1. i - 1 \in 0 .. n /\ i \in 0 .. n - 1 /\ i # n /\ i - 1 # n /\ i # 0
        BY <1>4, <3>2
      <4>2. f[i] = g[i] /\ f[i - 1] = g[i - 1]
        BY <2>3, <4>1
      <4>3. g[i] = (IF Planned(m, Order[i], w) THEN BringUp(g[i - 1], Order[i], m.inst[Order[i]], w) ELSE g[i - 1])
        BY <2>2, <4>1 DEF Passes
      <4> QED
        BY <4>1, <4>2, <4>3
    <3>3. CASE i = n
      <4>1. n - 1 \in 0 .. n /\ n - 1 # n /\ n \in 0 .. n
        BY <1>4, <1>6
      <4>2. f[n - 1] = g[n - 1]
        BY <2>3, <4>1
      <4>3. f[n] = (IF Planned(m, Order[n], w) THEN BringUp(g[n - 1], Order[n], m.inst[Order[n]], w) ELSE g[n - 1])
        BY <2>3, <4>1
      <4> QED
        BY <1>6, <3>3, <4>2, <4>3
    <3> QED
      BY <1>4, <3>1, <3>2, <3>3
  <2>5. Passes(m, w, n, f)
    <3>1. f = [i \in 0 .. n |-> f[i]]
      BY <2>3
    <3> QED
      BY <2>4, <3>1, Zenon DEF Passes
  <2> QED
    BY <1>4, <2>5
<1> QED
  BY <1>4, <1>5, <1>6

\* The first three passes of a convergence.
LEMMA ConvergeDoes ==
  ASSUME NEW m \in Mount, Fits(m), NEW w, Reads(w)
  PROVE  PassTo(m, w, converge(m, w), Len(Order))
<1>0. Len(Order) \in Nat
  BY LoaderAssumption
<1>1. PICK f : f = CHOOSE g : Passes(m, w, Len(Order), g)
  OBVIOUS
<1>2. Passes(m, w, Len(Order), f)
  <2>1. Len(Order) \in 0 .. Len(Order)
    BY <1>0
  <2>2. \E g : Passes(m, w, Len(Order), g)
    BY <2>1, PassesOf
  <2> QED
    BY <1>1, <2>2
<1>3. converge(m, w) = f[Len(Order)]
  BY <1>1 DEF converge, Passes
<1>4. /\ f[0] = TakeDown(Prepare(m, w), w)
      /\ \A i \in 1 .. Len(Order) :
           f[i] = IF Planned(m, Order[i], w) THEN BringUp(f[i - 1], Order[i], m.inst[Order[i]], w) ELSE f[i - 1]
  <2>1. \A i \in 0 .. Len(Order) :
           f[i] = IF i = 0 THEN TakeDown(Prepare(m, w), w)
                  ELSE IF Planned(m, Order[i], w) THEN BringUp(f[i - 1], Order[i], m.inst[Order[i]], w)
                  ELSE f[i - 1]
    BY <1>2 DEF Passes
  <2>2. 0 \in 0 .. Len(Order) /\ \A i \in 1 .. Len(Order) : i \in 0 .. Len(Order) /\ i # 0
    BY <1>0
  <2> QED
    BY <2>1, <2>2
<1>5. SUFFICES ASSUME NEW T, T = {i \in 0 .. Len(Order) : ~PassTo(m, w, f[i], i)}, T # {} PROVE FALSE
  <2>1. PICK T : T = {i \in 0 .. Len(Order) : ~PassTo(m, w, f[i], i)}
    OBVIOUS
  <2>2. T = {}
    BY <1>5, <2>1
  <2>3. Len(Order) \in 0 .. Len(Order)
    BY <1>0
  <2> QED
    BY <1>3, <2>1, <2>2, <2>3
<1>6. T \subseteq Nat
  BY <1>5
<1>7. PICK i \in T : \A k \in T : i <= k
  BY <1>5, <1>6, LeastOf
<1>8. i \in 0 .. Len(Order) /\ ~PassTo(m, w, f[i], i)
  BY <1>5, <1>7
<1>9. i # 0
  BY <1>4, <1>8, FirstPasses
<1>10. i \in 1 .. Len(Order) /\ i - 1 \in 0 .. Len(Order) /\ i - 1 < i
  BY <1>0, <1>8, <1>9
<1>11. PassTo(m, w, f[i - 1], i - 1)
  BY <1>5, <1>7, <1>10
<1>12. CASE Planned(m, Order[i], w)
  <2>1. f[i] = BringUp(f[i - 1], Order[i], m.inst[Order[i]], w)
    BY <1>4, <1>10, <1>12
  <2> QED
    BY <1>8, <1>10, <1>11, <1>12, <2>1, NextPass
<1>13. CASE ~Planned(m, Order[i], w)
  <2>1. f[i] = f[i - 1]
    BY <1>4, <1>10, <1>13
  <2> QED
    BY <1>8, <1>10, <1>11, <1>13, <2>1, SkippedPass
<1> QED
  BY <1>12, <1>13

\* f is what resuming the first n plugins of order makes of low.
Raises(low, order, n, f) ==
  f = [i \in 0 .. n |-> IF i = 0 THEN low ELSE resume(f[i - 1], order[i])]

LEMMA RaisesOf ==
  ASSUME NEW low, NEW order, NEW last \in Nat
  PROVE  \A n \in 0 .. last : \E f : Raises(low, order, n, f)
<1>0. last \in Nat
  OBVIOUS
<1>1. SUFFICES ASSUME NEW T, T = {n \in 0 .. last : ~(\E f : Raises(low, order, n, f))}, T # {} PROVE FALSE
  <2>1. PICK T : T = {n \in 0 .. last : ~(\E f : Raises(low, order, n, f))}
    OBVIOUS
  <2>2. T = {}
    BY <1>1, <2>1
  <2> QED
    BY <2>1, <2>2
<1>2. T \subseteq Nat
  BY <1>1
<1>3. PICK n \in T : \A k \in T : n <= k
  BY <1>1, <1>2, LeastOf
<1>4. n \in 0 .. last /\ ~(\E f : Raises(low, order, n, f))
  BY <1>1, <1>3
<1>5. CASE n = 0
  <2>1. PICK f : f = [i \in 0 .. 0 |-> low]
    OBVIOUS
  <2>2. \A i \in 0 .. 0 : i = 0
    OBVIOUS
  <2>3. Raises(low, order, 0, f)
    BY <2>1, <2>2 DEF Raises
  <2> QED
    BY <1>4, <1>5, <2>3
<1>6. CASE n > 0
  <2>1. n - 1 \in 0 .. last /\ n - 1 < n
    BY <1>0, <1>4, <1>6
  <2>2. PICK g : Raises(low, order, n - 1, g)
    BY <1>1, <1>3, <2>1
  <2>3. PICK f : f = [i \in 0 .. n |-> IF i = n THEN resume(g[n - 1], order[n]) ELSE g[i]]
    OBVIOUS
  <2>4. \A i \in 0 .. n : f[i] = IF i = 0 THEN low ELSE resume(f[i - 1], order[i])
    <3> TAKE i \in 0 .. n
    <3>1. CASE i = 0
      <4>1. g[0] = low
        BY <2>1, <2>2 DEF Raises
      <4> QED
        BY <1>6, <2>3, <3>1, <4>1
    <3>2. CASE i > 0 /\ i < n
      <4>1. i - 1 \in 0 .. n /\ i \in 0 .. n - 1 /\ i # n /\ i - 1 # n /\ i # 0
        BY <1>4, <3>2
      <4>2. f[i] = g[i] /\ f[i - 1] = g[i - 1]
        BY <2>3, <4>1
      <4>3. g[i] = resume(g[i - 1], order[i])
        BY <2>2, <4>1 DEF Raises
      <4> QED
        BY <4>1, <4>2, <4>3
    <3>3. CASE i = n
      <4>1. n - 1 \in 0 .. n /\ n - 1 # n /\ n \in 0 .. n
        BY <1>4, <1>6
      <4>2. f[n - 1] = g[n - 1]
        BY <2>3, <4>1
      <4>3. f[n] = resume(g[n - 1], order[n])
        BY <2>3, <4>1
      <4> QED
        BY <1>6, <3>3, <4>2, <4>3
    <3> QED
      BY <1>4, <3>1, <3>2, <3>3
  <2>5. Raises(low, order, n, f)
    <3>1. f = [i \in 0 .. n |-> f[i]]
      BY <2>3
    <3> QED
      BY <2>4, <3>1, Zenon DEF Raises
  <2> QED
    BY <1>4, <2>5
<1> QED
  BY <1>4, <1>5, <1>6

-----------------------------------------------------------------------------
(* Dependencies: what can work is the largest set that sustains itself, and   *)
(* without a cycle it comes back in an order in which every resumption finds  *)
(* what it requires.                                                          *)

LEMMA RegisteredIs ==
  ASSUME NEW m \in Mount, Shape(m.inst, m.susp, m.reg, m.led), NEW t
  PROVE  t \in Registered(m) <=> \/ t \in HostTools
                                 \/ \E n \in Names : Serves(m.inst, m.susp, n) /\ t \in ToolsOf[m.inst[n]]
<1>1. m.reg \subseteq Contributors \X Tools /\ HostTools \subseteq Tools
  BY DEF Shape, Tools
<1>2. ASSUME t \in Registered(m)
      PROVE  t \in HostTools \/ \E n \in Names : Serves(m.inst, m.susp, n) /\ t \in ToolsOf[m.inst[n]]
  <2>1. PICK e \in m.reg : t = e[2]
    BY <1>2 DEF Registered
  <2>2. PICK n \in Contributors, u \in Tools : e = <<n, u>>
    BY <1>1, <2>1
  <2>3. <<n, t>> \in m.reg /\ t \in Tools
    BY <2>1, <2>2
  <2>4. n \in Contributors
    BY <2>2
  <2>5. (n = Host /\ t \in HostTools) \/ (Serves(m.inst, m.susp, n) /\ t \in ToolsOf[m.inst[n]])
    BY <2>3, <2>4, FilesAt
  <2> QED
    BY <2>5 DEF Serves
<1>3. ASSUME NEW n \in Contributors, <<n, t>> \in m.reg PROVE t \in Registered(m)
  <2>1. <<n, t>>[2] = t
    OBVIOUS
  <2> QED
    BY <1>3, <2>1 DEF Registered
<1>4. ASSUME t \in HostTools PROVE t \in Registered(m)
  <2>1. Host \in Contributors /\ t \in Tools
    BY <1>1, <1>4 DEF Contributors
  <2>2. <<Host, t>> \in m.reg
    BY <1>4, <2>1, FilesAt
  <2> QED
    BY <1>3, <2>1, <2>2
<1>5. ASSUME NEW n \in Names, Serves(m.inst, m.susp, n), t \in ToolsOf[m.inst[n]] PROVE t \in Registered(m)
  <2>1. n \in Contributors /\ m.inst[n] \in Packages
    BY <1>5 DEF Contributors, Serves, Mount
  <2>2. t \in Tools
    BY <1>5, <2>1, ToolsAre
  <2>3. <<n, t>> \in m.reg
    BY <1>5, <2>1, <2>2, FilesAt
  <2> QED
    BY <1>3, <2>1, <2>3
<1> QED
  BY <1>2, <1>4, <1>5

\* Outside the plugins there are the host's tools.
LEMMA ExternalIs ==
  ASSUME NEW m \in Mount, Fits(m)
  PROVE  External(m) = HostTools
<1>1. Shape(m.inst, m.susp, m.reg, m.led)
  BY DEF Fits
<1>2. ASSUME NEW t PROVE t \in External(m) <=> t \in HostTools
  <2>1. t \in Registered(m) <=> \/ t \in HostTools
                                \/ \E n \in Names : Serves(m.inst, m.susp, n) /\ t \in ToolsOf[m.inst[n]]
    BY <1>1, RegisteredIs
  <2>2. t \in UNION {ToolsOf[m.inst[n]] : n \in Up(m)} <=> \E n \in Up(m) : t \in ToolsOf[m.inst[n]]
    OBVIOUS
  <2>3. \A n \in Names : Serves(m.inst, m.susp, n) => n \in Up(m)
    BY DEF Serves, Up, IsMounted
  <2>4. \A n \in Up(m) : t \in ToolsOf[m.inst[n]] => t \notin HostTools
    BY <1>1 DEF Shape, OffHost, Up, IsMounted
  <2> QED
    BY <2>1, <2>2, <2>3, <2>4 DEF External
<1> QED
  BY <1>2

LEMMA GoodIs ==
  ASSUME NEW m, NEW good, good = resolveStates(m)
  PROVE  /\ good \subseteq Up(m)
         /\ \A n \in Up(m) : n \in good <=> requirementsSatisfied(m, n, good)
<1>1. good \subseteq Up(m)
  BY DEF resolveStates
<1>2. ASSUME NEW S, NEW T, S \subseteq T, NEW n, requirementsSatisfied(m, n, S)
      PROVE  requirementsSatisfied(m, n, T)
  BY <1>2 DEF requirementsSatisfied
<1>3. ASSUME NEW n \in good PROVE requirementsSatisfied(m, n, good)
  <2>1. PICK S \in SUBSET Up(m) : n \in S /\ \A k \in S : requirementsSatisfied(m, k, S)
    BY DEF resolveStates
  <2>2. S \subseteq good
    BY <2>1 DEF resolveStates
  <2> QED
    BY <1>2, <2>1, <2>2
<1>4. ASSUME NEW n \in Up(m), requirementsSatisfied(m, n, good) PROVE n \in good
  <2>1. PICK S : S = good \cup {n}
    OBVIOUS
  <2>2. S \in SUBSET Up(m) /\ good \subseteq S
    BY <1>1, <2>1
  <2>3. \A k \in S : requirementsSatisfied(m, k, S)
    BY <1>2, <1>3, <1>4, <2>1, <2>2
  <2> QED
    BY <2>1, <2>2, <2>3 DEF resolveStates
<1> QED
  BY <1>1, <1>3, <1>4

IsDependencyOrder(m, S, k, o) ==
  /\ o \in [1 .. k -> S]
  /\ \A i, j \in 1 .. k : o[i] = o[j] => i = j
  /\ \A i, j \in 1 .. k : (\E r \in Requires[m.inst[o[j]]] : o[i] \in ProviderOf(m, r)) => i < j

\* One that requires none of the others goes first.
LEMMA OrderAfter ==
  ASSUME NEW m, NEW S, NEW c \in S, \A r \in Requires[m.inst[c]] : ProviderOf(m, r) \cap S = {},
         NEW k \in Nat, NEW o, IsDependencyOrder(m, S \ {c}, k, o)
  PROVE  \E q : IsDependencyOrder(m, S, k + 1, q)
<1>1. PICK q : q = [i \in 1 .. k + 1 |-> IF i = 1 THEN c ELSE o[i - 1]]
  OBVIOUS
<1>2. \A i \in 1 .. k + 1 : i # 1 => i - 1 \in 1 .. k
  OBVIOUS
<1>3. \A i \in 1 .. k : o[i] \in S /\ o[i] # c
  BY DEF IsDependencyOrder
<1>4. q[1] = c /\ \A i \in 1 .. k + 1 : i # 1 => q[i] = o[i - 1]
  BY <1>1
<1>5. q \in [1 .. k + 1 -> S]
  BY <1>1, <1>2, <1>3
<1>6. ASSUME NEW i \in 1 .. k + 1, NEW j \in 1 .. k + 1, q[i] = q[j] PROVE i = j
  <2>1. CASE i = 1 \/ j = 1
    BY <1>2, <1>3, <1>4, <1>6, <2>1
  <2>2. CASE i # 1 /\ j # 1
    <3>1. i - 1 \in 1 .. k /\ j - 1 \in 1 .. k /\ o[i - 1] = o[j - 1]
      BY <1>2, <1>4, <1>6, <2>2
    <3>2. i - 1 = j - 1
      BY <3>1 DEF IsDependencyOrder
    <3> QED
      BY <3>2
  <2> QED
    BY <2>1, <2>2
<1>7. ASSUME NEW i \in 1 .. k + 1, NEW j \in 1 .. k + 1, NEW r \in Requires[m.inst[q[j]]], q[i] \in ProviderOf(m, r)
      PROVE  i < j
  <2>1. q[i] \in S
    BY <1>5
  <2>2. j # 1
    BY <1>4, <1>7, <2>1
  <2>3. CASE i = 1
    BY <2>2, <2>3
  <2>4. CASE i # 1
    <3>1. i - 1 \in 1 .. k /\ j - 1 \in 1 .. k /\ q[i] = o[i - 1] /\ q[j] = o[j - 1]
      BY <1>2, <1>4, <2>2, <2>4
    <3>2. i - 1 < j - 1
      BY <1>7, <3>1 DEF IsDependencyOrder
    <3> QED
      BY <3>2
  <2> QED
    BY <2>3, <2>4
<1>8. IsDependencyOrder(m, S, k + 1, q)
  BY <1>5, <1>6, <1>7 DEF IsDependencyOrder
<1> QED
  BY <1>8

LEMMA UpIsFinite ==
  ASSUME NEW m, NEW S, S \subseteq Up(m)
  PROVE  IsFiniteSet(S) /\ Cardinality(S) \in Nat
<1>1. IsFiniteSet(1 .. Len(Order))
  BY LoaderAssumption, FS_Interval
<1>2. IsFiniteSet(Names)
  <2>1. PICK f : f = [i \in 1 .. Len(Order) |-> Order[i]]
    OBVIOUS
  <2>2. f \in Surjection(1 .. Len(Order), Names)
    BY <2>1 DEF Names, Surjection
  <2> QED
    BY <1>1, <2>2, FS_Surjection
<1>3. IsFiniteSet(S)
  BY <1>2, FS_Subset DEF Up
<1> QED
  BY <1>3, FS_CardinalityType

LEMMA OrderExists ==
  ASSUME NEW m, ~Cyclic(m), NEW S, S \subseteq Up(m)
  PROVE  \E o : IsDependencyOrder(m, S, Cardinality(S), o)
<1>1. SUFFICES ASSUME NEW T, T = {k \in Nat : \E R : /\ R \subseteq Up(m) /\ Cardinality(R) = k
                                                      /\ ~\E o : IsDependencyOrder(m, R, k, o)}, T # {}
               PROVE  FALSE
  <2>1. PICK T : T = {k \in Nat : \E R : /\ R \subseteq Up(m) /\ Cardinality(R) = k
                                         /\ ~\E o : IsDependencyOrder(m, R, k, o)}
    OBVIOUS
  <2>2. T = {}
    BY <1>1, <2>1
  <2>3. Cardinality(S) \in Nat
    BY UpIsFinite
  <2> QED
    BY <2>1, <2>2, <2>3
<1>2. T \subseteq Nat
  BY <1>1
<1>3. PICK k \in T : \A l \in T : k <= l
  BY <1>1, <1>2, LeastOf
<1>4. PICK R : R \subseteq Up(m) /\ Cardinality(R) = k /\ ~\E o : IsDependencyOrder(m, R, k, o)
  BY <1>1, <1>3
<1>5. k \in Nat /\ IsFiniteSet(R)
  BY <1>2, <1>3, <1>4, UpIsFinite
<1>6. CASE R = {}
  <2>1. k = 0
    BY <1>4, <1>6, FS_EmptySet
  <2>2. PICK o : o = [i \in 1 .. 0 |-> R]
    OBVIOUS
  <2>3. \A i \in 1 .. 0 : FALSE
    OBVIOUS
  <2>4. IsDependencyOrder(m, R, 0, o)
    BY <2>2, <2>3 DEF IsDependencyOrder
  <2> QED
    BY <1>4, <2>1, <2>4
<1>7. CASE R # {}
  <2>1. PICK c \in R : \A r \in Requires[m.inst[c]] : ProviderOf(m, r) \cap R = {}
    BY <1>4, <1>7 DEF Cyclic
  <2>2. Cardinality(R \ {c}) = k - 1 /\ k - 1 \in Nat
    <3>1. Cardinality(R \ {c}) = k - 1
      BY <1>4, <1>5, <2>1, FS_RemoveElement
    <3>2. Cardinality(R \ {c}) \in Nat
      BY <1>4, UpIsFinite
    <3> QED
      BY <3>1, <3>2
  <2>3. k - 1 \notin T
    BY <1>3, <1>5, <2>2
  <2>4. R \ {c} \subseteq Up(m)
    BY <1>4
  <2>5. PICK o : IsDependencyOrder(m, R \ {c}, k - 1, o)
    BY <1>1, <2>2, <2>3, <2>4
  <2>6. \E q : IsDependencyOrder(m, R, k - 1 + 1, q)
    BY <2>1, <2>2, <2>5, OrderAfter
  <2>7. k - 1 + 1 = k
    BY <1>5
  <2> QED
    BY <1>4, <2>6, <2>7
<1> QED
  BY <1>6, <1>7

LEMMA DependencyOrderIs ==
  ASSUME NEW m, ~Cyclic(m), NEW S, S \subseteq Up(m)
  PROVE  /\ IsDependencyOrder(m, S, Cardinality(S), dependencyOrder(m, S))
         /\ \A c \in S : \E i \in 1 .. Cardinality(S) : dependencyOrder(m, S)[i] = c
<1>1. PICK k : k = Cardinality(S)
  OBVIOUS
<1>2. k \in Nat /\ IsFiniteSet(S)
  BY <1>1, UpIsFinite
<1>3. PICK o : o = dependencyOrder(m, S)
  OBVIOUS
<1>4. IsDependencyOrder(m, S, k, o)
  <2>1. \A q : q \in [1 .. k -> S] => DOMAIN q = 1 .. k
    OBVIOUS
  <2>2. \E q \in [1 .. Cardinality(S) -> S] : /\ \A i, j \in DOMAIN q : q[i] = q[j] => i = j
                                 /\ \A i, j \in DOMAIN q : (\E r \in Requires[m.inst[q[j]]] : q[i] \in ProviderOf(m, r)) => i < j
    <3>1. PICK q : IsDependencyOrder(m, S, k, q)
      BY <1>1, OrderExists
    <3> QED
      BY <1>1, <2>1, <3>1 DEF IsDependencyOrder
  <2>3. /\ o \in [1 .. Cardinality(S) -> S]
        /\ \A i, j \in DOMAIN o : o[i] = o[j] => i = j
        /\ \A i, j \in DOMAIN o : (\E r \in Requires[m.inst[o[j]]] : o[i] \in ProviderOf(m, r)) => i < j
    BY <1>3, <2>2, Zenon DEF dependencyOrder
  <2> QED
    BY <1>1, <2>1, <2>3 DEF IsDependencyOrder
<1>5. o \in Injection(1 .. k, S)
  BY <1>4 DEF IsDependencyOrder, Injection, IsInjective
<1>6. Cardinality(1 .. k) = k
  BY <1>2, FS_Interval
<1>7. o \in Surjection(1 .. k, S)
  BY <1>1, <1>2, <1>5, <1>6, FS_Injection
<1> QED
  BY <1>1, <1>3, <1>4, <1>7 DEF Surjection

\* What the resumption of the first i plugins leaves: those of good that were
\* suspended and come later are still down.
RaisedTo(m, good, order, k, r, i) ==
  /\ r \in Mount /\ Shape(r.inst, r.susp, r.reg, r.led)
  /\ r.inst = m.inst /\ r.fail = m.fail /\ r.unconf = m.unconf /\ r.note = m.note
  /\ r.susp = (Up(m) \ good) \cup {order[j] : j \in i + 1 .. k}

Resolvable(m, good, order, k) ==
  /\ Fits(m) /\ ~Unresolvable(m) /\ good = resolveStates(m) /\ k \in Nat
  /\ IsDependencyOrder(m, good \cap m.susp, k, order)
  /\ \A c \in good \cap m.susp : \E i \in 1 .. k : order[i] = c

LEMMA LowIs ==
  ASSUME NEW m \in Mount, NEW good, NEW order, NEW k, Resolvable(m, good, order, k)
  PROVE  RaisedTo(m, good, order, k, suspend(m, (Up(m) \ good) \ m.susp), 0)
<1>1. PICK S : S = (Up(m) \ good) \ m.susp
  OBVIOUS
<1>2. PICK r2 : r2 = {e \in m.reg : e[1] \notin S}
  OBVIOUS
<1>3. PICK r : r = suspend(m, S)
  OBVIOUS
<1>4. S \subseteq Names /\ \A n \in S : m.inst[n] # Absent
  BY <1>1 DEF Up, IsMounted
<1>5. r = [m EXCEPT !.susp = m.susp \cup S, !.reg = r2]
  BY <1>2, <1>3 DEF suspend, Withdrawn, Mount
<1>6. r2 \subseteq m.reg
  BY <1>2
<1>7. /\ r \in Mount /\ r.inst = m.inst /\ r.susp = m.susp \cup S /\ r.reg = r2 /\ r.led = m.led
      /\ r.fail = m.fail /\ r.unconf = m.unconf /\ r.note = m.note
  BY <1>4, <1>5, <1>6 DEF Mount
<1>8. Shape(m.inst, m.susp, m.reg, m.led)
  BY DEF Resolvable, Fits
<1>9. Shape(m.inst, m.susp \cup S, r2, m.led)
  BY <1>2, <1>4, <1>8, ShapeSuspended
<1>10. {order[j] : j \in 0 + 1 .. k} = good \cap m.susp
  <2>1. \A c \in good \cap m.susp : \E i \in 1 .. k : order[i] = c
    BY DEF Resolvable
  <2>2. order \in [1 .. k -> good \cap m.susp]
    BY DEF Resolvable, IsDependencyOrder
  <2>3. 0 + 1 .. k = 1 .. k
    OBVIOUS
  <2> QED
    BY <2>1, <2>2, <2>3
<1>11. m.susp \subseteq Up(m)
  BY <1>8 DEF Shape, SuspendedAreUp, Up, IsMounted
<1>12. m.susp \cup S = (Up(m) \ good) \cup (good \cap m.susp)
  BY <1>1, <1>11
<1> QED
  BY <1>1, <1>3, <1>7, <1>9, <1>10, <1>12 DEF RaisedTo

LEMMA ResumeSucceeds ==
  ASSUME NEW m \in Mount, NEW good, NEW order, NEW k, Resolvable(m, good, order, k),
         NEW i \in 1 .. k, NEW r, RaisedTo(m, good, order, k, r, i - 1)
  PROVE  unregisteredRequires(r, order[i]) = {} /\ takenToolNames(r, order[i]) = {}
<1>1. PICK c : c = order[i]
  OBVIOUS
<1>2. c \in good /\ c \in m.susp /\ good \subseteq Up(m) /\ c \in Names /\ k \in Nat /\ i \in Nat /\ i - 1 + 1 = i
  BY <1>1, GoodIs DEF Resolvable, IsDependencyOrder, Up
<1>3. r \in Mount /\ Shape(r.inst, r.susp, r.reg, r.led) /\ r.inst = m.inst
  BY DEF RaisedTo
<1>4. r.susp = (Up(m) \ good) \cup {order[j] : j \in i .. k}
  BY <1>2 DEF RaisedTo
<1>5. \A n \in Up(m) : n \in Names /\ m.inst[n] \in Packages
  BY DEF Up, IsMounted, Mount
<1>6. ASSUME NEW t \in Requires[m.inst[c]], t \in Tools PROVE t \in Registered(r)
  <2>1. requirementsSatisfied(m, c, good)
    BY <1>2, GoodIs DEF Resolvable
  <2>2. t \in External(m) \/ ProviderOf(m, t) \cap good # {}
    BY <2>1, <1>6 DEF requirementsSatisfied
  <2>3. CASE t \in External(m)
    <3>1. t \in HostTools
      BY <2>3, ExternalIs DEF Resolvable
    <3> QED
      BY <1>3, <3>1, RegisteredIs
  <2>4. CASE ProviderOf(m, t) \cap good # {}
    <3>1. PICK p \in good : p \in ProviderOf(m, t)
      BY <2>4
    <3>2. p \in Up(m) /\ t \in Provides(m.inst[p])
      BY <3>1 DEF ProviderOf
    <3>3. t \in ToolsOf[m.inst[p]]
      BY <1>5, <1>6, <3>2, ToolsAre DEF Provides
    <3>4. p \notin r.susp
      <4>1. ASSUME NEW j \in i .. k, p = order[j] PROVE FALSE
        <5>1. j \in 1 .. k /\ i <= j
          BY <1>2, <4>1
        <5>2. order[j] \in ProviderOf(m, t) /\ t \in Requires[m.inst[order[i]]]
          BY <1>1, <1>6, <3>1, <4>1
        <5>3. j < i
          BY <5>1, <5>2 DEF Resolvable, IsDependencyOrder
        <5> QED
          BY <1>2, <5>1, <5>3
      <4> QED
        BY <1>4, <3>1, <4>1
    <3>5. Serves(r.inst, r.susp, p)
      BY <1>3, <1>5, <3>2, <3>4 DEF Serves, Up, IsMounted
    <3> QED
      BY <1>3, <1>5, <3>2, <3>3, <3>5, RegisteredIs
  <2> QED
    BY <2>2, <2>3, <2>4
<1>7. ASSUME NEW t \in ToolsOf[m.inst[c]], t \in Registered(r) PROVE FALSE
  <2>1. c \in Up(m) /\ m.inst[c] # Absent
    BY <1>2 DEF Up, IsMounted
  <2>2. t \notin HostTools
    BY <1>2, <1>3, <1>7, <2>1 DEF Shape, OffHost
  <2>3. PICK p \in Names : Serves(r.inst, r.susp, p) /\ t \in ToolsOf[r.inst[p]]
    BY <1>3, <1>7, <2>2, RegisteredIs
  <2>4. p \in Up(m) /\ t \in ToolsOf[m.inst[p]]
    BY <1>3, <2>3 DEF Serves, Up, IsMounted
  <2>5. ProviderOf(m, t) = {c}
    <3>1. t \in Provides(m.inst[c])
      BY <1>7 DEF Provides
    <3> QED
      BY <2>1, <3>1 DEF Resolvable, Unresolvable
  <2>6. p \in ProviderOf(m, t)
    BY <2>4 DEF ProviderOf, Provides
  <2>7. p = c
    BY <2>5, <2>6
  <2>8. c \in r.susp
    <3>1. i \in i .. k
      BY <1>2
    <3> QED
      BY <1>1, <1>4, <3>1
  <2> QED
    BY <2>3, <2>7, <2>8 DEF Serves
<1> QED
  BY <1>1, <1>3, <1>6, <1>7 DEF unregisteredRequires, takenToolNames

LEMMA ResumeRaises ==
  ASSUME NEW m \in Mount, NEW good, NEW order, NEW k, Resolvable(m, good, order, k),
         NEW i \in 1 .. k, NEW r, RaisedTo(m, good, order, k, r, i - 1)
  PROVE  RaisedTo(m, good, order, k, resume(r, order[i]), i)
<1>1. PICK c : c = order[i]
  OBVIOUS
<1>2. unregisteredRequires(r, c) = {} /\ takenToolNames(r, c) = {}
  BY <1>1, ResumeSucceeds
<1>3. PICK q : q = resume(r, c)
  OBVIOUS
<1>4. q = Refiled(r, c)
  BY <1>2, <1>3 DEF resume
<1>5. /\ r \in Mount /\ Shape(r.inst, r.susp, r.reg, r.led) /\ r.inst = m.inst /\ r.fail = m.fail
      /\ r.unconf = m.unconf /\ r.note = m.note
  BY DEF RaisedTo
<1>6. k \in Nat /\ i \in Nat /\ i - 1 + 1 = i /\ c \in good
  BY <1>1 DEF Resolvable, IsDependencyOrder
<1>7. r.susp = (Up(m) \ good) \cup {order[j] : j \in i .. k}
  BY <1>6 DEF RaisedTo
<1>8. c \in r.susp
  <2>1. i \in i .. k
    BY <1>6
  <2> QED
    BY <1>1, <1>7, <2>1
<1>9. r.inst[c] \in Packages /\ c \in Names
  BY <1>5, <1>8 DEF Shape, SuspendedAreUp, Mounts
<1>10. ToolsOf[r.inst[c]] \subseteq Tools
  BY <1>9, ToolsAre
<1>11. PICK r2 : r2 = r.reg \cup {c} \X ToolsOf[r.inst[c]]
  OBVIOUS
<1>12. r2 \subseteq (Names \cup {Host}) \X Tools
  BY <1>5, <1>9, <1>10, <1>11 DEF Mount
<1>13. q = [r EXCEPT !.susp = r.susp \ {c}, !.reg = r2]
  BY <1>4, <1>5, <1>11 DEF Refiled, Mount
<1>14. /\ q \in Mount /\ q.inst = r.inst /\ q.susp = r.susp \ {c} /\ q.reg = r2 /\ q.led = r.led
       /\ q.fail = r.fail /\ q.unconf = r.unconf /\ q.note = r.note
  BY <1>5, <1>12, <1>13 DEF Mount
<1>15. ToolsOf[r.inst[c]] \cap {e[2] : e \in r.reg} = {}
  BY <1>2 DEF takenToolNames, Registered
<1>16. Shape(r.inst, r.susp \ {c}, r2, r.led)
  BY <1>5, <1>8, <1>11, <1>15, ShapeResumed
<1>17. q.susp = (Up(m) \ good) \cup {order[j] : j \in i + 1 .. k}
  <2>1. \A j \in i + 1 .. k : order[j] # c
    <3>1. \A j \in i + 1 .. k : j \in 1 .. k /\ j # i
      BY <1>6
    <3> QED
      BY <1>1, <3>1 DEF Resolvable, IsDependencyOrder
  <2>2. \A j \in i .. k : j = i \/ j \in i + 1 .. k
    BY <1>6
  <2>3. \A j \in i + 1 .. k : j \in i .. k
    BY <1>6
  <2> QED
    BY <1>1, <1>6, <1>7, <1>14, <2>1, <2>2, <2>3
<1>18. RaisedTo(m, good, order, k, q, i)
  BY <1>5, <1>14, <1>16, <1>17 DEF RaisedTo
<1> QED
  BY <1>1, <1>3, <1>18

\* The dependency pass keeps what is mounted and suspends exactly what cannot
\* work.
LEMMA ConvergeDependenciesDoes ==
  ASSUME NEW m \in Mount, Fits(m), NEW r, r = convergeDependencies(m)
  PROVE  /\ r \in Mount /\ Fits(r) /\ r.inst = m.inst /\ r.fail = m.fail
         /\ r.unconf = m.unconf /\ r.note = m.note
         /\ ~Unresolvable(m) => r.susp = Up(m) \ resolveStates(m)
<1>1. CASE Unresolvable(m)
  BY <1>1 DEF convergeDependencies
<1>2. CASE ~Unresolvable(m)
  <2>1. PICK good : good = resolveStates(m)
    OBVIOUS
  <2>2. PICK back : back = good \cap m.susp
    OBVIOUS
  <2>3. PICK order : order = dependencyOrder(m, back)
    OBVIOUS
  <2>4. PICK k : k = Cardinality(back)
    OBVIOUS
  <2>5. PICK low : low = suspend(m, (Up(m) \ good) \ m.susp)
    OBVIOUS
  <2>6. PICK f : f = CHOOSE g : Raises(low, order, k, g)
    OBVIOUS
  <2>7. back \subseteq Up(m) /\ ~Cyclic(m)
    BY <1>2, <2>1, <2>2, GoodIs DEF Unresolvable
  <2>8. k \in Nat
    BY <2>4, <2>7, UpIsFinite
  <2>9. Raises(low, order, k, f)
    <3>1. k \in 0 .. k
      BY <2>8
    <3>2. \E g : Raises(low, order, k, g)
      BY <2>8, <3>1, RaisesOf
    <3> QED
      BY <2>6, <3>2
  <2>10. r = f[k]
    BY <1>2, <2>1, <2>2, <2>3, <2>4, <2>5, <2>6 DEF convergeDependencies, Raises
  <2>11. Resolvable(m, good, order, k)
    BY <1>2, <2>1, <2>2, <2>3, <2>4, <2>7, <2>8, DependencyOrderIs DEF Resolvable
  <2>12. f[0] = low /\ \A i \in 1 .. k : f[i] = resume(f[i - 1], order[i])
    <3>1. \A i \in 0 .. k : f[i] = IF i = 0 THEN low ELSE resume(f[i - 1], order[i])
      BY <2>9 DEF Raises
    <3>2. 0 \in 0 .. k /\ \A i \in 1 .. k : i \in 0 .. k /\ i # 0
      BY <2>8
    <3> QED
      BY <3>1, <3>2
  <2>13. \A i \in 0 .. k : RaisedTo(m, good, order, k, f[i], i)
    <3>1. SUFFICES ASSUME NEW T, T = {i \in 0 .. k : ~RaisedTo(m, good, order, k, f[i], i)}, T # {} PROVE FALSE
      <4>1. PICK T : T = {i \in 0 .. k : ~RaisedTo(m, good, order, k, f[i], i)}
        OBVIOUS
      <4>2. T = {}
        BY <3>1, <4>1
      <4> QED
        BY <4>1, <4>2
    <3>2. T \subseteq Nat
      BY <3>1
    <3>3. PICK i \in T : \A l \in T : i <= l
      BY <3>1, <3>2, LeastOf
    <3>4. i \in 0 .. k /\ ~RaisedTo(m, good, order, k, f[i], i)
      BY <3>1, <3>3
    <3>5. i # 0
      BY <2>5, <2>11, <2>12, <3>4, LowIs
    <3>6. i \in 1 .. k /\ i - 1 \in 0 .. k /\ i - 1 < i
      BY <2>8, <3>4, <3>5
    <3>7. RaisedTo(m, good, order, k, f[i - 1], i - 1)
      BY <3>1, <3>3, <3>6
    <3> QED
      BY <2>11, <2>12, <3>4, <3>6, <3>7, ResumeRaises
  <2>14. RaisedTo(m, good, order, k, r, k)
    <3>1. k \in 0 .. k
      BY <2>8
    <3> QED
      BY <2>10, <2>13, <3>1
  <2>15. {order[j] : j \in k + 1 .. k} = {}
    <3>1. \A j \in k + 1 .. k : FALSE
      BY <2>8
    <3> QED
      BY <3>1
  <2>16. r.susp = Up(m) \ good
    BY <2>14, <2>15 DEF RaisedTo
  <2>17. Up(r) = Up(m)
    BY <2>14 DEF RaisedTo, Up, IsMounted
  <2> QED
    BY <2>1, <2>14, <2>16, <2>17 DEF RaisedTo, Fits
<1> QED
  BY <1>1, <1>2

\* What is up after the dependency pass works, what is suspended waits.
LEMMA ConvergedWorks ==
  ASSUME NEW m \in Mount, Fits(m), ~Unresolvable(m), NEW r, r = convergeDependencies(m), NEW n \in Up(r)
  PROVE  n \notin r.susp <=> \A q \in Requires[r.inst[n]] : q \in Registered(r) \/ ResolveService(r, q) # {}
<1>1. PICK good : good = resolveStates(m)
  OBVIOUS
<1>2. r \in Mount /\ Fits(r) /\ r.inst = m.inst /\ r.susp = Up(m) \ good
  BY <1>1, ConvergeDependenciesDoes
<1>3. Up(r) = Up(m) /\ good \subseteq Up(m) /\ \A k \in Up(m) : k \in good <=> requirementsSatisfied(m, k, good)
  BY <1>1, <1>2, GoodIs DEF Up, IsMounted
<1>4. ASSUME NEW q PROVE q \in External(m) \/ ProviderOf(m, q) \cap good # {} <=> q \in Registered(r) \/ ResolveService(r, q) # {}
  <2>1. q \in External(m) <=> q \in HostTools
    BY ExternalIs
  <2>2. q \in Registered(r) <=> \/ q \in HostTools
                                \/ \E k \in Names : Serves(r.inst, r.susp, k) /\ q \in ToolsOf[r.inst[k]]
    BY <1>2, RegisteredIs DEF Fits
  <2>3. \A k \in Names : Serves(r.inst, r.susp, k) <=> k \in good
    BY <1>2, <1>3 DEF Serves, Up, IsMounted
  <2>4. \A k : k \in ResolveService(r, q) <=> k \in good /\ q \in ServicesOf[m.inst[k]]
    BY <1>2, <1>3 DEF ResolveService
  <2>5. \A k : k \in ProviderOf(m, q) \cap good <=> k \in good /\ (q \in ToolsOf[m.inst[k]] \/ q \in ServicesOf[m.inst[k]])
    BY <1>3 DEF ProviderOf, Provides
  <2>6. \A k \in good : k \in Names
    BY <1>3 DEF Up
  <2>7. ASSUME NEW k \in ProviderOf(m, q) \cap good PROVE q \in Registered(r) \/ ResolveService(r, q) # {}
    BY <1>2, <2>2, <2>3, <2>4, <2>5, <2>6, <2>7
  <2>8. ASSUME q \in Registered(r) PROVE q \in External(m) \/ ProviderOf(m, q) \cap good # {}
    <3>1. CASE q \in HostTools
      BY <2>1, <3>1
    <3>2. CASE q \notin HostTools
      <4>1. PICK k \in Names : Serves(r.inst, r.susp, k) /\ q \in ToolsOf[r.inst[k]]
        BY <2>2, <2>8, <3>2
      <4>2. k \in ProviderOf(m, q) \cap good
        BY <1>2, <2>3, <2>5, <4>1
      <4> QED
        BY <4>2
    <3> QED
      BY <3>1, <3>2
  <2>9. ASSUME NEW k \in ResolveService(r, q) PROVE ProviderOf(m, q) \cap good # {}
    BY <2>4, <2>5, <2>9
  <2> QED
    BY <2>1, <2>2, <2>7, <2>8, <2>9
<1>5. n \in Up(m) /\ (n \in good <=> \A q \in Requires[m.inst[n]] : q \in External(m) \/ ProviderOf(m, q) \cap good # {})
  BY <1>3 DEF requirementsSatisfied
<1> QED
  BY <1>2, <1>4, <1>5

-----------------------------------------------------------------------------
(* The loader's invariant.  Whatever has left the map and is not disposed of  *)
(* still holds what it filed: kept is what is mounted with that.              *)

Stages == {<<"idle">>} \cup {"dispose"} \X Names \X Packages \cup {"record"} \X Names
InUnload(t) == unloading[t] # <<"idle">>

Holds(kept) ==
  /\ Shape(kept, suspended, registry, ledger)
  /\ \A n \in Names : instances[n] # Absent => kept[n] = instances[n]
  /\ \A n \in Names : instances[n] = Absent /\ kept[n] # Absent => \E t \in Tasks : unloading[t] = <<"dispose", n, kept[n]>>
  /\ \A t \in Tasks : unloading[t][1] = "dispose" => kept[unloading[t][2]] = unloading[t][3]

\* A task unloads what nobody else does and nothing mounted.
Unloads == \A t \in Tasks : InUnload(t) =>
  /\ upset
  /\ instances[unloading[t][2]] = Absent /\ unloading[t][2] \notin suspended /\ unloading[t][2] \notin unconfirmed
  /\ \A u \in Tasks : InUnload(u) /\ unloading[u][2] = unloading[t][2] => u = t

LoaderInv ==
  /\ LoaderTypeOK /\ unloading \in [Tasks -> Stages]
  /\ \E kept : Holds(kept)
  /\ Unloads
  /\ \A n \in Names : instances[n] # Absent => n \notin failures /\ n \notin unconfirmed
  /\ RevokedIsDown /\ NeverSilentlyGone /\ ConvergedIsServed

LEMMA NowIs ==
  /\ Now.inst = instances /\ Now.susp = suspended /\ Now.reg = registry /\ Now.led = ledger
  /\ Now.fail = failures /\ Now.unconf = unconfirmed /\ Now.note = noted
  /\ \A n : n \in Up(Now) <=> n \in Names /\ instances[n] # Absent
  /\ \A n : IsMounted(Now, n) <=> instances[n] # Absent
BY DEF Now, Up, IsMounted

LEMMA StageIs ==
  ASSUME NEW s \in Stages
  PROVE  \/ s = <<"idle">>
         \/ \E n \in Names, p \in Packages : s = <<"dispose", n, p>>
         \/ \E n \in Names : s = <<"record", n>>
BY DEF Stages

\* The parts of LoaderSafe hold where the invariant does.
LEMMA ContributesFrom ==
  ASSUME LoaderInv
  PROVE  ContributesWhenUp
<1>1. PICK kept : Holds(kept)
  BY DEF LoaderInv
<1>2. SUFFICES ASSUME NEW n \in Names \ InProgress
               PROVE  {e[2] : e \in {f \in registry : f[1] = n}} =
                        IF instances[n] # Absent /\ n \notin suspended THEN ToolsOf[instances[n]] ELSE {}
  BY NowIs DEF ContributesWhenUp
<1>3. Shape(kept, suspended, registry, ledger)
  BY <1>1 DEF Holds
<1>4. kept[n] = instances[n]
  <2>1. CASE instances[n] # Absent
    BY <1>1, <2>1 DEF Holds
  <2>2. CASE instances[n] = Absent
    <3>1. ASSUME kept[n] # Absent PROVE FALSE
      <4>1. PICK t \in Tasks : unloading[t] = <<"dispose", n, kept[n]>>
        BY <1>1, <2>2, <3>1 DEF Holds
      <4>2. unloading[t] # <<"idle">> /\ unloading[t][2] = n
        BY <4>1
      <4> QED
        BY <1>2, <4>2 DEF InProgress
    <3> QED
      BY <2>2, <3>1
  <2> QED
    BY <2>1, <2>2
<1>5. n \in Contributors /\ n # Host /\ registry \subseteq Contributors \X Tools
  BY <1>2, <1>3, HostIsNoPlugin DEF Contributors, Shape
<1>6. \A t \in Tools : <<n, t>> \in registry <=> instances[n] # Absent /\ n \notin suspended /\ t \in ToolsOf[instances[n]]
  <2> TAKE t \in Tools
  <2>1. <<n, t>> \in registry <=> \/ n = Host /\ t \in HostTools
                                  \/ Serves(kept, suspended, n) /\ t \in ToolsOf[kept[n]]
    BY <1>3, <1>5, FilesAt
  <2> QED
    BY <1>2, <1>4, <1>5, <2>1 DEF Serves
<1>7. \A t : t \in {e[2] : e \in {f \in registry : f[1] = n}} <=> t \in Tools /\ <<n, t>> \in registry
  <2>1. ASSUME NEW t, t \in {e[2] : e \in {f \in registry : f[1] = n}} PROVE t \in Tools /\ <<n, t>> \in registry
    <3>1. PICK e \in registry : e[1] = n /\ t = e[2]
      BY <2>1
    <3>2. e \in Contributors \X Tools
      BY <1>5
    <3>3. e = <<e[1], e[2]>> /\ e[2] \in Tools
      BY <3>2
    <3> QED
      BY <3>1, <3>3
  <2>2. ASSUME NEW t, <<n, t>> \in registry PROVE t \in {e[2] : e \in {f \in registry : f[1] = n}}
    <3>1. <<n, t>>[1] = n /\ <<n, t>>[2] = t
      OBVIOUS
    <3> QED
      BY <2>2, <3>1
  <2> QED
    BY <2>1, <2>2
<1>8. instances[n] # Absent => ToolsOf[instances[n]] \subseteq Tools
  <2>1. instances[n] \in Packages \cup {Absent}
    BY <1>2 DEF LoaderInv, LoaderTypeOK, Mount, Now
  <2> QED
    BY <2>1, ToolsAre
<1> QED
  BY <1>6, <1>7, <1>8

LEMMA LedgerFrom ==
  ASSUME LoaderInv
  PROVE  LedgerMatches
<1>1. PICK kept : Holds(kept)
  BY DEF LoaderInv
<1>2. Shape(kept, suspended, registry, ledger) /\ ledger \subseteq Packages
  BY <1>1 DEF Holds, Shape
<1>3. instances \in Mounts
  BY DEF LoaderInv, LoaderTypeOK, Mount, Mounts, Now
<1>4. ASSUME NEW p \in ledger
      PROVE  \/ \E n \in Up(Now) : p = instances[n]
             \/ \E t \in Tasks : unloading[t][1] = "dispose" /\ p = unloading[t][3]
  <2>1. p \in Packages /\ NameOf[p] \in Names /\ p # Absent /\ kept[NameOf[p]] = p
    BY <1>2, ToolsAre DEF Shape, Owned
  <2>2. CASE instances[NameOf[p]] # Absent
    <3>1. instances[NameOf[p]] = p /\ NameOf[p] \in Up(Now)
      BY <1>1, <2>1, <2>2, NowIs DEF Holds
    <3> QED
      BY <3>1
  <2>3. CASE instances[NameOf[p]] = Absent
    <3>1. PICK t \in Tasks : unloading[t] = <<"dispose", NameOf[p], p>>
      BY <1>1, <2>1, <2>3 DEF Holds
    <3>2. unloading[t][1] = "dispose" /\ p = unloading[t][3]
      BY <3>1
    <3> QED
      BY <3>2
  <2> QED
    BY <2>2, <2>3
<1>5. ASSUME NEW n \in Up(Now) PROVE instances[n] \in ledger
  <2>1. n \in Names /\ instances[n] # Absent /\ kept[n] = instances[n]
    BY <1>1, <1>5, NowIs DEF Holds
  <2>2. kept[n] \in Packages /\ NameOf[kept[n]] = n
    BY <1>2, <2>1 DEF Shape, Mounts, RightName
  <2> QED
    BY <1>2, <2>1, <2>2 DEF Shape, Owned
<1>6. ASSUME NEW t \in Tasks, unloading[t][1] = "dispose" PROVE unloading[t][3] \in ledger
  <2>1. PICK n \in Names, p \in Packages : unloading[t] = <<"dispose", n, p>>
    <3>1. unloading[t] \in Stages
      BY DEF LoaderInv
    <3> QED
      BY <1>6, <3>1, StageIs
  <2>2. kept[n] = p /\ unloading[t][3] = p /\ p # Absent
    BY <1>1, <1>6, <2>1, ToolsAre DEF Holds
  <2>3. NameOf[p] = n
    BY <1>2, <2>1, <2>2 DEF Shape, RightName
  <2> QED
    BY <1>2, <2>1, <2>2, <2>3 DEF Shape, Owned
<1>7. \A p : p \in {instances[n] : n \in Up(Now)} <=> \E n \in Up(Now) : p = instances[n]
  OBVIOUS
<1>8. \A p : p \in {unloading[t][3] : t \in {u \in Tasks : unloading[u][1] = "dispose"}}
               <=> \E t \in Tasks : unloading[t][1] = "dispose" /\ p = unloading[t][3]
  OBVIOUS
<1> QED
  BY <1>4, <1>5, <1>6, <1>7, <1>8 DEF LedgerMatches

LEMMA OneToolFrom ==
  ASSUME LoaderInv
  PROVE  OneTool
<1>1. PICK kept : Holds(kept)
  BY DEF LoaderInv
<1>2. Shape(kept, suspended, registry, ledger)
  BY <1>1 DEF Holds
<1> QED
  BY <1>2, ShapeIsOneTool DEF OneTool

LEMMA OneRowFrom ==
  ASSUME LoaderInv
  PROVE  OneRow
<1>1. SUFFICES ASSUME NEW r \in Status(Now), NEW s \in Status(Now), r[1] = s[1] PROVE r = s
  BY DEF OneRow
<1>2. ASSUME NEW x \in Status(Now)
      PROVE  \/ /\ x[1] \in Up(Now) /\ x = <<x[1], IF x[1] \in suspended THEN "suspended" ELSE "loaded">>
             \/ x[1] \in failures /\ x = <<x[1], "failed">>
  BY <1>2, NowIs DEF Status
<1>3. \A n : n \in Up(Now) => n \notin failures
  BY NowIs DEF LoaderInv
<1> QED
  BY <1>1, <1>2, <1>3

-----------------------------------------------------------------------------
(* The steps.                                                                 *)

LEMMA LoaderInitInv ==
  ASSUME LoaderInit
  PROVE  LoaderInv
<1> USE DEF LoaderInit
<1>1. \A n \in Names : instances[n] = Absent /\ target[n] = Absent
  OBVIOUS
<1>2. \A t \in Tasks : unloading[t] = <<"idle">>
  OBVIOUS
<1>3. HostTools \subseteq Tools
  BY DEF Tools
<1>4. Now \in Mount
  BY <1>3 DEF Now, Mount
<1>5. LoaderTypeOK
  BY <1>1, <1>4 DEF LoaderTypeOK, Keys
<1>6. unloading \in [Tasks -> Stages]
  BY DEF Stages
<1>7. Shape(instances, suspended, registry, ledger)
  <2>1. instances \in Mounts /\ registry \subseteq Contributors \X Tools
    BY <1>3 DEF Mounts, Contributors
  <2>2. RightName(instances) /\ SuspendedAreUp(instances, suspended) /\ OffHost(instances) /\ Apart(instances, suspended)
    BY <1>1 DEF RightName, SuspendedAreUp, OffHost, Apart, Serves
  <2>3. Files(instances, suspended, registry)
    BY <1>1 DEF Files, Serves
  <2>4. Owned(instances, ledger)
    <3> SUFFICES ASSUME NEW p \in Packages PROVE p \in ledger <=> instances[NameOf[p]] = p
      BY DEF Owned
    <3> QED
      BY <1>1, ToolsAre
  <2> QED
    BY <2>1, <2>2, <2>3, <2>4 DEF Shape
<1>8. Holds(instances)
  <2>1. \A t \in Tasks : unloading[t][1] # "dispose"
    BY <1>2
  <2> QED
    BY <1>1, <1>7, <2>1 DEF Holds
<1>9. Unloads
  BY <1>2 DEF Unloads, InUnload
<1>10. RevokedIsDown /\ NeverSilentlyGone /\ ConvergedIsServed
  BY <1>1, NowIs DEF RevokedIsDown, NeverSilentlyGone, ConvergedIsServed
<1> QED
  BY <1>1, <1>5, <1>6, <1>8, <1>9, <1>10 DEF LoaderInv

LEMMA RevokeKeeps ==
  ASSUME LoaderInv, NEW k \in Keys, Revoke(k)
  PROVE  LoaderInv' /\ unconfirmed' = unconfirmed /\ target' = target
<1>1. UNCHANGED <<instances, suspended, registry, ledger, failures, unconfirmed, noted, target, judged, unresolved, upset, unloading>>
  BY DEF Revoke, mountVars
<1>2. Now' = Now
  BY <1>1 DEF Now
<1>3. revoked' \subseteq Keys
  BY DEF Revoke, LoaderInv, LoaderTypeOK
<1>4. LoaderTypeOK'
  BY <1>1, <1>2, <1>3 DEF LoaderInv, LoaderTypeOK
<1>5. (\E kept : Holds(kept))'
  BY <1>1 DEF LoaderInv, Holds
<1>6. Unloads'
  BY <1>1 DEF LoaderInv, Unloads, InUnload
<1>7. RevokedIsDown' /\ NeverSilentlyGone'
  BY <1>1, <1>2 DEF LoaderInv, RevokedIsDown, NeverSilentlyGone, InProgress
<1>8. ConvergedIsServed'
  BY <1>1, <1>2 DEF LoaderInv, ConvergedIsServed, Works
<1> QED
  BY <1>1, <1>4, <1>5, <1>6, <1>7, <1>8 DEF LoaderInv

\* Those in progress after a task has moved on.
LEMMA ForsakeKeeps ==
  ASSUME LoaderInv, NEW t \in Tasks, NEW n \in Names, Forsake(t, n)
  PROVE  LoaderInv' /\ unconfirmed' = unconfirmed /\ target' = target
<1>1. /\ unloading[t] = <<"idle">> /\ instances[n] # Absent /\ n \notin suspended
      /\ instances' = [instances EXCEPT ![n] = Absent] /\ noted' = noted \ {n}
      /\ unloading' = [unloading EXCEPT ![t] = <<"dispose", n, instances[n]>>] /\ upset' = TRUE
      /\ UNCHANGED <<suspended, registry, ledger, failures, unconfirmed, target, revoked, judged, unresolved>>
  BY NowIs DEF Forsake
<1>2. Now \in Mount /\ unloading \in [Tasks -> Stages]
  BY DEF LoaderInv, LoaderTypeOK
<1>3. instances \in Mounts /\ instances[n] \in Packages
  BY <1>1, <1>2 DEF Mount, Now, Mounts
<1>4. instances'[n] = Absent /\ \A k \in Names : k # n => instances'[k] = instances[k]
  BY <1>1, <1>3 DEF Mounts
<1>5. unloading'[t] = <<"dispose", n, instances[n]>> /\ \A u \in Tasks : u # t => unloading'[u] = unloading[u]
  BY <1>1, <1>2
<1>6. unloading'[t] \in Stages
  BY <1>3, <1>5 DEF Stages
<1>7. unloading' \in [Tasks -> Stages]
  BY <1>1, <1>2, <1>6
<1>8. LoaderTypeOK'
  <2>1. instances' \in Mounts
    BY <1>1, <1>3 DEF Mounts
  <2>2. (Now \in Mount)'
    BY <1>1, <1>2, <2>1 DEF Now, Mount, Mounts
  <2> QED
    BY <1>1, <2>2 DEF LoaderInv, LoaderTypeOK
<1>9. \A u \in Tasks : InUnload(u) => instances[unloading[u][2]] = Absent
  BY DEF LoaderInv, Unloads
<1>10. \A u \in Tasks : u # t => (InUnload(u)' <=> InUnload(u))
  BY <1>5 DEF InUnload
<1>11. InUnload(t)' /\ unloading'[t][1] = "dispose" /\ unloading'[t][2] = n /\ unloading'[t][3] = instances[n]
  BY <1>5 DEF InUnload
<1>12. (\E kept : Holds(kept))'
  <2>1. PICK kept : Holds(kept)
    BY DEF LoaderInv
  <2>2. kept[n] = instances[n]
    BY <1>1, <2>1 DEF Holds
  <2>3. Shape(kept, suspended', registry', ledger')
    BY <1>1, <2>1 DEF Holds
  <2>4. \A k \in Names : instances'[k] # Absent => kept[k] = instances'[k]
    BY <1>4, <2>1 DEF Holds
  <2>5. ASSUME NEW k \in Names, instances'[k] = Absent, kept[k] # Absent
        PROVE  \E u \in Tasks : unloading'[u] = <<"dispose", k, kept[k]>>
    <3>1. CASE k = n
      BY <1>5, <2>2, <3>1
    <3>2. CASE k # n
      <4>1. PICK u \in Tasks : unloading[u] = <<"dispose", k, kept[k]>>
        BY <1>4, <2>1, <2>5, <3>2 DEF Holds
      <4>2. u # t
        BY <1>1, <4>1
      <4> QED
        BY <1>5, <4>1, <4>2
    <3> QED
      BY <3>1, <3>2
  <2>6. \A u \in Tasks : unloading'[u][1] = "dispose" => kept[unloading'[u][2]] = unloading'[u][3]
    <3> TAKE u \in Tasks
    <3>1. CASE u = t
      BY <1>11, <2>2, <3>1
    <3>2. CASE u # t
      BY <1>5, <2>1, <3>2 DEF Holds
    <3> QED
      BY <3>1, <3>2
  <2>7. Holds(kept)'
    BY <2>3, <2>4, <2>5, <2>6 DEF Holds
  <2> QED
    BY <2>7
<1>13. Unloads'
  <2> SUFFICES ASSUME NEW u \in Tasks, InUnload(u)'
               PROVE  /\ upset'
                      /\ instances'[unloading'[u][2]] = Absent /\ unloading'[u][2] \notin suspended' /\ unloading'[u][2] \notin unconfirmed'
                      /\ \A v \in Tasks : InUnload(v)' /\ unloading'[v][2] = unloading'[u][2] => v = u
    BY DEF Unloads
  <2>1. CASE u = t
    <3>1. n \notin unconfirmed
      BY <1>1 DEF LoaderInv
    <3>2. ASSUME NEW v \in Tasks, InUnload(v)', unloading'[v][2] = n, v # t PROVE FALSE
      BY <1>1, <1>5, <1>9, <1>10, <3>2
    <3> QED
      BY <1>1, <1>4, <1>11, <2>1, <3>1, <3>2
  <2>2. CASE u # t
    <3>1. InUnload(u) /\ unloading'[u] = unloading[u]
      BY <1>5, <1>10, <2>2
    <3>2. /\ instances[unloading[u][2]] = Absent /\ unloading[u][2] \notin suspended /\ unloading[u][2] \notin unconfirmed
          /\ \A v \in Tasks : InUnload(v) /\ unloading[v][2] = unloading[u][2] => v = u
      BY <3>1 DEF LoaderInv, Unloads
    <3>3. unloading[u][2] \in Names
      <4>1. unloading[u] \in Stages /\ unloading[u] # <<"idle">>
        BY <1>2, <3>1 DEF InUnload
      <4>2. CASE \E k \in Names, p \in Packages : unloading[u] = <<"dispose", k, p>>
        BY <4>2
      <4>3. CASE \E k \in Names : unloading[u] = <<"record", k>>
        BY <4>3
      <4> QED
        BY <4>1, <4>2, <4>3, StageIs
    <3>4. unloading[u][2] # n
      BY <1>1, <3>2
    <3>5. \A v \in Tasks : InUnload(v)' /\ unloading'[v][2] = unloading'[u][2] => v = u
      <4> TAKE v \in Tasks
      <4>1. CASE v = t
        BY <1>11, <3>1, <3>4, <4>1
      <4>2. CASE v # t
        BY <1>5, <1>10, <3>1, <3>2, <4>2
      <4> QED
        BY <4>1, <4>2
    <3> QED
      BY <1>1, <1>4, <3>1, <3>2, <3>3, <3>4, <3>5
  <2> QED
    BY <2>1, <2>2
<1>14. \A k \in Names : instances'[k] # Absent => k \notin failures' /\ k \notin unconfirmed'
  BY <1>1, <1>4 DEF LoaderInv
<1>15. RevokedIsDown'
  <2>1. \A k \in Names : instances[k] # Absent => KeyOf[instances[k]] \notin judged
    BY NowIs DEF LoaderInv, RevokedIsDown
  <2> QED
    BY <1>1, <1>4, <2>1 DEF RevokedIsDown, Up, IsMounted, Now
<1>16. NeverSilentlyGone'
  <2>1. \A k \in Names : target[k] # Absent => instances[k] # Absent \/ k \in failures \/ k \in InProgress
    BY NowIs DEF LoaderInv, NeverSilentlyGone
  <2>2. \A k : k \in InProgress => k \in InProgress'
    <3> SUFFICES ASSUME NEW u \in Tasks, unloading[u] # <<"idle">> PROVE unloading[u][2] \in InProgress'
      BY DEF InProgress
    <3>1. u # t
      BY <1>1
    <3> QED
      BY <1>5, <3>1 DEF InProgress
  <2>3. n \in InProgress'
    BY <1>11 DEF InProgress, InUnload
  <2> QED
    BY <1>1, <1>4, <2>1, <2>2, <2>3 DEF NeverSilentlyGone, IsMounted, Now
<1>17. ConvergedIsServed'
  BY <1>1 DEF ConvergedIsServed
<1> QED
  BY <1>1, <1>7, <1>8, <1>12, <1>13, <1>14, <1>15, <1>16, <1>17 DEF LoaderInv

LEMMA DisposeKeeps ==
  ASSUME LoaderInv, NEW t \in Tasks, Dispose(t)
  PROVE  LoaderInv' /\ unconfirmed' = unconfirmed /\ target' = target
<1>0. unloading \in [Tasks -> Stages] /\ Now \in Mount /\ unloading[t][1] = "dispose"
  BY DEF LoaderInv, LoaderTypeOK, Dispose
<1>1. PICK n \in Names, p \in Packages : unloading[t] = <<"dispose", n, p>>
  BY <1>0, StageIs
<1>2. /\ registry' = {e \in registry : e[1] \notin {n}} /\ ledger' = ledger \ {p}
      /\ unloading' = [unloading EXCEPT ![t] = <<"record", n>>]
      /\ UNCHANGED <<instances, suspended, failures, unconfirmed, noted, target, revoked, judged, unresolved, upset>>
  BY <1>1, NowIs DEF Dispose, Withdrawn
<1>3. unloading'[t] = <<"record", n>> /\ \A u \in Tasks : u # t => unloading'[u] = unloading[u]
  BY <1>0, <1>2
<1>4. unloading'[t] \in Stages
  BY <1>3 DEF Stages
<1>5. unloading' \in [Tasks -> Stages]
  BY <1>0, <1>2, <1>4
<1>6. InUnload(t) /\ unloading[t][2] = n /\ unloading[t][3] = p /\ InUnload(t)' /\ unloading'[t][2] = n /\ unloading'[t][1] = "record"
  BY <1>1, <1>3 DEF InUnload
<1>7. \A u \in Tasks : (InUnload(u)' <=> InUnload(u)) /\ (InUnload(u) => unloading'[u][2] = unloading[u][2])
  <2> TAKE u \in Tasks
  <2>1. CASE u = t
    BY <1>6, <2>1
  <2>2. CASE u # t
    BY <1>3, <2>2 DEF InUnload
  <2> QED
    BY <2>1, <2>2
<1>8. /\ upset /\ instances[n] = Absent /\ n \notin suspended
      /\ \A u \in Tasks : InUnload(u) /\ unloading[u][2] = n => u = t
  BY <1>6 DEF LoaderInv, Unloads
<1>9. LoaderTypeOK'
  <2>1. registry' \subseteq registry /\ ledger' \subseteq ledger
    BY <1>2
  <2>2. (Now \in Mount)'
    BY <1>0, <1>2, <2>1 DEF Now, Mount
  <2> QED
    BY <1>2, <2>2 DEF LoaderInv, LoaderTypeOK
<1>10. (\E kept : Holds(kept))'
  <2>1. PICK kept : Holds(kept)
    BY DEF LoaderInv
  <2>2. kept[n] = p /\ Shape(kept, suspended, registry, ledger) /\ kept \in Mounts
    BY <1>0, <1>6, <2>1 DEF Holds, Shape
  <2>3. PICK h2 : h2 = [k \in Names |-> IF k \in {n} THEN Absent ELSE kept[k]]
    OBVIOUS
  <2>4. h2[n] = Absent /\ \A k \in Names : k # n => h2[k] = kept[k]
    BY <2>3
  <2>5. Shape(h2, suspended', registry', ledger')
    <3>1. ledger' = ledger \ {kept[k] : k \in {n}}
      BY <1>2, <2>2
    <3>2. suspended' = suspended \ {n}
      BY <1>2, <1>8
    <3>3. registry' = {e \in registry : e[1] \notin {n}} /\ {n} \subseteq Names
      BY <1>2
    <3>4. ASSUME NEW r2, NEW l2, r2 = {e \in registry : e[1] \notin {n}}, l2 = ledger \ {kept[k] : k \in {n}}
          PROVE  Shape(h2, suspended \ {n}, r2, l2)
      BY <2>2, <2>3, <3>3, <3>4, ShapeWithout
    <3> QED
      BY <3>1, <3>2, <3>3, <3>4
  <2>6. \A k \in Names : instances'[k] # Absent => h2[k] = instances'[k]
    BY <1>2, <1>8, <2>1, <2>4 DEF Holds
  <2>7. ASSUME NEW k \in Names, instances'[k] = Absent, h2[k] # Absent
        PROVE  \E u \in Tasks : unloading'[u] = <<"dispose", k, h2[k]>>
    <3>1. k # n /\ h2[k] = kept[k]
      BY <2>4, <2>7
    <3>2. PICK u \in Tasks : unloading[u] = <<"dispose", k, kept[k]>>
      BY <1>2, <2>1, <2>7, <3>1 DEF Holds
    <3>3. u # t
      BY <1>1, <3>1, <3>2
    <3> QED
      BY <1>3, <3>1, <3>2, <3>3
  <2>8. \A u \in Tasks : unloading'[u][1] = "dispose" => h2[unloading'[u][2]] = unloading'[u][3]
    <3> SUFFICES ASSUME NEW u \in Tasks, unloading'[u][1] = "dispose" PROVE h2[unloading'[u][2]] = unloading'[u][3]
      OBVIOUS
    <3>1. u # t
      BY <1>6
    <3>2. unloading'[u] = unloading[u] /\ unloading[u][1] = "dispose"
      BY <1>3, <3>1
    <3>3. PICK k \in Names, q \in Packages : unloading[u] = <<"dispose", k, q>>
      <4>1. unloading[u] \in Stages
        BY <1>0
      <4> QED
        BY <3>2, <4>1, StageIs
    <3>4. k # n
      <4>1. InUnload(u) /\ unloading[u][2] = k
        BY <3>3 DEF InUnload
      <4> QED
        BY <1>8, <3>1, <4>1
    <3>5. kept[k] = q
      <4>1. kept[unloading[u][2]] = unloading[u][3]
        BY <2>1, <3>2 DEF Holds
      <4> QED
        BY <3>3, <4>1
    <3> QED
      BY <2>4, <3>2, <3>3, <3>4, <3>5
  <2>9. Holds(h2)'
    BY <2>5, <2>6, <2>7, <2>8 DEF Holds
  <2> QED
    BY <2>9
<1>11. Unloads'
  BY <1>2, <1>7 DEF LoaderInv, Unloads
<1>12. RevokedIsDown'
  BY <1>2 DEF LoaderInv, RevokedIsDown, Up, IsMounted, Now
<1>13. NeverSilentlyGone'
  <2>1. \A k \in Names : target[k] # Absent => instances[k] # Absent \/ k \in failures \/ k \in InProgress
    BY NowIs DEF LoaderInv, NeverSilentlyGone
  <2>2. \A k : k \in InProgress => k \in InProgress'
    BY <1>7 DEF InProgress, InUnload
  <2> QED
    BY <1>2, <2>1, <2>2 DEF NeverSilentlyGone, IsMounted, Now
<1>14. ConvergedIsServed'
  BY <1>2, <1>8 DEF ConvergedIsServed
<1> QED
  BY <1>2, <1>5, <1>9, <1>10, <1>11, <1>12, <1>13, <1>14 DEF LoaderInv

LEMMA RecordKeeps ==
  ASSUME LoaderInv, NEW t \in Tasks, RecordUnload(t)
  PROVE  LoaderInv' /\ unconfirmed' = unconfirmed /\ target' = target
<1>0. unloading \in [Tasks -> Stages] /\ Now \in Mount /\ unloading[t][1] = "record"
  BY DEF LoaderInv, LoaderTypeOK, RecordUnload
<1>1. PICK n \in Names : unloading[t] = <<"record", n>>
  BY <1>0, StageIs
<1>2. InUnload(t) /\ unloading[t][2] = n
  BY <1>1 DEF InUnload
<1>3. upset /\ instances[n] = Absent /\ n \notin suspended /\ n \notin unconfirmed
  BY <1>2 DEF LoaderInv, Unloads
<1>4. /\ failures' = failures \cup {n} /\ unconfirmed' = unconfirmed
      /\ unloading' = [unloading EXCEPT ![t] = <<"idle">>]
      /\ UNCHANGED <<instances, suspended, registry, ledger, noted, target, revoked, judged, unresolved, upset>>
  BY <1>1, <1>3 DEF RecordUnload
<1>5. unloading'[t] = <<"idle">> /\ \A u \in Tasks : u # t => unloading'[u] = unloading[u]
  BY <1>0, <1>4
<1>6. unloading' \in [Tasks -> Stages]
  BY <1>0, <1>4 DEF Stages
<1>7. \A u \in Tasks : InUnload(u)' => u # t /\ InUnload(u) /\ unloading'[u] = unloading[u]
  BY <1>5 DEF InUnload
<1>8. LoaderTypeOK'
  <2>1. (Now \in Mount)'
    BY <1>0, <1>4 DEF Now, Mount
  <2> QED
    BY <1>4, <2>1 DEF LoaderInv, LoaderTypeOK
<1>9. (\E kept : Holds(kept))'
  <2>1. PICK kept : Holds(kept)
    BY DEF LoaderInv
  <2>2. Shape(kept, suspended', registry', ledger')
    BY <1>4, <2>1 DEF Holds
  <2>3. \A k \in Names : instances'[k] # Absent => kept[k] = instances'[k]
    BY <1>4, <2>1 DEF Holds
  <2>4. ASSUME NEW k \in Names, instances'[k] = Absent, kept[k] # Absent
        PROVE  \E u \in Tasks : unloading'[u] = <<"dispose", k, kept[k]>>
    <3>1. PICK u \in Tasks : unloading[u] = <<"dispose", k, kept[k]>>
      BY <1>4, <2>1, <2>4 DEF Holds
    <3>2. u # t
      BY <1>1, <3>1
    <3> QED
      BY <1>5, <3>1, <3>2
  <2>5. \A u \in Tasks : unloading'[u][1] = "dispose" => kept[unloading'[u][2]] = unloading'[u][3]
    <3> TAKE u \in Tasks
    <3>1. CASE u = t
      <4>1. unloading'[u][1] # "dispose"
        BY <1>5, <3>1
      <4> QED
        BY <4>1
    <3>2. CASE u # t
      BY <1>5, <2>1, <3>2 DEF Holds
    <3> QED
      BY <3>1, <3>2
  <2>6. Holds(kept)'
    BY <2>2, <2>3, <2>4, <2>5 DEF Holds
  <2> QED
    BY <2>6
<1>10. Unloads'
  BY <1>4, <1>7 DEF LoaderInv, Unloads
<1>11. \A k \in Names : instances'[k] # Absent => k \notin failures' /\ k \notin unconfirmed'
  BY <1>3, <1>4 DEF LoaderInv
<1>12. RevokedIsDown'
  BY <1>4 DEF LoaderInv, RevokedIsDown, Up, IsMounted, Now
<1>13. NeverSilentlyGone'
  <2>1. \A k \in Names : target[k] # Absent => instances[k] # Absent \/ k \in failures \/ k \in InProgress
    BY NowIs DEF LoaderInv, NeverSilentlyGone
  <2>2. \A k : k \in InProgress => k = n \/ k \in InProgress'
    <3> SUFFICES ASSUME NEW u \in Tasks, unloading[u] # <<"idle">>, unloading[u][2] # n PROVE unloading[u][2] \in InProgress'
      BY DEF InProgress
    <3>1. u # t
      BY <1>2
    <3> QED
      BY <1>5, <3>1 DEF InProgress
  <2> QED
    BY <1>4, <2>1, <2>2 DEF NeverSilentlyGone, IsMounted, Now
<1>14. ConvergedIsServed'
  BY <1>3, <1>4 DEF ConvergedIsServed
<1> QED
  BY <1>4, <1>6, <1>8, <1>9, <1>10, <1>11, <1>12, <1>13, <1>14 DEF LoaderInv

\* What a convergence leaves of a state that fits: d is what is mounted before
\* its dependency pass, r what that leaves.
Converged(m, w, d, r) ==
  /\ r \in Mount /\ Fits(r)
  /\ \A n \in Names : r.inst[n] # Absent => /\ ~revokedEndorsementOf(r.inst[n], w)
                                            /\ (~Refuses(w.dep[n], w) \/ r.inst[n] = m.inst[n])
  /\ \A n \in Names : w.dep[n] # Absent => r.inst[n] # Absent \/ n \in r.fail
  /\ \A n \in m.unconf : w.dep[n] # Absent => n \in r.unconf \/ n \in r.note
  /\ ~Unresolvable(d) => \A n \in Up(r) :
       n \notin r.susp <=> \A q \in Requires[r.inst[n]] : q \in Registered(r) \/ ResolveService(r, q) # {}

LEMMA ApplyDoes ==
  ASSUME NEW m \in Mount, Fits(m), NEW w, Reads(w), NEW d, d = converge(m, w), NEW r, r = convergeDependencies(d)
  PROVE  Converged(m, w, d, r)
<1>1. PassTo(m, w, d, Len(Order))
  BY ConvergeDoes
<1>2. d \in Mount /\ Fits(d)
  BY <1>1 DEF PassTo
<1>3. /\ r \in Mount /\ Fits(r) /\ r.inst = d.inst /\ r.fail = d.fail
      /\ r.unconf = d.unconf /\ r.note = d.note
  BY <1>2, ConvergeDependenciesDoes
<1>4. \A n : ~Awaits(m, w, n, Len(Order))
  <2>1. \A j \in Len(Order) + 1 .. Len(Order) : FALSE
    BY LoaderAssumption
  <2> QED
    BY <2>1 DEF Awaits
<1>5. ASSUME NEW n \in Names, r.inst[n] # Absent
      PROVE  ~revokedEndorsementOf(r.inst[n], w) /\ (~Refuses(w.dep[n], w) \/ r.inst[n] = m.inst[n])
  BY <1>1, <1>3, <1>5 DEF PassTo, Planned
<1>6. \A n \in Names : w.dep[n] # Absent => r.inst[n] # Absent \/ n \in r.fail
  BY <1>1, <1>3, <1>4 DEF PassTo
<1>7. \A n \in m.unconf : w.dep[n] # Absent => n \in r.unconf \/ n \in r.note
  BY <1>1, <1>3 DEF PassTo
<1>8. ~Unresolvable(d) => \A n \in Up(r) :
        n \notin r.susp <=> \A q \in Requires[r.inst[n]] : q \in Registered(r) \/ ResolveService(r, q) # {}
  BY <1>2, ConvergedWorks
<1> QED
  BY <1>3, <1>5, <1>6, <1>7, <1>8 DEF Converged

\* At the boundary no unload is under way, and the variables fit.
LEMMA FitsAtBoundary ==
  ASSUME LoaderInv, AtBoundary
  PROVE  Now \in Mount /\ Fits(Now)
<1>1. Now \in Mount /\ instances \in Mounts
  BY DEF LoaderInv, LoaderTypeOK, Mount, Mounts, Now
<1>2. PICK kept : Holds(kept)
  BY DEF LoaderInv
<1>3. kept \in Mounts /\ Shape(kept, suspended, registry, ledger)
  BY <1>2 DEF Holds, Shape
<1>4. ASSUME NEW n \in Names PROVE kept[n] = instances[n]
  <2>1. CASE instances[n] # Absent
    BY <1>2, <2>1 DEF Holds
  <2>2. CASE instances[n] = Absent
    <3>1. ASSUME kept[n] # Absent PROVE FALSE
      <4>1. PICK t \in Tasks : unloading[t] = <<"dispose", n, kept[n]>>
        BY <1>2, <2>2, <3>1 DEF Holds
      <4>2. unloading[t] # <<"idle">>
        BY <4>1
      <4> QED
        BY <4>2 DEF AtBoundary
    <3> QED
      BY <2>2, <3>1
  <2> QED
    BY <2>1, <2>2
<1>5. kept = instances
  BY <1>1, <1>3, <1>4 DEF Mounts
<1>6. Shape(Now.inst, Now.susp, Now.reg, Now.led)
  BY <1>3, <1>5, NowIs
<1>7. Now.fail \cap Up(Now) = {} /\ Now.unconf \cap Up(Now) = {}
  BY NowIs DEF LoaderInv
<1> QED
  BY <1>1, <1>6, <1>7 DEF Fits

LEMMA ApplyKeeps ==
  ASSUME LoaderInv, NEW dep \in Deployments, NEW readable \in BOOLEAN, NEW lost, NEW inert, NEW leaky,
         Apply(Met(dep, readable, lost, inert, leaky))
  PROVE  LoaderInv' /\ \A n \in unconfirmed : target'[n] # Absent => n \in unconfirmed' \/ n \in noted'
<1>1. PICK w : w = Met(dep, readable, lost, inert, leaky)
  OBVIOUS
<1>2. /\ w.dep = dep /\ w.readable = readable /\ w.bad = (IF readable THEN revoked ELSE {})
  BY <1>1 DEF Met
<1>3. Reads(w)
  BY <1>2 DEF Reads, Deployments
<1>4. PICK d : d = converge(Now, w)
  OBVIOUS
<1>5. PICK r : r = convergeDependencies(d)
  OBVIOUS
<1>6. /\ AtBoundary /\ Adopt(r) /\ unresolved' = Unresolvable(d)
      /\ target' = dep /\ upset' = FALSE
      /\ judged' = (IF readable THEN revoked ELSE judged)
      /\ UNCHANGED <<revoked, unloading>>
  <2>1. Apply(w)
    BY <1>1
  <2> QED
    BY <1>2, <1>4, <1>5, <2>1 DEF Apply
<1>7. /\ instances' = r.inst /\ suspended' = r.susp /\ registry' = r.reg /\ ledger' = r.led
      /\ failures' = r.fail /\ unconfirmed' = r.unconf /\ noted' = r.note
  BY <1>6 DEF Adopt
<1>8. Now \in Mount /\ Fits(Now)
  BY <1>6, FitsAtBoundary
<1>9. /\ r \in Mount /\ Fits(r)
      /\ \A n \in Names : r.inst[n] # Absent => /\ ~revokedEndorsementOf(r.inst[n], w)
                                                /\ (~Refuses(w.dep[n], w) \/ r.inst[n] = Now.inst[n])
      /\ \A n \in Names : w.dep[n] # Absent => r.inst[n] # Absent \/ n \in r.fail
      /\ \A n \in Now.unconf : w.dep[n] # Absent => n \in r.unconf \/ n \in r.note
      /\ ~Unresolvable(d) => \A n \in Up(r) :
           n \notin r.susp <=> \A q \in Requires[r.inst[n]] : q \in Registered(r) \/ ResolveService(r, q) # {}
  <2>1. Converged(Now, w, d, r)
    BY <1>3, <1>4, <1>5, <1>8, ApplyDoes
  <2> QED
    BY <2>1 DEF Converged
<1>10. /\ Now'.inst = instances' /\ Now'.susp = suspended' /\ Now'.reg = registry' /\ Now'.led = ledger'
       /\ Now'.fail = failures' /\ Now'.unconf = unconfirmed' /\ Now'.note = noted'
  BY DEF Now
<1>11. Now' = r
  <2>1. r = [inst |-> r.inst, susp |-> r.susp, reg |-> r.reg, led |-> r.led,
             fail |-> r.fail, unconf |-> r.unconf, note |-> r.note]
    BY <1>9 DEF Mount
  <2> QED
    BY <1>7, <2>1 DEF Now
<1>12. LoaderTypeOK'
  <2>1. \A n \in Names : target'[n] # Absent => target'[n] \in Packages /\ NameOf[target'[n]] = n
    BY <1>6 DEF Deployments
  <2>2. revoked' \subseteq Keys /\ judged' \subseteq Keys /\ unresolved' \in BOOLEAN /\ upset' \in BOOLEAN
    <3>1. Unresolvable(d) \in BOOLEAN
      BY DEF Unresolvable, Cyclic
    <3> QED
      BY <1>6, <3>1 DEF LoaderInv, LoaderTypeOK
  <2>3. Now' \in Mount
    BY <1>9, <1>11
  <2> QED
    BY <2>1, <2>2, <2>3 DEF LoaderTypeOK, Mount
<1>13. unloading' \in [Tasks -> Stages] /\ \A t \in Tasks : unloading'[t] = <<"idle">>
  BY <1>6 DEF LoaderInv, AtBoundary
<1>14. Unloads'
  BY <1>13 DEF Unloads, InUnload
<1>15. (\E kept : Holds(kept))'
  <2>1. Shape(instances', suspended', registry', ledger')
    BY <1>7, <1>9 DEF Fits
  <2>2. \A t \in Tasks : unloading'[t][1] # "dispose"
    BY <1>13
  <2>3. Holds(instances)'
    BY <2>1, <2>2 DEF Holds
  <2> QED
    BY <2>3
<1>16. \A n \in Names : instances'[n] # Absent => n \notin failures' /\ n \notin unconfirmed'
  BY <1>7, <1>9 DEF Fits, Up, IsMounted
<1>17. RevokedIsDown'
  <2> SUFFICES ASSUME NEW n \in Names, instances'[n] # Absent PROVE KeyOf[instances'[n]] \notin judged'
    BY DEF RevokedIsDown, Up, IsMounted, Now
  <2>1. ~revokedEndorsementOf(r.inst[n], w) /\ (~Refuses(w.dep[n], w) \/ r.inst[n] = Now.inst[n])
    BY <1>7, <1>9
  <2>2. CASE readable
    BY <1>2, <1>6, <1>7, <2>1, <2>2 DEF revokedEndorsementOf
  <2>3. CASE ~readable
    <3>1. r.inst[n] = instances[n]
      BY <1>2, <2>1, <2>3, NowIs DEF Refuses
    <3>2. KeyOf[instances[n]] \notin judged
      BY <1>7, <3>1, NowIs DEF LoaderInv, RevokedIsDown
    <3> QED
      BY <1>6, <1>7, <2>3, <3>1, <3>2
  <2> QED
    BY <2>2, <2>3
<1>18. NeverSilentlyGone'
  BY <1>2, <1>6, <1>7, <1>9 DEF NeverSilentlyGone, IsMounted, Now
<1>19. ConvergedIsServed'
  <2> SUFFICES ASSUME ~unresolved', NEW n \in Up(r)
               PROVE  n \notin suspended' <=> \A q \in Requires[instances'[n]] : Works(q)'
    BY <1>11 DEF ConvergedIsServed
  <2>1. ~Unresolvable(d)
    BY <1>6
  <2>2. \A q : Works(q)' <=> q \in Registered(r) \/ ResolveService(r, q) # {}
    BY <1>11 DEF Works
  <2> QED
    BY <1>7, <1>9, <2>1, <2>2
<1>20. \A n \in unconfirmed : target'[n] # Absent => n \in unconfirmed' \/ n \in noted'
  BY <1>2, <1>6, <1>7, <1>9, NowIs
<1>21. LoaderInv'
  BY <1>12, <1>13, <1>14, <1>15, <1>16, <1>17, <1>18, <1>19 DEF LoaderInv
<1> QED
  BY <1>20, <1>21

LEMMA LoaderStep ==
  ASSUME LoaderInv, [LoaderNext]_loaderVars
  PROVE  LoaderInv' /\ \A n \in unconfirmed : target'[n] # Absent => n \in unconfirmed' \/ n \in noted'
<1>1. CASE AnApply
  <2>1. PICK dep \in Deployments, leaky \in AtMostOne(Up(Now)) :
          LET named == {dep[n] : n \in Names} \ {Absent}
          IN \/ leaky = {} /\ Apply(Met(dep, FALSE, {}, {}, {}))
             \/ \E lost \in AtMostOne(named) : Apply(Met(dep, TRUE, lost, {}, leaky))
             \/ \E p \in named \cup {instances[n] : n \in Up(Now)} : Apply(Met(dep, TRUE, {}, {p}, leaky))
    BY <1>1 DEF AnApply
  <2>2. CASE Apply(Met(dep, FALSE, {}, {}, {}))
    BY <2>2, ApplyKeeps
  <2>3. ASSUME NEW lost, Apply(Met(dep, TRUE, lost, {}, leaky))
        PROVE  LoaderInv' /\ \A n \in unconfirmed : target'[n] # Absent => n \in unconfirmed' \/ n \in noted'
    BY <2>3, ApplyKeeps
  <2>4. ASSUME NEW p, Apply(Met(dep, TRUE, {}, {p}, leaky))
        PROVE  LoaderInv' /\ \A n \in unconfirmed : target'[n] # Absent => n \in unconfirmed' \/ n \in noted'
    BY <2>4, ApplyKeeps
  <2> QED
    BY <2>1, <2>2, <2>3, <2>4
<1>2. CASE \E k \in Keys : Revoke(k)
  BY <1>2, RevokeKeeps
<1>3. CASE \E t \in Tasks, n \in Names : Forsake(t, n)
  BY <1>3, ForsakeKeeps
<1>4. CASE \E t \in Tasks : Dispose(t)
  BY <1>4, DisposeKeeps
<1>5. CASE \E t \in Tasks : RecordUnload(t)
  BY <1>5, RecordKeeps
<1>6. CASE UNCHANGED loaderVars
  <2>1. UNCHANGED <<instances, suspended, registry, ledger, failures, unconfirmed, noted, target, revoked, judged,
                    unresolved, upset, unloading>>
    BY <1>6 DEF loaderVars, mountVars
  <2>2. Now' = Now
    BY <2>1 DEF Now
  <2>3. LoaderTypeOK'
    BY <2>1, <2>2 DEF LoaderInv, LoaderTypeOK
  <2>4. (\E kept : Holds(kept))' /\ Unloads'
    BY ZenonT(60), <2>1 DEF LoaderInv, Holds, Unloads, InUnload
  <2>5. RevokedIsDown' /\ NeverSilentlyGone' /\ ConvergedIsServed'
    BY <2>1, <2>2 DEF LoaderInv, RevokedIsDown, NeverSilentlyGone, InProgress, ConvergedIsServed, Works
  <2> QED
    BY <2>1, <2>3, <2>4, <2>5 DEF LoaderInv
<1> QED
  BY <1>1, <1>2, <1>3, <1>4, <1>5, <1>6 DEF LoaderNext

LEMMA LoaderInvImplies ==
  ASSUME LoaderInv
  PROVE  /\ LoaderTypeOK /\ OneRow /\ RevokedIsDown /\ NeverSilentlyGone
         /\ LedgerMatches /\ OneTool /\ ContributesWhenUp /\ ConvergedIsServed
BY OneRowFrom, LedgerFrom, OneToolFrom, ContributesFrom DEF LoaderInv

\* For any plugins, packages, keys and requirements, any deployments and any
\* failures: after every mount, unload, suspension, revocation and rollback the
\* mounted plugins, their records, the ledger and the tool registry agree; what
\* is revoked is down, what is asked for never disappears without a record, and
\* after a convergence a plugin works exactly when all it requires does.
THEOREM LoaderIsSafe == LoaderSpec => LoaderSafe
<1>1. LoaderInit => LoaderInv
  BY LoaderInitInv
<1>2. LoaderInv /\ [LoaderNext]_loaderVars => LoaderInv'
  BY LoaderStep
<1>3. LoaderInv /\ [LoaderNext]_loaderVars =>
        [\A n \in unconfirmed : target'[n] # Absent => n \in unconfirmed' \/ n \in noted']_loaderVars
  BY LoaderStep
<1>4. LoaderInv => LoaderTypeOK /\ OneRow /\ RevokedIsDown /\ NeverSilentlyGone /\
                   LedgerMatches /\ OneTool /\ ContributesWhenUp /\ ConvergedIsServed
  BY LoaderInvImplies
<1> QED
  BY <1>1, <1>2, <1>3, <1>4, PTL DEF LoaderSpec, LoaderSafe, UnconfirmedKept
=============================================================================
