---------------------------- MODULE SessionLock ----------------------------
(* internal/runtime/sessionlock.go: the process-wide lock RunTask holds on   *)
(* its session. A table maps a session to an entry; an entry is a one-slot   *)
(* channel used as a mutex plus the number of its holders and waiters, and   *)
(* is removed when that number reaches zero. The table's mutex makes acquire's *)
(* first half and drop one step each; taking and emptying the channel are    *)
(* steps of their own, so the table can change in between.                   *)
EXTENDS Naturals, FiniteSets

CONSTANTS
  Runs,        \* goroutines inside RunTask
  Sessions,    \* session keys
  SessionOf,   \* the session each run asks for (its own task id if it has none)
  NestedIn,    \* the run whose RunTask calls a delegated one, or Nil
  Entries,     \* addresses an entry can have
  Nil

ASSUME RunsAssumption ==
  /\ IsFiniteSet(Runs)
  /\ SessionOf \in [Runs -> Sessions]
  /\ NestedIn \in [Runs -> Runs \cup {Nil}]
  /\ Nil \notin Runs \cup Entries

VARIABLES
  locks,     \* sessionLockSet.locks
  refs,      \* sessionLockEntry.refs
  full,      \* whether the entry's channel holds its token
  entry,     \* the entry pointer each run captured
  pc,        \* where each run is between acquire and the end of its release
  lockPanicked

lockVars == <<locks, refs, full, entry, pc, lockPanicked>>

Phases == {"idle", "waiting", "holding", "leaving"}

Using(r) == pc[r] # "idle"
Users(s) == {r \in Runs : SessionOf[r] = s /\ Using(r)}
Holders(s) == {r \in Runs : SessionOf[r] = s /\ pc[r] = "holding"}

\* Types; and no entry stays in the table with a count of zero.
LockTypeOK ==
  /\ locks \in [Sessions -> Entries \cup {Nil}]
  /\ refs \in [Entries -> Nat]
  /\ full \in [Entries -> BOOLEAN]
  /\ entry \in [Runs -> Entries \cup {Nil}]
  /\ pc \in [Runs -> Phases]
  /\ lockPanicked \in BOOLEAN
  /\ \A s \in Sessions : locks[s] # Nil => refs[locks[s]] > 0

LockInit ==
  /\ locks = [s \in Sessions |-> Nil]
  /\ refs = [e \in Entries |-> 0]
  /\ full = [e \in Entries |-> FALSE]
  /\ entry = [r \in Runs |-> Nil]
  /\ pc = [r \in Runs |-> "idle"]
  /\ lockPanicked = FALSE

-----------------------------------------------------------------------------
\* A delegated run exists only inside its parent's RunTask, which waits for it.
MayStart(r) == NestedIn[r] # Nil => pc[NestedIn[r]] = "holding"
HasNested(r) == \E c \in Runs : NestedIn[c] = r /\ Using(c)

\* An address nothing points to any more.
Unreferenced(e) ==
  /\ \A s \in Sessions : locks[s] # e
  /\ \A r \in Runs : entry[r] # e

\* acquire up to its select: find or create the entry, adding to its count.
RegisterCounting(r, n) ==
  LET s == SessionOf[r] IN
  /\ pc[r] = "idle"
  /\ MayStart(r)
  /\ pc' = [pc EXCEPT ![r] = "waiting"]
  /\ \/ /\ locks[s] # Nil
        /\ entry' = [entry EXCEPT ![r] = locks[s]]
        /\ refs' = [refs EXCEPT ![locks[s]] = @ + n]
        /\ UNCHANGED <<locks, full>>
     \/ /\ locks[s] = Nil
        /\ \E e \in Entries :
             /\ Unreferenced(e)
             /\ locks' = [locks EXCEPT ![s] = e]
             /\ entry' = [entry EXCEPT ![r] = e]
             /\ refs' = [refs EXCEPT ![e] = 1]
             /\ full' = [full EXCEPT ![e] = FALSE]
  /\ UNCHANGED lockPanicked

Register(r) == RegisterCounting(r, 1)

\* The select sends into the channel.
Acquire(r) ==
  /\ pc[r] = "waiting"
  /\ ~full[entry[r]]
  /\ full' = [full EXCEPT ![entry[r]] = TRUE]
  /\ pc' = [pc EXCEPT ![r] = "holding"]
  /\ UNCHANGED <<locks, refs, entry, lockPanicked>>

\* The select takes ctx.Done instead: the wait is over, the reference is not.
CancelWait(r) ==
  /\ pc[r] = "waiting"
  /\ pc' = [pc EXCEPT ![r] = "leaving"]
  /\ UNCHANGED <<locks, refs, full, entry, lockPanicked>>

\* The release func empties the channel ...
ReleaseTo(r, token) ==
  /\ pc[r] = "holding"
  /\ ~HasNested(r)
  /\ full' = [full EXCEPT ![entry[r]] = token]
  /\ pc' = [pc EXCEPT ![r] = "leaving"]
  /\ UNCHANGED <<locks, refs, entry, lockPanicked>>

\* A slip of the release func: the channel is not emptied.
Bug_ReleaseLeavesToken(r) == ReleaseTo(r, TRUE)

Release(r) == ReleaseTo(r, FALSE)

\* ... and then drop gives the reference back, looking the entry up by session
\* (not by the captured pointer) and removing it with its last reference.
DropWhen(r, last) ==
  LET s == SessionOf[r] e == locks[s] IN
  /\ pc[r] = "leaving"
  /\ pc' = [pc EXCEPT ![r] = "idle"]
  /\ entry' = [entry EXCEPT ![r] = Nil]
  /\ IF e = Nil
       THEN lockPanicked' = TRUE /\ UNCHANGED <<locks, refs>>
       ELSE IF refs[e] = 0
         THEN lockPanicked' = TRUE /\ UNCHANGED <<locks, refs>>
         ELSE /\ refs' = [refs EXCEPT ![e] = @ - 1]
              /\ locks' = IF last THEN [locks EXCEPT ![s] = Nil] ELSE locks
              /\ UNCHANGED lockPanicked
  /\ UNCHANGED full

\* A slip of drop: an entry nobody holds is removed, waited for or not.
Bug_DropWhenUnlocked(r) == DropWhen(r, ~full[locks[SessionOf[r]]])

Drop(r) == DropWhen(r, refs[locks[SessionOf[r]]] = 1)

-----------------------------------------------------------------------------
LockNext == \E r \in Runs :
  Register(r) \/ Acquire(r) \/ CancelWait(r) \/ Release(r) \/ Drop(r)

LockSpec == LockInit /\ [][LockNext]_lockVars

\* Tasks end (their budgets bound them, delegations included: strong fairness of
\* Release) and a release runs to its end. A channel serves its senders first come
\* first served, so a waiter is not overtaken for ever: strong fairness of the
\* send. Nothing forces a cancellation.
LockFairness == \A r \in Runs : SF_lockVars(Release(r)) /\ WF_lockVars(Drop(r)) /\ SF_lockVars(Acquire(r))

LockFairSpec == LockSpec /\ LockFairness

-----------------------------------------------------------------------------
(* Properties *)

\* At most one task executes on a session at any moment: what the session event
\* log's read-modify-write of seq and turn numbers relies on.
OneRunPerSession ==
  \A r, q \in Runs :
    SessionOf[r] = SessionOf[q] /\ pc[r] = "holding" /\ pc[q] = "holding" => r = q

\* drop's two panics are unreachable: no release without an entry, no negative count.
LockNoPanic == ~lockPanicked

\* The table is exact: an entry exists while its session has a holder or waiter,
\* counts precisely these, and is gone after the last (no growth with sessions).
TableExact ==
  \A s \in Sessions :
    IF locks[s] = Nil THEN Users(s) = {}
    ELSE Users(s) # {} /\ refs[locks[s]] = Cardinality(Users(s))

\* All holders and waiters of one session hold a pointer to the entry in the
\* table: no waiter is left on an orphaned channel next to a new one.
NoOrphanedEntry ==
  \A r \in Runs : Using(r) => entry[r] = locks[SessionOf[r]]

\* A waiting task gets the session or gives up; none waits for ever, not even
\* with delegated runs nested under the holders.
WaitersServed == \A r \in Runs : (pc[r] = "waiting") ~> (pc[r] \in {"holding", "leaving"})

(* One run executes on a session at a time, and the lock's table holds exactly
   the entries in use, each with the right count, whatever runs give up
   waiting: neither panic of drop can be reached. *)
LockSafe ==
  /\ [](LockTypeOK /\ OneRunPerSession /\ LockNoPanic /\ TableExact /\
       NoOrphanedEntry)
===============================================================================
