----------------------------- MODULE Scheduler -----------------------------
(* internal/task/scheduler.go and lock.go: the in-memory task table every    *)
(* component moves tasks through, in the order they were added, and the      *)
(* lease a worker takes on a task. Both are guarded by a mutex, so each call *)
(* is one step. All goroutines of a process lock under one owner, the        *)
(* coordinator's agent, so Unlock frees whatever lease there is, and an      *)
(* expired lease is as good as none: a lease is a member of a set.           *)
EXTENDS Naturals, Sequences

CONSTANT Tasks

VARIABLES
  status,   \* Scheduler.tasks: the status of each task, "absent" if not added
  order,    \* Scheduler.order
  leased    \* tasks whose lease in LockStore.locks has not expired

schedulerVars == <<status, order, leased>>

Statuses == {"absent", "pending", "assigned", "running", "suspended",
             "review", "done", "failed", "cancelled"}

Terminal == {"done", "failed", "cancelled"}

\* A slip of canTransition: a review can only pass.
Bug_ReviewOnlyPasses(s) ==
  CASE s = "pending"   -> {"assigned"}
    [] s = "assigned"  -> {"running"}
    [] s = "running"   -> {"review", "suspended", "failed", "cancelled"}
    [] s = "suspended" -> {"running"}
    [] s = "review"    -> {"done"}
    [] OTHER           -> {}

\* canTransition: where a task may go from each status.
Successors(s) ==
  CASE s = "pending"   -> {"assigned"}
    [] s = "assigned"  -> {"running"}
    [] s = "running"   -> {"review", "suspended", "failed", "cancelled"}
    [] s = "suspended" -> {"running"}
    [] s = "review"    -> {"done", "failed"}
    [] OTHER           -> {}

SchedulerInit ==
  /\ status = [t \in Tasks |-> "absent"]
  /\ order = <<>>
  /\ leased = {}

-----------------------------------------------------------------------------
Add(t) ==
  /\ status[t] = "absent"
  /\ status' = [status EXCEPT ![t] = "pending"]
  /\ order' = Append(order, t)

\* The task of S that was added first: the one a loop over order meets.
Earliest(t, S) ==
  /\ t \in S
  /\ \E i \in DOMAIN order : order[i] = t /\ \A j \in 1 .. i - 1 : order[j] \notin S

\* Next hands out the earliest pending task.
Pending == {t \in Tasks : status[t] = "pending"}
Hand(t) == Earliest(t, Pending) /\ status' = [status EXCEPT ![t] = "assigned"]

MayTransition(t, next) == next \in Successors(status[t])

Transition(t, next) ==
  /\ MayTransition(t, next)
  /\ status' = [status EXCEPT ![t] = next]

\* Release: an assigned task goes back to pending.
PutBack(t) ==
  /\ status[t] = "assigned"
  /\ status' = [status EXCEPT ![t] = "pending"]

TryLock(t) == t \notin leased /\ leased' = leased \cup {t}
Unlock(t) == leased' = leased \ {t}

\* Time passes: a lease is taken for lockTTL and never renewed.
LeaseExpires(t) ==
  /\ t \in leased
  /\ leased' = leased \ {t}
  /\ UNCHANGED <<status, order>>

SchedulerTypeOK ==
  /\ status \in [Tasks -> Statuses]
  /\ order \in Seq(Tasks)
  /\ leased \subseteq Tasks
=============================================================================
