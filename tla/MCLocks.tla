------------------------------- MODULE MCLocks -------------------------------
(* The two locks a run of RunTask takes and the service around it, each on    *)
(* its own; an initial state chooses, since they share no step.                     *)
(*  - the task gate: three workers and two appliers, enough for a task, a     *)
(*    sub-task that outlives it and a newcomer, against an apply in progress  *)
(*    and an overlapping one;                                                 *)
(*  - the session run lock: three tasks on one session and a delegated run    *)
(*    nested under one of them, whose session is its own task id.             *)
(*  - the service they live in: two assemblies in one process, one task with  *)
(*    its background sub-task and one handler.                                *)
EXTENDS TaskGate, SessionLock, Serve

CONSTANTS r1, r2, r3, c1, shared, own

MCRuns == {r1, r2, r3, c1}
MCSessions == {shared, own}
MCSessionOf == [r \in MCRuns |-> IF r = c1 THEN own ELSE shared]
MCNestedIn == [r \in MCRuns |-> IF r = c1 THEN r1 ELSE Nil]

VARIABLE part

\* The bound on assemblies is reached: the process has nothing left to do.
ServeOver ==
  /\ phase \in {"down", "closed"} /\ assemblies = MaxAssemblies
  /\ UNCHANGED serveVars

MCInit == part \in {"gate", "lock", "serve"} /\ Init /\ LockInit /\ ServeInit
MCNext ==
  \/ part = "gate" /\ Next /\ UNCHANGED <<part, lockVars, serveVars>>
  \/ part = "lock" /\ LockNext /\ UNCHANGED <<part, vars, serveVars>>
  \/ part = "serve" /\ (ServeNext \/ ServeOver) /\ UNCHANGED <<part, vars, lockVars>>
MCSpec ==
  /\ MCInit /\ [][MCNext]_<<part, vars, lockVars, serveVars>>
  /\ ApplierFairness /\ LockFairness /\ ServeFairness
==============================================================================
