-------------------------- MODULE MCTaskLifecycle --------------------------
(* Two tasks, each in a session of its own or both in one, two worker slots. *)
(* The calls of a response differ in nothing but their name.                 *)
EXTENDS TaskLifecycle, TLC

CONSTANTS t1, t2

MCOwnSessions == [t \in Tasks |-> t]
MCOneSession == [t \in Tasks |-> t1]

MCCallsAlike == Permutations(Calls)
=============================================================================
