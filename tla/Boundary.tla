------------------------------ MODULE Boundary ------------------------------
(* What a task gate promises, with nothing of how it does it: tasks come and *)
(* go, a change of the shared tool registry runs only while no task is in    *)
(* flight, at most one change runs at a time, and no task enters during one. *)
CONSTANTS Workers,     \* whoever can hold an in-flight token: tasks and sub-tasks
          Appliers     \* whoever can apply a plugin change

VARIABLES inflight,    \* the workers holding a token
          converging   \* the appliers whose fn is running

vars == <<inflight, converging>>

Init == inflight = {} /\ converging = {}

Enter(w) ==
  /\ w \notin inflight
  /\ converging = {}
  /\ inflight' = inflight \cup {w}
  /\ UNCHANGED converging

Leave(w) ==
  /\ w \in inflight
  /\ inflight' = inflight \ {w}
  /\ UNCHANGED converging

StartChange(a) ==
  /\ inflight = {}
  /\ converging = {}
  /\ converging' = {a}
  /\ UNCHANGED inflight

FinishChange(a) ==
  /\ a \in converging
  /\ converging' = converging \ {a}
  /\ UNCHANGED inflight

Next == \/ \E w \in Workers : Enter(w) \/ Leave(w)
        \/ \E a \in Appliers : StartChange(a) \/ FinishChange(a)

Spec == Init /\ [][Next]_vars
=============================================================================
