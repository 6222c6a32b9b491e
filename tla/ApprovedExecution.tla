------------------------- MODULE ApprovedExecution -------------------------
(* What Manual mode promises of one task system: a sensitive call is first   *)
(* put to a human, is answered once and for all, and reaches its tool only   *)
(* if the answer was yes. It may reach it again after a crash.               *)
CONSTANT Requests

VARIABLES answer, performed

Init ==
  /\ answer = [q \in Requests |-> "none"]
  /\ performed = {}

Put(q) ==
  /\ answer[q] = "none"
  /\ answer' = [answer EXCEPT ![q] = "pending"]
  /\ UNCHANGED performed

Answer(q) ==
  /\ answer[q] = "pending"
  /\ \E v \in {"approved", "denied"} : answer' = [answer EXCEPT ![q] = v]
  /\ UNCHANGED performed

Perform(q) ==
  /\ answer[q] = "approved"
  /\ performed' = performed \cup {q}
  /\ UNCHANGED answer

Next == \E q \in Requests : Put(q) \/ Answer(q) \/ Perform(q)

Spec == Init /\ [][Next]_<<answer, performed>>
=============================================================================
