------------------------------- MODULE MCFronts -------------------------------
(* How people reach the core: the terminal, with the runs it starts, and the  *)
(* chat gateway.  An initial state chooses, since they share no step.  The    *)
(* gateway's two chats are alike: the first message is i1's.                  *)
EXTENDS Terminal, Gateway

CONSTANT i1

VARIABLE part

MCInit ==
  /\ part \in {"terminal", "gateway"} /\ TerminalInit /\ GatewayInit
  /\ chatOf[1] = i1 /\ (part = "terminal" => \A n \in Messages : chatOf[n] = i1)
MCNext ==
  \/ part = "terminal" /\ TerminalNext /\ UNCHANGED <<part, gatewayVars>>
  \/ part = "gateway" /\ GatewayNext /\ UNCHANGED <<part, terminalVars>>
MCSpec ==
  /\ MCInit /\ [][MCNext]_<<part, terminalVars, gatewayVars>>
  /\ TerminalFairness /\ GatewayFairness
===============================================================================
