------------------------------ MODULE MCRecords ------------------------------
(* What is written down of the work that is done, in three parts that share   *)
(* no step; an initial state chooses.                                         *)
(*  - the session's event log: two tasks of one session and a provider that   *)
(*    numbers its calls anew in every response, and may use a number twice;   *)
(*  - the chat gateway's books: two chats, which are alike, so the first      *)
(*    message is i1's;                                                        *)
(*  - workflows: three definitions with every kind of node.  The first waits  *)
(*    for an event and then asks and acts in parallel; the second loops over  *)
(*    a sequence and compensates in a nested workflow; the third joins a loop *)
(*    of a loop and a wait for the second under a condition.                  *)
EXTENDS EventRecorder, Gateway, Workflow, TLC

CONSTANT i1

MCAnswers == {<<>>, <<"c1">>, <<"c1", "c1">>}

MCTrees == [
  sequence |-> {<<1>>, <<2, 1, 1>>}, wait_event |-> {<<1, 1>>, <<3, 1, 2>>}, parallel |-> {<<1, 2>>},
  agent_task |-> {<<1, 2, 1>>, <<2, 1, 1, 1>>, <<2, 2, 1>>, <<3, 1, 1, 1, 1>>}, approval |-> {<<1, 2, 2>>},
  error_handler |-> {<<2>>}, loop |-> {<<2, 1>>, <<3, 1, 1>>, <<3, 1, 1, 1>>}, subworkflow |-> {<<2, 2>>},
  condition |-> {<<3>>}, join |-> {<<3, 1>>}]
MCNodes == UNION {MCTrees[k] : k \in DOMAIN MCTrees}
MCKind == [n \in MCNodes |-> CHOOSE k \in DOMAIN MCTrees : n \in MCTrees[k]]
MCHolds == {<<3>>}
MCTimed == {<<1, 2>>}
MCPerRound == {<<2, 1, 1, 1>>, <<3, 1, 1, 1, 1>>}
MCAwaits == [n \in MCTrees.wait_event |->
               IF n = <<1, 1>> THEN <<"posted", <<0>>>> ELSE <<"workflow_compensated", <<2>>>>]
MCQuorum == [n \in MCNodes |-> 1]
MCRounds == [n \in MCNodes |-> IF n = <<3, 1, 1, 1>> THEN 1 ELSE 2]

\* Nothing tells the session's tasks apart.
MCSymmetry == Permutations(Tasks)

VARIABLE part

MCInit ==
  /\ part \in {"log", "gateway", "workflows"} /\ Init /\ GatewayInit /\ WorkflowInit
  /\ chatOf[1] = i1 /\ (part # "gateway" => \A n \in Messages : chatOf[n] = i1)
MCNext ==
  \/ part = "log" /\ Next /\ UNCHANGED <<part, gatewayVars, workflowVars>>
  \/ part = "gateway" /\ GatewayNext /\ UNCHANGED <<part, vars, workflowVars>>
  \/ part = "workflows" /\ WorkflowNext /\ UNCHANGED <<part, vars, gatewayVars>>
MCSpec == MCInit /\ [][MCNext]_<<part, vars, gatewayVars, workflowVars>>
==============================================================================
