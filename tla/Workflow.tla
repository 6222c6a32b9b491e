------------------------------- MODULE Workflow -------------------------------
(***************************************************************************)
(* internal/workflow/engine.go and the handlers of server/http.go that     *)
(* call it.  A definition is a tree of nodes; Execute walks it from its    *)
(* root, and posting an event to a waiting workflow walks the saved        *)
(* definition from its root once more.  Agent tasks are only handed to the *)
(* scheduler, which refuses an id it has.  Every request is an execution   *)
(* of its own; executions meet in the scheduler, in the events and in the  *)
(* saved states.                                                           *)
(***************************************************************************)
EXTENDS Naturals, Sequences, FiniteSets

CONSTANTS
  Nodes, Kind,        \* the trees; a node is its path from the root: the i-th below n
                      \* is Append(n, i), then before else, try before handler
  Holds,              \* conditions whose variable has the value asked for
  CollectAll,         \* parallel nodes with that failure policy
  Width,              \* the most nodes below one
  Quorum, Rounds,     \* of a join, of a loop
  Timed,              \* nodes with a timeout
  PerRound,           \* agent tasks whose id says {{iteration}}
  Awaits,             \* the event a wait_event node waits for
  Requests,           \* numbers of requests, taken in order
  MaxEvents,          \* bound: events posted
  MaxFailures,        \* bound: failed writes and contexts that end
  MaxEnds             \* bound: ends of the process

Compound == {"sequence", "parallel", "join", "loop", "condition", "error_handler", "subworkflow"}
Leaves == {"agent_task", "approval", "wait_event"}
Waiting == {"waiting_approval", "waiting_event"}
Passed == {"completed", "compensated"}
Ended == Waiting \cup Passed \cup {"failed"}

Kids(n) == {i \in 1 .. Width : Append(n, i) \in Nodes}
Workflows == {n \in Nodes : Len(n) = 1}

Parent(n) == SubSeq(n, 1, Len(n) - 1)

\* A node and those above it; a node and those below it.
Lineage(n) == {SubSeq(n, 1, k) : k \in 1 .. Len(n)}
Under(n) == {m \in Nodes : Len(m) >= Len(n) /\ SubSeq(m, 1, Len(n)) = n}

Awaited == {Awaits[n] : n \in {m \in Nodes : Kind[m] = "wait_event"}}

ASSUME WorkflowAssumption ==
  /\ Nodes \subseteq Seq(Nat) \ {<<>>} /\ \A n \in Nodes : Lineage(n) \subseteq Nodes
  /\ Width \in Nat /\ \A n \in Nodes : Len(n) > 1 => n[Len(n)] \in 1 .. Width
  /\ \A n \in Nodes : Kind[n] \in Compound \cup Leaves
  /\ \A n \in Nodes : Kind[n] \in {"loop", "subworkflow"} => Kids(n) = {1}
  /\ \A n \in Nodes : Kind[n] = "error_handler" => Kids(n) \in {{1}, {1, 2}}
  /\ \A n \in Nodes : Kind[n] = "condition" => Kids(n) \subseteq {1, 2}
  /\ \A n \in Nodes : Kind[n] \in {"sequence", "join"} => \A i \in Kids(n) : 1 .. i \subseteq Kids(n)
  /\ \A n \in Nodes : Kind[n] \in Leaves => Kids(n) = {}
  /\ \A n \in Nodes : Kind[n] = "loop" => Rounds[n] \in Nat \ {0}
  /\ PerRound \subseteq {n \in Nodes : Kind[n] = "agent_task"}
  /\ Requests \subseteq Nat

VARIABLES
  phase,     \* of a request: "idle", "running", "saving", "answered"
  executes,      \* the workflow it executes
  node,      \* how far each node is in it
  iteration,     \* the iteration of each loop
  burnt,     \* the iteration written for good into a node's id, or 0
  late,      \* nodes whose context has ended; the root's is the request's
  scheduled, \* task ids the scheduler has
  adder,     \* tasks handed over by this process, with the request that did
  tickets,   \* approval tickets opened, counted by node
  events,    \* events on record that somebody waits for
  saved,     \* workflow_states
  posted, failures, ends

workflowVars == <<phase, executes, node, iteration, burnt, late, scheduled, adder, tickets,
                  events, saved, posted, failures, ends>>
shared == <<scheduled, adder, tickets, saved, posted, ends>>
mine == <<phase, executes, iteration, burnt, late>>

Zero == [n \in Nodes |-> 0]
Unsaved == [status |-> "none", burnt |-> Zero]
Idle == [n \in Nodes |-> "idle"]

WorkflowInit ==
  /\ phase = [x \in Requests |-> "idle"]
  /\ executes = [x \in Requests |-> <<>>]
  /\ node = [x \in Requests |-> Idle]
  /\ iteration = [x \in Requests |-> Zero]
  /\ burnt = [x \in Requests |-> Zero]
  /\ late = [x \in Requests |-> {}]
  /\ scheduled = {} /\ adder = {} /\ tickets = Zero /\ events = {}
  /\ saved = [w \in Workflows |-> Unsaved]
  /\ posted = 0 /\ failures = 0 /\ ends = 0

-----------------------------------------------------------------------------
(* What every node does.                                                   *)

\* The context a node executes under has ended: its timeout, one above it, or the
\* request's.
Expired(x, n) == late[x] \cap Lineage(n) # {}

\* Events and audit entries may be refused, and are when the context has ended;
\* an event may be out before the entry after it is refused.
Publish(x, n, es) ==
  ~Expired(x, n) /\ events' = events \cup (es \cap Awaited) /\ UNCHANGED failures
PublishFails(x, n, es) ==
  \/ Expired(x, n) /\ UNCHANGED <<events, failures>>
  \/ /\ ~Expired(x, n) /\ failures < MaxFailures /\ failures' = failures + 1
     /\ \E out \in SUBSET (es \cap Awaited) : events' = events \cup out

Return(x, n, status) == node' = [node EXCEPT ![x][n] = status]

CompleteAfter(x, n, es) ==
  LET all == es \cup {<<"workflow_node_completed", n>>} IN
  \/ Publish(x, n, all) /\ Return(x, n, "completed")
  \/ PublishFails(x, n, all) /\ Return(x, n, "failed")
completeNode(x, n) == CompleteAfter(x, n, {})

\* A node returns what it found, without a word.
Pass(x, n, status) == Return(x, n, status) /\ UNCHANGED <<events, failures>>

AtNode(x, n, kind) == phase[x] = "running" /\ Kind[n] = kind /\ node[x][n] = "open"
Kid(x, n, i) == node[x][Append(n, i)]
Count(x, n, statuses) == Cardinality({i \in Kids(n) : Kid(x, n, i) \in statuses})

\* Whose turn it is among the nodes below an open one.
Chosen(n) == IF n \in Holds THEN 1 ELSE 2
Turn(x, p, i) ==
  \/ Kind[p] = "sequence" /\ \A j \in 1 .. i - 1 : Kid(x, p, j) \in Passed
  \/ Kind[p] = "join" /\ \A j \in 1 .. i - 1 : Kid(x, p, j) \in Passed \cup {"failed"}
  \/ Kind[p] \in {"parallel", "subworkflow"}
  \/ Kind[p] = "loop" /\ iteration[x][p] > 0
  \/ Kind[p] = "condition" /\ i = Chosen(p)
  \/ Kind[p] = "error_handler" /\ (i = 2 => Kid(x, p, 1) = "failed")

\* The root, or a node whose turn it is, is entered: its context is looked at
\* and its start is published.
executeNode(x, n) ==
  /\ phase[x] = "running" /\ node[x][n] = "idle"
  /\ \/ n = executes[x]
     \/ Len(n) > 1 /\ node[x][Parent(n)] = "open" /\ Turn(x, Parent(n), n[Len(n)])
  /\ \/ Publish(x, n, {<<"workflow_node_started", n>>}) /\ Return(x, n, "open")
     \/ PublishFails(x, n, {}) /\ Return(x, n, "failed")
  /\ UNCHANGED <<mine, shared>>

-----------------------------------------------------------------------------
(* The kinds.                                                              *)

executeSequence(x, n) ==
  /\ AtNode(x, n, "sequence")
  /\ \/ \E i \in Kids(n) : Kid(x, n, i) \in Waiting \cup {"failed"} /\ Pass(x, n, Kid(x, n, i))
     \/ Count(x, n, Passed) = Cardinality(Kids(n)) /\ completeNode(x, n)
  /\ UNCHANGED <<mine, shared>>

\* The branches' ends are read in the order they were sent, which is any: the
\* first that stops the node decides.
Stops(n) == Waiting \cup (IF n \in CollectAll THEN {} ELSE {"failed"})

\* A slip of executeParallel: only branches that passed are waited for.
Bug_executeParallel(x, n) ==
  /\ AtNode(x, n, "parallel")
  /\ Count(x, n, Passed) = Cardinality(Kids(n)) /\ completeNode(x, n)
  /\ UNCHANGED <<mine, shared>>
executeParallel(x, n) ==
  /\ AtNode(x, n, "parallel")
  /\ Count(x, n, Ended) = Cardinality(Kids(n))
  /\ \/ \E i \in Kids(n) : Kid(x, n, i) \in Stops(n) /\ Pass(x, n, Kid(x, n, i))
     \/ Count(x, n, Stops(n)) = 0 /\ completeNode(x, n)
  /\ UNCHANGED <<mine, shared>>

executeJoin(x, n) ==
  /\ AtNode(x, n, "join")
  /\ \/ \E i \in Kids(n) : Kid(x, n, i) \in Waiting /\ Pass(x, n, Kid(x, n, i))
     \/ /\ Count(x, n, Passed \cup {"failed"}) = Cardinality(Kids(n))
        /\ \/ Count(x, n, {"completed"}) >= Quorum[n] /\ completeNode(x, n)
           \/ Count(x, n, {"completed"}) < Quorum[n] /\ Pass(x, n, "failed")
  /\ UNCHANGED <<mine, shared>>

\* renderIterationNode copies the body, but the nodes below it that hang in a
\* slice of children are written in place, the first time for good.
InSlice(n) == {m \in Under(n) \ {n} : \E p \in (Lineage(m) \ {m}) \cap Under(n) :
                                        Kind[p] \in {"sequence", "parallel", "join"}}
Render(x, n, i) ==
  burnt' = [burnt EXCEPT ![x] = [m \in Nodes |->
              IF m \in InSlice(Append(n, 1)) \cap PerRound /\ burnt[x][m] = 0 THEN i ELSE burnt[x][m]]]

\* The next iteration begins, with the first or after a body that went well; the
\* loops within begin anew.
NextIteration(x, n) ==
  /\ AtNode(x, n, "loop")
  /\ iteration[x][n] < Rounds[n] /\ (iteration[x][n] > 0 => Kid(x, n, 1) \in Passed)
  /\ iteration' = [iteration EXCEPT ![x] = [m \in Nodes |->
       IF m = n THEN iteration[x][n] + 1 ELSE IF m \in Under(n) THEN 0 ELSE iteration[x][m]]]
  /\ node' = [node EXCEPT ![x] = [m \in Nodes |-> IF m \in Under(n) \ {n} THEN "idle" ELSE node[x][m]]]
  /\ Render(x, n, iteration[x][n] + 1)
  /\ UNCHANGED <<phase, executes, late, events, failures, shared>>

executeLoop(x, n) ==
  /\ AtNode(x, n, "loop") /\ iteration[x][n] > 0
  /\ \/ Kid(x, n, 1) \in Waiting \cup {"failed"} /\ Pass(x, n, Kid(x, n, 1))
     \/ Kid(x, n, 1) \in Passed /\ iteration[x][n] = Rounds[n] /\ completeNode(x, n)
  /\ UNCHANGED <<mine, shared>>

\* Whatever the branch returns without an error counts as done.
executeCondition(x, n) ==
  /\ AtNode(x, n, "condition")
  /\ \/ Chosen(n) \notin Kids(n) /\ completeNode(x, n)
     \/ /\ Chosen(n) \in Kids(n)
        /\ \/ Kid(x, n, Chosen(n)) = "failed" /\ Pass(x, n, "failed")
           \/ Kid(x, n, Chosen(n)) \in Ended \ {"failed"} /\ completeNode(x, n)
  /\ UNCHANGED <<mine, shared>>

executeErrorHandler(x, n) ==
  /\ AtNode(x, n, "error_handler")
  /\ \/ Kid(x, n, 1) \in Ended \ {"failed"} /\ Pass(x, n, Kid(x, n, 1))
     \/ Kid(x, n, 1) = "failed" /\ 2 \notin Kids(n) /\ Pass(x, n, "failed")
     \/ /\ Kid(x, n, 1) = "failed" /\ 2 \in Kids(n)
        /\ \/ Kid(x, n, 2) = "failed" /\ Pass(x, n, "failed")
           \/ Kid(x, n, 2) \in Ended \ {"failed"} /\ Pass(x, n, "compensated")
  /\ UNCHANGED <<mine, shared>>

\* Execute of the nested definition ends with an event of its own.
Conclusion(n, status) == {<<"workflow_" \o status, n>>}
executeSubworkflow(x, n) ==
  LET es == Conclusion(Append(n, 1), Kid(x, n, 1)) IN
  /\ AtNode(x, n, "subworkflow")
  /\ \/ Kid(x, n, 1) = "failed" /\ Pass(x, n, "failed")
     \/ Kid(x, n, 1) \in Waiting /\ Publish(x, n, es) /\ Return(x, n, Kid(x, n, 1))
     \/ Kid(x, n, 1) \in Waiting /\ PublishFails(x, n, es) /\ Return(x, n, "failed")
     \/ Kid(x, n, 1) \in Passed /\ CompleteAfter(x, n, es)
  /\ UNCHANGED <<mine, shared>>

\* The id of an agent task in the iteration at hand: the outermost loop's.
LoopAbove(n) == {m \in Lineage(n) \ {n} : Kind[m] = "loop"}
TaskID(x, n) ==
  IF n \notin PerRound \/ LoopAbove(n) = {} THEN <<n, 0>>
  ELSE IF burnt[x][n] # 0 THEN <<n, burnt[x][n]>>
  ELSE <<n, iteration[x][CHOOSE m \in LoopAbove(n) : \A k \in LoopAbove(n) : m \in Lineage(k)]>>

Add(x, n, t) ==
  /\ scheduled' = scheduled \cup {t}
  /\ adder' = adder \cup {<<t, x>>}
  /\ completeNode(x, n)
\* A slip of Add: an id the scheduler has is taken again.
Bug_AddTwice(x, n) ==
  /\ AtNode(x, n, "agent_task")
  /\ ~Expired(x, n) /\ Add(x, n, TaskID(x, n))
  /\ UNCHANGED <<mine, tickets, saved, posted, ends>>
executeAgentTask(x, n) ==
  /\ AtNode(x, n, "agent_task")
  /\ \/ ~Expired(x, n) /\ TaskID(x, n) \notin scheduled /\ Add(x, n, TaskID(x, n))
     \/ /\ Expired(x, n) \/ TaskID(x, n) \in scheduled
        /\ Pass(x, n, "failed") /\ UNCHANGED <<scheduled, adder>>
  /\ UNCHANGED <<mine, tickets, saved, posted, ends>>

\* A ticket of its own each time; an answer to an earlier one is not looked for.
executeApproval(x, n) ==
  /\ AtNode(x, n, "approval")
  /\ \/ ~Expired(x, n) /\ tickets' = [tickets EXCEPT ![n] = @ + 1] /\ Pass(x, n, "waiting_approval")
     \/ Expired(x, n) /\ Pass(x, n, "failed") /\ UNCHANGED tickets
  /\ UNCHANGED <<mine, scheduled, adder, saved, posted, ends>>

executeWaitEvent(x, n) ==
  /\ AtNode(x, n, "wait_event")
  /\ \/ Awaits[n] \in events /\ completeNode(x, n)
     \/ Awaits[n] \notin events /\ Pass(x, n, "waiting_event")
  /\ UNCHANGED <<mine, shared>>

-----------------------------------------------------------------------------
(* Requests.                                                               *)

\* Execute's first event; without it the client is told of an error.
Start(x, w, definition) ==
  /\ \/ /\ phase' = [phase EXCEPT ![x] = "running"]
        /\ executes' = [executes EXCEPT ![x] = w] /\ burnt' = [burnt EXCEPT ![x] = definition]
        /\ UNCHANGED failures
     \/ /\ failures < MaxFailures /\ failures' = failures + 1
        /\ phase' = [phase EXCEPT ![x] = "answered"] /\ UNCHANGED <<executes, burnt>>
  /\ UNCHANGED <<node, iteration, late, scheduled, adder, tickets, saved, ends>>

NextRequest(x) == phase[x] = "idle" /\ \A y \in Requests : y < x => phase[y] # "idle"

handleSubmitWorkflow(x) ==
  /\ NextRequest(x)
  /\ \E w \in Workflows : Start(x, w, Zero)
  /\ UNCHANGED <<events, posted>>

\* An event is published, whether or not anybody waits for it, and the saved
\* definition executed.
handleResumeWorkflow(x) ==
  /\ NextRequest(x) /\ posted < MaxEvents
  /\ \E w \in Workflows, e \in Awaited :
       /\ saved[w].status # "none"
       /\ events' = events \cup {e}
       /\ Start(x, w, saved[w].burnt)
  /\ posted' = posted + 1

\* The client goes away, or a node's time is up.
ContextEnds(x, n) ==
  /\ phase[x] = "running"
  /\ n = executes[x] \/ (n \in Timed /\ node[x][n] = "open")
  /\ n \notin late[x] /\ failures < MaxFailures
  /\ late' = [late EXCEPT ![x] = @ \cup {n}]
  /\ failures' = failures + 1
  /\ UNCHANGED <<phase, executes, node, iteration, burnt, events, shared>>

\* The client has its answer; the walk's own state goes with the request.
Answer(xs) ==
  /\ phase' = [x \in Requests |-> IF x \in xs THEN "answered" ELSE phase[x]]
  /\ executes' = [x \in Requests |-> IF x \in xs THEN <<>> ELSE executes[x]]
  /\ node' = [x \in Requests |-> IF x \in xs THEN Idle ELSE node[x]]
  /\ iteration' = [x \in Requests |-> IF x \in xs THEN Zero ELSE iteration[x]]
  /\ burnt' = [x \in Requests |-> IF x \in xs THEN Zero ELSE burnt[x]]
  /\ late' = [x \in Requests |-> IF x \in xs THEN {} ELSE late[x]]

\* Execute's last event.
ConcludeIf(x, isError(_, _)) ==
  LET status == node[x][executes[x]] es == Conclusion(executes[x], status) IN
  /\ phase[x] = "running" /\ status \in Ended
  /\ \E sent \in BOOLEAN :
       /\ IF sent THEN Publish(x, executes[x], es) ELSE PublishFails(x, executes[x], es)
       /\ IF isError(status, sent) THEN Answer({x})
          ELSE phase' = [phase EXCEPT ![x] = "saving"] /\ UNCHANGED <<executes, node, iteration, burnt, late>>
  /\ UNCHANGED shared

\* A walk that failed is an error whatever becomes of its event; an end that cannot
\* be published is one too, which the handler overlooks if the workflow waits.
ConcludeWorkflow(x) ==
  LET isError(status, sent) == status = "failed" \/ (~sent /\ status \notin Waiting)
  IN ConcludeIf(x, isError)

\* The definition is saved as the walk has left it.
SaveWorkflowState(x) ==
  /\ phase[x] = "saving"
  /\ Answer({x})
  /\ \/ /\ executes[x] \notin late[x]
        /\ saved' = [saved EXCEPT ![executes[x]] = [status |-> node[x][executes[x]], burnt |-> burnt[x]]]
        /\ UNCHANGED failures
     \/ executes[x] \in late[x] /\ UNCHANGED <<saved, failures>>
     \/ failures < MaxFailures /\ failures' = failures + 1 /\ UNCHANGED saved
  /\ UNCHANGED <<scheduled, adder, tickets, events, posted, ends>>

\* The scheduler and the tickets are in memory; events and states are not.
End ==
  /\ ends < MaxEnds /\ ends' = ends + 1
  /\ Answer({x \in Requests : phase[x] # "idle"})
  /\ scheduled' = {} /\ adder' = {} /\ tickets' = Zero
  /\ UNCHANGED <<events, saved, posted, failures>>

-----------------------------------------------------------------------------
Walk(x) == \E n \in Nodes :
  \/ executeNode(x, n) \/ executeSequence(x, n) \/ executeParallel(x, n) \/ executeJoin(x, n)
  \/ NextIteration(x, n) \/ executeLoop(x, n) \/ executeCondition(x, n) \/ executeErrorHandler(x, n)
  \/ executeSubworkflow(x, n) \/ executeAgentTask(x, n) \/ executeApproval(x, n) \/ executeWaitEvent(x, n)

WorkflowNext ==
  \/ \E x \in Requests :
       \/ handleSubmitWorkflow(x) \/ handleResumeWorkflow(x) \/ Walk(x)
       \/ ConcludeWorkflow(x) \/ SaveWorkflowState(x) \/ \E n \in Nodes : ContextEnds(x, n)
  \/ End

WorkflowSpec == WorkflowInit /\ [][WorkflowNext]_workflowVars

-----------------------------------------------------------------------------
(* Properties.                                                             *)

\* Types; and a saved state is one that was reached without an error.
WorkflowTypeOK ==
  /\ phase \in [Requests -> {"idle", "running", "saving", "answered"}]
  /\ \A x \in Requests : \A n \in Nodes :
       /\ node[x][n] \in Ended \cup {"idle", "open"}
       /\ iteration[x][n] \in Nat /\ burnt[x][n] \in Nat
  /\ \A w \in Workflows : saved[w].status \in (Ended \ {"failed"}) \cup {"none"}

\* An agent task is handed to the scheduler once, by one request: walks repeated
\* for every event and walks that overlap never give the same work out twice.
GivenOutOnce == \A a, b \in adder : a[1] = b[1] => a[2] = b[2]

\* Nothing goes on below a node that has returned: no branch of a parallel node
\* outlives it, whatever stopped it.
NothingLeftBehind ==
  \A x \in Requests : phase[x] # "idle" => \A n \in Nodes :
    node[x][n] \in Ended => \A m \in Under(n) : node[x][m] # "open"

\* A workflow said to be completed has nothing in it that waits or failed, but for
\* what a condition, a quorum, collect_all or a handler lets pass.
Lenient(n) == Kind[n] \in {"condition", "join", "error_handler"} \/ n \in CollectAll
CompletedIsDone ==
  \A x \in Requests : phase[x] = "saving" /\ node[x][executes[x]] = "completed" => \A n \in Under(executes[x]) :
    node[x][n] \in Waiting \cup {"failed"} => \E p \in Lineage(n) \ {n} : Lenient(p)

\* A loop that completed, and lies in no other, has given out a task of its own in
\* each iteration.
LoopGivesAll ==
  \A x \in Requests : phase[x] = "running" => \A n \in Nodes :
    Kind[n] = "loop" /\ LoopAbove(n) = {} /\ node[x][n] = "completed" =>
      \A m \in Under(n) \cap PerRound : (\A p \in Lineage(m) \cap Under(n) : ~Lenient(p)) =>
        Cardinality({a \in adder : a[1][1] = m /\ a[2] = x}) = Rounds[n]

\* Whatever waits, fails or executes out of time in the branches of a walk, it goes
\* on: no request is stuck.
NeverStuck == \A x \in Requests : phase[x] = "running" => ENABLED (Walk(x) \/ ConcludeWorkflow(x))

(* No work is given out twice, nothing goes on below a node that has returned, and a
   workflow or loop said to be completed is: engine.go walks a definition again for
   every event, several walks at a time, and starts branches in goroutines.          *)
WorkflowSafe ==
  /\ [](WorkflowTypeOK /\ GivenOutOnce /\ NothingLeftBehind /\ CompletedIsDone /\ LoopGivesAll)
===============================================================================
