--------------------------- MODULE DelegationProofs ---------------------------
(* Work inside the service and what is told of it, proved safe for any round *)
(* of calls, any number of clients, publishers, executions and messages.     *)
EXTENDS Delegation, EventFeed, ToolCalls, FiniteSetTheorems, TLAPS

-----------------------------------------------------------------------------
(* A round of tool calls. Its invariant has one part for each of the three   *)
(* places a question is kept track of: the tickets, the step of the call at   *)
(* hand, and what the calls before it left behind.                            *)

Questions == {"none", "pending", "approved", "denied"}
Answers == {"allow", "ask", "deny"}
Rounds == {"start", "asks", "sensitive", "decide", "suspended", "dispatch", "over"}
CallSteps == {"gate", "resolve", "enforce", "consult", "verdict", "handle", "executed", "fails", "observe"}
Found == CallSteps \ {"gate", "resolve"}
Handled == {"executed", "fails", "observe"}

CallTypes ==
  /\ plugin \in [mounted : BOOLEAN, sensitive : BOOLEAN, answer : Answers]
  /\ round \in Rounds /\ at \in Calls /\ need \in BOOLEAN /\ allow \subseteq Tools
  /\ step \in CallSteps /\ verdict \in Answers
  /\ ticket \in [Ids -> Questions] /\ asked \subseteq Calls /\ suspends \in Nat
  /\ ran \in [Calls -> BOOLEAN] /\ observed \in [Calls -> BOOLEAN]
  /\ audited \in [Calls -> {"none", "tool_executed", "tool_failed"}]
  /\ outcome \in [Calls -> {"none", "ok", "failed", "refused", "unapproved"}]

\* The tickets ever opened, and the part of the round that opens them.
Opened == {k \in Ids : ticket[k] # "none"}
Asking == round \in {"asks", "sensitive", "decide"}

\* A leg that needs an answer has opened a ticket no leg before it had, and
\* nothing is undecided once calls are dispatched.
QuestionsCounted ==
  /\ suspends + (IF Asking /\ need THEN 1 ELSE 0) <= Cardinality(Opened)
  /\ \A k \in Ids : ticket[k] = "pending" => (Asking /\ need) \/ round = "suspended"

\* Calls end in their order, and one not yet handled has left no trace.
InOrder ==
  /\ step # "gate" => round = "dispatch"
  /\ round = "decide" => at = 1
  /\ \A c \in Calls : (outcome[c] # "none") = (round = "over" \/ (round = "dispatch" /\ c < at))
  /\ \A c \in Calls : outcome[c] = "none" => ~observed[c] /\ (ran[c] => c = at /\ step \in Handled)
  /\ step \in {"executed", "observe"} => ran[at]
  /\ step = "observe" => audited[at] = "tool_executed"

\* What the call at hand has passed: the view has its tool; the gate of Manual
\* mode and, past the deciders, a plugin's question were answered.
Passed ==
  /\ step \in Found => CallTool[at] \in allow
  /\ step # "gate" /\ mode = "manual" /\ CallTool[at] = "write" /\ CallTool[at] \in allow
       => ticket[<<at, "outer">>] = "approved"
  /\ step = "handle" /\ verdict = "ask" => ticket[UnwrapLazyCall(at)] = "approved"

\* A view made for a planning run has no sensitive tool as long as it is used.
PlanView == mode = "plan" /\ round \notin {"start", "suspended"} => \A t \in allow : ~Sensitive(t)

\* A question asked has a ticket, and a call turned down for want of an approval
\* had none to show.
TurnedDown ==
  /\ \A c \in asked : ticket[UnwrapLazyCall(c)] # "none"
  /\ \A c \in Calls : outcome[c] = "unapproved" => Narrowed \/ ticket[UnwrapLazyCall(c)] # "approved"

CallsInv ==
  /\ CallTypes /\ QuestionsCounted /\ InOrder /\ Passed /\ PlanView /\ TurnedDown
  /\ SensitiveIsApproved /\ SuccessIsAudited

\* A round has a first call, and a call's tool is a tool.
LEMMA CallsAreSome ==
  /\ Len(CallTool) \in Nat \ {0} /\ 1 \in Calls
  /\ \A c \in Calls : CallTool[c] \in Tools /\ UnwrapLazyCall(c) \in Ids /\ <<c, "outer">> \in Ids
<1>1. CallTool \in Seq(Tools) /\ CallTool # <<>>
  BY ToolCallsAssumption
<1>2. Len(CallTool) \in Nat /\ Len(CallTool) # 0
  BY <1>1
<1> QED
  BY <1>1, <1>2 DEF Calls, Ids, UnwrapLazyCall

\* There are finitely many tickets.
LEMMA OpenedFinite == IsFiniteSet(Opened) /\ Cardinality(Opened) \in Nat
<1>1. IsFiniteSet(Calls) /\ IsFiniteSet({"outer", "inner"})
  <2>1. IsFiniteSet(Calls)
    BY CallsAreSome, FS_Interval DEF Calls
  <2>2. IsFiniteSet({"outer"} \cup {"inner"})
    BY FS_Singleton, FS_AddElement
  <2>3. {"outer", "inner"} = {"outer"} \cup {"inner"}
    OBVIOUS
  <2> QED
    BY <2>1, <2>2, <2>3
<1>2. IsFiniteSet(Ids)
  BY <1>1, FS_Product DEF Ids
<1>3. IsFiniteSet(Opened)
  BY <1>2, FS_Subset DEF Opened
<1> QED
  BY <1>3, FS_CardinalityType

\* Asking about a call opens at most one ticket.
LEMMA AskingCounts ==
  ASSUME CallTypes, NEW k \in Ids, AskTicket(k)
  PROVE  Cardinality(Opened') = Cardinality(Opened) + (IF ticket[k] = "none" THEN 1 ELSE 0)
<1>1. CASE ticket[k] = "none"
  <2>1. Opened' = Opened \cup {k} /\ k \notin Opened
    BY <1>1 DEF Opened, AskTicket, CallTypes
  <2> QED
    BY <1>1, <2>1, OpenedFinite, FS_AddElement
<1>2. CASE ticket[k] # "none"
  <2>1. Opened' = Opened
    BY <1>2 DEF Opened, AskTicket, CallTypes
  <2> QED
    BY <1>2, <2>1, OpenedFinite
<1> QED
  BY <1>1, <1>2

\* The call after the one at hand is a call.
LEMMA NextCallTypes ==
  ASSUME CallTypes, NEW next \in Rounds, NextCall(next)
  PROVE  at' \in Calls /\ round' \in Rounds
BY CallsAreSome DEF CallTypes, NextCall, Calls

\* How a call may end.
LEMMA EndsTypes ==
  ASSUME CallTypes, NEW how \in {"ok", "failed", "refused", "unapproved"}, Ends(how)
  PROVE  /\ at' \in Calls /\ round' \in Rounds /\ step' \in CallSteps
         /\ outcome' \in [Calls -> {"none", "ok", "failed", "refused", "unapproved"}]
<1>1. NextCall("over") /\ "over" \in Rounds
  BY DEF Ends, Rounds
<1>2. at' \in Calls /\ round' \in Rounds
  BY <1>1, NextCallTypes
<1> QED
  BY <1>2 DEF Ends, CallTypes, CallSteps

LEMMA CallTypesStep == CallTypes /\ [ToolCallsNext]_toolVars => CallTypes'
<1> SUFFICES ASSUME CallTypes, [ToolCallsNext]_toolVars PROVE CallTypes'
  OBVIOUS
<1> USE DEF task, gateVars, callVars, calm
<1>1. CASE effectiveTools
  BY <1>1, CallsAreSome DEF effectiveTools, CallTypes, Rounds, SafeToolNames
<1>2. CASE suspendForPluginAsks
  <2>1. at' \in Calls /\ round' \in Rounds
    BY <1>2, NextCallTypes DEF suspendForPluginAsks, Rounds
  <2>2. UnwrapLazyCall(at) \in Ids
    BY CallsAreSome DEF CallTypes
  <2>3. ticket' \in [Ids -> Questions] /\ need' \in BOOLEAN /\ asked' \subseteq Calls
    BY <1>2, <2>2 DEF suspendForPluginAsks, AskTicket, CallTypes, Questions
  <2> QED
    BY <1>2, <2>1, <2>3 DEF suspendForPluginAsks, CallTypes
<1>3. CASE ShouldSuspend
  <2>1. at' \in Calls /\ round' \in Rounds
    BY <1>3, NextCallTypes DEF ShouldSuspend, Rounds
  <2>2. ticket' \in [Ids -> Questions] /\ need' \in BOOLEAN
    BY <1>3, CallsAreSome DEF ShouldSuspend, AskTicket, CallTypes, Questions
  <2> QED
    BY <1>3, <2>1, <2>2 DEF ShouldSuspend, CallTypes
<1>4. CASE checkSuspend
  BY <1>4 DEF checkSuspend, CallTypes, Rounds
<1>5. ASSUME NEW k \in Ids, NEW status \in {"approved", "denied"}, Decide(k, status) PROVE CallTypes'
  BY <1>5 DEF Decide, CallTypes, Questions
<1>6. CASE Resumed
  BY <1>6 DEF Resumed, CallTypes, Rounds
<1>7. CASE Unload
  BY <1>7 DEF Unload, CallTypes
<1>8. CASE Reload
  BY <1>8 DEF Reload, CallTypes, Answers
<1>9. CASE Resolve
  BY <1>9, EndsTypes DEF Resolve, Goes, CallTypes, CallSteps
<1>10. CASE Lookup
  BY <1>10, EndsTypes DEF Lookup, Goes, CallTypes, CallSteps
<1>11. CASE Check
  BY <1>11, EndsTypes DEF Check, Goes, CallTypes, CallSteps
<1>12. CASE Consult
  <2>1. verdict' \in Answers
    BY <1>12 DEF Consult, consultDeciders, CallTypes, Answers
  <2> QED
    BY <1>12, <2>1, EndsTypes DEF Consult, Goes, CallTypes, CallSteps
<1>13. CASE resolveVerdict
  BY <1>13, EndsTypes DEF resolveVerdict, Goes, CallTypes, CallSteps
<1>14. CASE Handle
  <2>1. ran' \in [Calls -> BOOLEAN]
    BY <1>14 DEF Handle, CallTypes, Registered
  <2> QED
    BY <1>14, <2>1, EndsTypes DEF Handle, Goes, CallTypes, CallSteps
<1>15. CASE appendAudit
  BY <1>15, EndsTypes DEF appendAudit, Goes, CallTypes, CallSteps
<1>16. CASE notifyObservers
  BY <1>16, EndsTypes DEF notifyObservers, CallTypes
<1>17. CASE UNCHANGED toolVars
  BY <1>17 DEF toolVars, CallTypes
<1> QED
  BY <1>1, <1>2, <1>3, <1>4, <1>5, <1>6, <1>7, <1>8, <1>9, <1>10, <1>11, <1>12, <1>13, <1>14, <1>15,
     <1>16, <1>17 DEF ToolCallsNext, Execute

\* Steps of the registry, which the gate's tickets outlive unchanged.
LEMMA DispatchKeepsTickets ==
  ASSUME Execute
  PROVE  /\ UNCHANGED <<mode, disabled, plugin, reloads, allow, need, ticket, asked, suspends>>
         /\ round = "dispatch" /\ round' \in {"dispatch", "over"}
BY DEF Execute, Resolve, Lookup, Check, Consult, resolveVerdict, Handle, appendAudit, notifyObservers,
       calm, task, Dispatching, Ends, Goes, NextCall

LEMMA QuestionsStep ==
  CallTypes /\ QuestionsCounted /\ [ToolCallsNext]_toolVars => QuestionsCounted'
<1> SUFFICES ASSUME CallTypes, QuestionsCounted, [ToolCallsNext]_toolVars PROVE QuestionsCounted'
  OBVIOUS
<1> USE DEF task, gateVars, callVars
<1>1. suspends \in Nat /\ Cardinality(Opened) \in Nat
  BY OpenedFinite DEF CallTypes
<1>2. ASSUME NEW k \in Ids, AskTicket(k), round \in {"asks", "sensitive"}, Asking', suspends' = suspends
      PROVE  QuestionsCounted'
  <2>1. Cardinality(Opened') = Cardinality(Opened) + (IF ticket[k] = "none" THEN 1 ELSE 0)
    BY <1>2, AskingCounts
  <2>2. \A l \in Ids : ticket'[l] = "pending" => need'
    BY <1>2 DEF AskTicket, QuestionsCounted, CallTypes, Asking
  <2>3. CASE need
    BY <1>1, <1>2, <2>1, <2>2, <2>3 DEF QuestionsCounted, Asking, AskTicket
  <2>4. CASE ~need
    <3>1. ticket[k] # "pending"
      BY <1>2, <2>4 DEF QuestionsCounted
    <3>2. suspends <= Cardinality(Opened)
      BY <1>1, <2>4 DEF QuestionsCounted
    <3>3. CASE ticket[k] = "none"
      <4>1. Cardinality(Opened') = Cardinality(Opened) + 1
        BY <2>1, <3>3
      <4> QED
        BY <1>1, <1>2, <2>2, <3>2, <4>1 DEF QuestionsCounted
    <3>4. CASE ticket[k] # "none"
      <4>1. Cardinality(Opened') = Cardinality(Opened)
        BY <1>1, <2>1, <3>4
      <4>2. need' = (need \/ ticket[k] \in {"none", "pending"}) /\ need = FALSE
        BY <1>2, <2>4 DEF AskTicket, CallTypes
      <4>3. need' = FALSE
        BY <3>1, <3>4, <4>2
      <4> QED
        BY <1>1, <1>2, <2>2, <3>2, <4>1, <4>3 DEF QuestionsCounted
    <3> QED
      BY <3>3, <3>4
  <2> QED
    BY <2>3, <2>4 DEF CallTypes
<1>3. ASSUME UNCHANGED <<ticket, need, suspends>>, round \in {"asks", "sensitive"}, Asking'
      PROVE  QuestionsCounted'
  BY <1>3 DEF QuestionsCounted, Asking, Opened
<1>4. CASE effectiveTools
  <2>1. UNCHANGED <<ticket, suspends>> /\ need' = FALSE /\ ~(Asking /\ need) /\ round = "start"
    BY <1>4 DEF effectiveTools, Asking
  <2> QED
    BY <1>1, <2>1 DEF QuestionsCounted, Opened
<1>5. CASE suspendForPluginAsks
  <2>1. round = "asks" /\ Asking' /\ suspends' = suspends
    BY <1>5 DEF suspendForPluginAsks, NextCall, Asking
  <2>2. CASE AskTicket(UnwrapLazyCall(at))
    BY <1>2, <2>1, <2>2, CallsAreSome DEF CallTypes
  <2>3. CASE UNCHANGED <<ticket, need>>
    BY <1>3, <2>1, <2>3
  <2> QED
    BY <1>5, <2>2, <2>3 DEF suspendForPluginAsks
<1>6. CASE ShouldSuspend
  <2>1. round = "sensitive" /\ Asking' /\ suspends' = suspends
    BY <1>6 DEF ShouldSuspend, NextCall, Asking
  <2>2. CASE AskTicket(<<at, "outer">>)
    BY <1>2, <2>1, <2>2, CallsAreSome DEF CallTypes
  <2>3. CASE UNCHANGED <<ticket, need>>
    BY <1>3, <2>1, <2>3
  <2> QED
    BY <1>6, <2>2, <2>3 DEF ShouldSuspend
<1>7. CASE checkSuspend
  <2>1. /\ UNCHANGED <<ticket, need>> /\ Asking /\ suspends' = suspends + (IF need THEN 1 ELSE 0)
        /\ need => round' = "suspended"
        /\ ~Asking'
    BY <1>7 DEF checkSuspend, Asking
  <2>2. \A k \in Ids : ticket'[k] = "pending" => round' = "suspended"
    BY <2>1 DEF QuestionsCounted, Asking
  <2> QED
    BY <1>1, <2>1, <2>2 DEF QuestionsCounted, Opened
<1>8. ASSUME NEW k \in Ids, NEW status \in {"approved", "denied"}, Decide(k, status)
      PROVE  QuestionsCounted'
  <2>1. Opened' = Opened
    BY <1>8 DEF Decide, Opened, CallTypes
  <2>2. \A l \in Ids : ticket'[l] = "pending" => ticket[l] = "pending"
    BY <1>8 DEF Decide, CallTypes
  <2> QED
    BY <1>8, <2>1, <2>2 DEF Decide, QuestionsCounted, Asking
<1>9. CASE Resumed
  <2>1. UNCHANGED <<ticket, need, suspends>> /\ round = "suspended" /\ round' = "start" /\ \A k \in Ids : ticket[k] # "pending"
    BY <1>9 DEF Resumed
  <2> QED
    BY <1>1, <2>1 DEF QuestionsCounted, Opened, Asking
<1>10. CASE Unload \/ Reload \/ UNCHANGED toolVars
  <2>1. UNCHANGED <<ticket, need, suspends, round>>
    BY <1>10 DEF Unload, Reload, toolVars
  <2> QED
    BY <2>1 DEF QuestionsCounted, Opened, Asking
<1>11. CASE Execute
  <2>1. UNCHANGED <<ticket, need, suspends>> /\ ~Asking /\ round # "suspended" /\ ~Asking'
    BY <1>11, DispatchKeepsTickets DEF Asking
  <2> QED
    BY <1>1, <2>1 DEF QuestionsCounted, Opened
<1> QED
  BY <1>4, <1>5, <1>6, <1>7, <1>8, <1>9, <1>10, <1>11 DEF ToolCallsNext


\* What the gate does at the round's boundary, a decision, and what happens to
\* the plugin at any time are no step of a call.
Boundaries ==
  \/ effectiveTools \/ suspendForPluginAsks \/ ShouldSuspend \/ checkSuspend \/ Resumed \/ Unload \/ Reload
  \/ \E k \in Ids, status \in {"approved", "denied"} : Decide(k, status)
  \/ UNCHANGED toolVars

LEMMA BoundariesLeaveCalls ==
  ASSUME CallTypes, InOrder, Boundaries
  PROVE  /\ UNCHANGED <<mode, disabled, step, verdict, ran, audited, observed, outcome>>
         /\ round' = "decide" => at' = 1
         /\ \/ round \in {"dispatch", "over"} /\ UNCHANGED <<round, at, allow>>
            \/ round \notin {"dispatch", "over"} /\ round' # "over" /\ step = "gate"
               /\ (round' = "dispatch" => round = "decide" /\ at' = 1)
<1> USE DEF gateVars, callVars, task
<1>1. CASE effectiveTools
  BY <1>1 DEF effectiveTools, InOrder
<1>2. CASE suspendForPluginAsks
  BY <1>2 DEF suspendForPluginAsks, NextCall, InOrder
<1>3. CASE ShouldSuspend
  BY <1>3 DEF ShouldSuspend, NextCall, InOrder
<1>4. CASE checkSuspend
  BY <1>4 DEF checkSuspend, InOrder
<1>5. CASE Resumed
  BY <1>5 DEF Resumed, InOrder
<1>6. CASE Unload
  BY <1>6 DEF Unload, InOrder
<1>7. CASE Reload
  BY <1>7 DEF Reload, InOrder
<1>8. CASE \E k \in Ids, status \in {"approved", "denied"} : Decide(k, status)
  BY <1>8 DEF Decide, InOrder
<1>9. CASE UNCHANGED toolVars
  BY <1>9 DEF toolVars, InOrder
<1> QED
  BY <1>1, <1>2, <1>3, <1>4, <1>5, <1>6, <1>7, <1>8, <1>9 DEF Boundaries

\* A call that goes on is the same call; one that ends is over, and the next one
\* is at the gate.
LEMMA GoingOn ==
  ASSUME CallTypes, InOrder, NEW s \in CallSteps, Dispatching(s), NEW next \in CallSteps, Goes(next)
  PROVE  /\ outcome' = outcome /\ at' = at /\ round' = "dispatch" /\ step' = next
         /\ outcome[at] = "none"
BY DEF Dispatching, Goes, InOrder, CallTypes, Calls

LEMMA Ending ==
  ASSUME CallTypes, InOrder, NEW s \in CallSteps, Dispatching(s),
         NEW how \in {"ok", "failed", "refused", "unapproved"}, Ends(how)
  PROVE  /\ step' = "gate" /\ outcome[at] = "none" /\ outcome'[at] = how
         /\ \A c \in Calls : c # at => outcome'[c] = outcome[c]
         /\ \A c \in Calls : (outcome'[c] # "none") = (round' = "over" \/ (round' = "dispatch" /\ c < at'))
         /\ round' \in {"dispatch", "over"}
<1>1. Len(CallTool) \in Nat /\ at \in 1 .. Len(CallTool) /\ how # "none"
  BY CallsAreSome DEF CallTypes, Calls
<1>2. outcome[at] = "none" /\ outcome' = [outcome EXCEPT ![at] = how] /\ round = "dispatch" /\ step' = "gate"
  BY <1>1 DEF Ends, Dispatching, InOrder, CallTypes, Calls
<1>3. outcome'[at] = how /\ \A c \in Calls : c # at => outcome'[c] = outcome[c]
  BY <1>2 DEF CallTypes
<1>4. CASE at < Len(CallTool)
  <2>1. at' = at + 1 /\ round' = round
    BY <1>4 DEF Ends, NextCall
  <2> QED
    BY <1>1, <1>2, <1>3, <2>1 DEF InOrder, Calls
<1>5. CASE ~(at < Len(CallTool))
  <2>1. at' = 1 /\ round' = "over"
    BY <1>5 DEF Ends, NextCall
  <2>2. \A c \in Calls : c # at => c < at
    BY <1>1, <1>5 DEF Calls
  <2> QED
    BY <1>1, <1>2, <1>3, <2>1, <2>2 DEF InOrder, Calls
<1> QED
  BY <1>4, <1>5

\* A boundary touches no call, and no call has begun when one is dispatched.
LEMMA InOrderStep == CallTypes /\ InOrder /\ [ToolCallsNext]_toolVars => InOrder'
<1> SUFFICES ASSUME CallTypes, InOrder, [ToolCallsNext]_toolVars PROVE InOrder'
  OBVIOUS
<1>1. CASE Boundaries
  <2>1. Len(CallTool) \in Nat /\ Calls = 1 .. Len(CallTool)
    BY CallsAreSome DEF Calls
  <2>2. /\ UNCHANGED <<mode, disabled, step, verdict, ran, audited, observed, outcome>>
        /\ round' = "decide" => at' = 1
    BY <1>1, BoundariesLeaveCalls
  <2>3. CASE round \in {"dispatch", "over"} /\ UNCHANGED <<round, at, allow>>
    BY <2>2, <2>3 DEF InOrder
  <2>4. CASE round \notin {"dispatch", "over"} /\ round' # "over" /\ step = "gate"
             /\ (round' = "dispatch" => round = "decide" /\ at' = 1)
    <3>1. \A c \in Calls : outcome[c] = "none"
      BY <2>4 DEF InOrder
    <3>2. \A c \in Calls : ~(round' = "over" \/ (round' = "dispatch" /\ c < at'))
      BY <2>1, <2>4
    <3> QED
      BY <2>2, <2>4, <3>1, <3>2 DEF InOrder, Handled
  <2> QED
    BY <1>1, <2>3, <2>4, BoundariesLeaveCalls
<1>2. ASSUME NEW s \in CallSteps, Dispatching(s), NEW how \in {"ok", "failed", "refused", "unapproved"}, Ends(how),
             \A c \in Calls : c # at => ran'[c] = ran[c] /\ observed'[c] = observed[c]
      PROVE  InOrder'
  <2>1. /\ step' = "gate" /\ outcome[at] = "none" /\ outcome'[at] = how
        /\ \A c \in Calls : c # at => outcome'[c] = outcome[c]
        /\ \A c \in Calls : (outcome'[c] # "none") = (round' = "over" \/ (round' = "dispatch" /\ c < at'))
        /\ round' \in {"dispatch", "over"}
    BY <1>2, Ending
  <2>2. \A c \in Calls : outcome'[c] = "none" => ~observed'[c] /\ ~ran'[c]
    BY <1>2, <2>1 DEF InOrder
  <2> QED
    BY <2>1, <2>2 DEF InOrder
<1>3. ASSUME NEW s \in CallSteps, Dispatching(s), NEW next \in CallSteps, Goes(next),
             \A c \in Calls : c # at => ran'[c] = ran[c], observed' = observed,
             ran'[at] => next \in Handled, next \in {"executed", "observe"} => ran'[at],
             next = "observe" => audited'[at] = "tool_executed"
      PROVE  InOrder'
  <2>1. outcome' = outcome /\ at' = at /\ round' = "dispatch" /\ step' = next /\ round = "dispatch"
    BY <1>3, GoingOn DEF Dispatching
  <2> QED
    BY <1>3, <2>1 DEF InOrder, CallTypes
<1>4. CASE Resolve \/ Lookup \/ Check \/ Consult \/ resolveVerdict
  <2>1. UNCHANGED <<ran, observed, audited>>
    BY <1>4 DEF Resolve, Lookup, Check, Consult, resolveVerdict
  <2>2. PICK s \in {"gate", "resolve", "enforce", "consult", "verdict"} : Dispatching(s)
    BY <1>4 DEF Resolve, Lookup, Check, Consult, resolveVerdict
  <2>3. ~ran[at]
    BY <2>2 DEF Dispatching, InOrder, Handled, CallTypes, Calls
  <2>4. \/ \E how \in {"ok", "failed", "refused", "unapproved"} : Ends(how)
        \/ \E next \in {"resolve", "enforce", "consult", "verdict", "handle"} : Goes(next)
    BY <1>4 DEF Resolve, Lookup, Check, Consult, resolveVerdict
  <2> QED
    BY <1>2, <1>3, <2>1, <2>2, <2>3, <2>4 DEF CallSteps
<1>5. CASE Handle
  <2>1. Dispatching("handle") /\ UNCHANGED <<observed, audited>> /\ ~ran[at]
    BY <1>5 DEF Handle, Dispatching, InOrder, Handled, CallTypes, Calls
  <2>2. \A c \in Calls : c # at => ran'[c] = ran[c]
    BY <1>5 DEF Handle, CallTypes
  <2>3. CASE Ends("failed")
    BY <1>2, <2>1, <2>2, <2>3 DEF CallSteps
  <2>4. CASE Goes("executed") /\ ran' = [ran EXCEPT ![at] = TRUE]
    <3>1. ran'[at]
      BY <2>4 DEF CallTypes
    <3> QED
      BY <1>3, <2>1, <2>2, <2>4, <3>1 DEF CallSteps, Handled
  <2>5. CASE Goes("fails")
    BY <1>3, <2>1, <2>2, <2>5 DEF CallSteps, Handled
  <2> QED
    BY <1>5, <2>3, <2>4, <2>5 DEF Handle
<1>6. CASE appendAudit
  <2>1. UNCHANGED <<observed, ran>>
    BY <1>6 DEF appendAudit
  <2>2. CASE Dispatching("executed") /\ audited' = [audited EXCEPT ![at] = "tool_executed"] /\ Goes("observe")
    <3>1. audited'[at] = "tool_executed" /\ ran[at]
      BY <2>2 DEF CallTypes, InOrder, Dispatching
    <3> QED
      BY <1>3, <2>1, <2>2, <3>1 DEF CallSteps, Handled
  <2>3. CASE Ends("failed") /\ \E s \in {"executed", "fails"} : Dispatching(s)
    BY <1>2, <2>1, <2>3 DEF CallSteps
  <2> QED
    BY <1>6, <2>2, <2>3 DEF appendAudit
<1>7. CASE notifyObservers
  <2>1. \A c \in Calls : c # at => observed'[c] = observed[c] /\ ran'[c] = ran[c]
    BY <1>7 DEF notifyObservers, CallTypes
  <2> QED
    BY <1>2, <1>7, <2>1 DEF notifyObservers, CallSteps
<1> QED
  BY <1>1, <1>4, <1>5, <1>6, <1>7 DEF ToolCallsNext, Execute, Boundaries

\* The view and the plugin's descriptor: only a suspended run sees another.
LEMMA PlanViewStep == CallTypes /\ InOrder /\ PlanView /\ [ToolCallsNext]_toolVars => PlanView'
<1> SUFFICES ASSUME CallTypes, InOrder, PlanView, [ToolCallsNext]_toolVars PROVE PlanView'
  OBVIOUS
<1> USE DEF task, gateVars, callVars
<1>1. CASE effectiveTools
  BY <1>1 DEF effectiveTools, PlanView, SafeToolNames, Sensitive
<1>2. CASE suspendForPluginAsks \/ ShouldSuspend \/ checkSuspend \/ Resumed
  <2>1. UNCHANGED <<mode, plugin, allow>> /\ (round' \notin {"start", "suspended"} => round \notin {"start", "suspended"})
    BY <1>2 DEF suspendForPluginAsks, ShouldSuspend, checkSuspend, Resumed, NextCall
  <2> QED
    BY <2>1 DEF PlanView, Sensitive
<1>3. CASE Unload
  BY <1>3 DEF Unload, PlanView, Sensitive, CallTypes
<1>4. CASE Reload
  BY <1>4 DEF Reload, PlanView
<1>5. CASE \E k \in Ids, status \in {"approved", "denied"} : Decide(k, status)
  BY <1>5 DEF Decide, PlanView, Sensitive
<1>6. CASE Execute
  BY <1>6, DispatchKeepsTickets DEF PlanView, Sensitive
<1>7. CASE UNCHANGED toolVars
  BY <1>7 DEF toolVars, PlanView, Sensitive
<1> QED
  BY <1>1, <1>2, <1>3, <1>4, <1>5, <1>6, <1>7 DEF ToolCallsNext

\* An answer given stays, and a ticket opened is not unopened.
LEMMA AnswersStay ==
  ASSUME CallTypes, [ToolCallsNext]_toolVars
  PROVE  /\ \A k \in Ids : ticket[k] \in {"approved", "denied"} => ticket'[k] = ticket[k]
         /\ \A k \in Ids : ticket[k] # "none" => ticket'[k] # "none"
         /\ UNCHANGED <<mode, disabled>>
<1> USE DEF task, gateVars, callVars
<1>1. CASE effectiveTools \/ checkSuspend \/ Resumed \/ Unload \/ Reload \/ UNCHANGED toolVars
  BY <1>1 DEF effectiveTools, checkSuspend, Resumed, Unload, Reload, toolVars
<1>2. CASE suspendForPluginAsks
  BY <1>2 DEF suspendForPluginAsks, AskTicket, CallTypes
<1>3. CASE ShouldSuspend
  BY <1>3 DEF ShouldSuspend, AskTicket, CallTypes
<1>4. CASE \E k \in Ids, status \in {"approved", "denied"} : Decide(k, status)
  BY <1>4 DEF Decide, CallTypes
<1>5. CASE Execute
  BY <1>5, DispatchKeepsTickets
<1> QED
  BY <1>1, <1>2, <1>3, <1>4, <1>5 DEF ToolCallsNext

\* The call at hand passes the gate, its lookup and its deciders one by one.
LEMMA PassedStep == CallTypes /\ InOrder /\ Passed /\ [ToolCallsNext]_toolVars => Passed'
<1> SUFFICES ASSUME CallTypes, InOrder, Passed, [ToolCallsNext]_toolVars PROVE Passed'
  OBVIOUS
<1>1. /\ UNCHANGED mode
      /\ \A k \in Ids : ticket[k] = "approved" => ticket'[k] = "approved"
      /\ <<at, "outer">> \in Ids /\ UnwrapLazyCall(at) \in Ids
  BY AnswersStay, CallsAreSome DEF CallTypes
<1>2. CASE Boundaries
  <2>1. CASE step' = "gate"
    BY <2>1 DEF Passed, Found
  <2>2. CASE step' # "gate"
    <3>1. UNCHANGED <<mode, step, verdict, at, allow>>
      BY <1>2, <2>2, BoundariesLeaveCalls DEF InOrder
    <3>2. UnwrapLazyCall(at)' = UnwrapLazyCall(at)
      BY <3>1 DEF UnwrapLazyCall
    <3> QED
      BY <1>1, <3>1, <3>2 DEF Passed
  <2> QED
    BY <2>1, <2>2
<1>3. CASE step' = "gate"
  BY <1>3 DEF Passed, Found
<1>4. CASE Execute /\ step' # "gate"
  <2>1. UNCHANGED <<mode, disabled, plugin, allow, ticket>>
    BY <1>4, DispatchKeepsTickets
  <2>2. /\ at' = at
        /\ \/ Resolve /\ step = "gate" /\ step' = "resolve"
           \/ Lookup /\ step = "resolve" /\ step' = "enforce"
           \/ Check /\ step = "enforce" /\ step' = "consult"
           \/ Consult /\ step = "consult" /\ step' = "verdict"
           \/ resolveVerdict /\ step = "verdict" /\ step' = "handle"
           \/ step \in Found \ {"enforce", "consult", "verdict"} /\ step' \in Handled \cup {"observe"}
    BY <1>4 DEF Execute, Resolve, Lookup, Check, Consult, resolveVerdict, Handle, appendAudit, notifyObservers,
                Dispatching, Ends, Goes, Found, Handled, CallSteps
  <2>3. UnwrapLazyCall(at)' = UnwrapLazyCall(at)
    BY <2>2 DEF UnwrapLazyCall
  <2>4. CASE Resolve
    BY <2>1, <2>2, <2>4 DEF Resolve, Goes, Ends, resolve, Registered, HostTools, Sensitive, Passed, Found
  <2>5. CASE Lookup
    BY <2>1, <2>2, <2>5 DEF Lookup, Goes, Ends, resolve, Passed, Found
  <2>6. CASE resolveVerdict
    BY <2>1, <2>2, <2>3, <2>6 DEF resolveVerdict, Goes, Ends, Passed, Found, CallSteps
  <2>7. CASE step \in Found /\ step' \in CallSteps \ {"gate", "resolve", "handle"}
    BY <2>1, <2>2, <2>7 DEF Passed, Found
  <2> QED
    BY <2>2, <2>4, <2>5, <2>6, <2>7 DEF Found, CallSteps, Handled
<1> QED
  BY <1>2, <1>3, <1>4 DEF ToolCallsNext, Boundaries

\* A handler runs only when it is the call's turn.
LEMMA RunsAtItsTurn ==
  ASSUME CallTypes, [ToolCallsNext]_toolVars, NEW c \in Calls, ~ran[c], ran'[c]
  PROVE  Dispatching("handle") /\ c = at /\ Registered(CallTool[c]) /\ UNCHANGED <<mode, plugin, ticket, verdict>>
<1> USE DEF task, gateVars, callVars
<1>1. CASE Handle
  BY <1>1 DEF Handle, calm, CallTypes
<1>2. CASE ~Handle
  <2>1. ran' = ran
    BY <1>2 DEF ToolCallsNext, Execute, effectiveTools, suspendForPluginAsks, ShouldSuspend, checkSuspend, Decide,
                Resumed, Unload, Reload, Resolve, Lookup, Check, Consult, resolveVerdict, appendAudit,
                notifyObservers, toolVars
  <2> QED
    BY <2>1
<1> QED
  BY <1>1, <1>2

LEMMA SensitiveStep ==
  CallTypes /\ Passed /\ SensitiveIsApproved /\ [ToolCallsNext]_toolVars => SensitiveIsApproved'
<1> SUFFICES ASSUME CallTypes, Passed, SensitiveIsApproved, [ToolCallsNext]_toolVars,
                    NEW c \in Calls, mode' = "manual", CallTool[c] = "write", ran'[c]
             PROVE  ticket'[<<c, "outer">>] = "approved"
  BY DEF SensitiveIsApproved
<1>1. mode = "manual" /\ <<c, "outer">> \in Ids
  BY AnswersStay, CallsAreSome
<1>2. ticket[<<c, "outer">>] = "approved"
  <2>1. CASE ran[c]
    BY <1>1, <2>1 DEF SensitiveIsApproved
  <2>2. CASE ~ran[c]
    <3>1. step = "handle" /\ c = at
      BY <2>2, RunsAtItsTurn DEF Dispatching
    <3> QED
      BY <1>1, <3>1 DEF Passed, Found, CallSteps
  <2> QED
    BY <2>1, <2>2
<1> QED
  BY <1>1, <1>2, AnswersStay

\* A success is observed after its entry is written, a failure never.
LEMMA AuditedStep ==
  CallTypes /\ InOrder /\ InOrder' /\ SuccessIsAudited /\ [ToolCallsNext]_toolVars => SuccessIsAudited'
<1> SUFFICES ASSUME CallTypes, InOrder, InOrder', SuccessIsAudited, [ToolCallsNext]_toolVars PROVE SuccessIsAudited'
  OBVIOUS
<1>1. ASSUME UNCHANGED <<ran, audited, observed>>, \A c \in Calls : outcome'[c] = "ok" => outcome[c] = "ok"
      PROVE  SuccessIsAudited'
  BY <1>1 DEF SuccessIsAudited
<1>2. CASE Boundaries
  BY <1>1, <1>2, BoundariesLeaveCalls
<1>3. CASE Resolve \/ Lookup \/ Check \/ Consult \/ resolveVerdict
  <2>1. UNCHANGED <<ran, audited, observed>>
    BY <1>3 DEF Resolve, Lookup, Check, Consult, resolveVerdict
  <2>2. \A c \in Calls : outcome'[c] = "ok" => outcome[c] = "ok"
    BY <1>3 DEF Resolve, Lookup, Check, Consult, resolveVerdict, Goes, Ends, CallTypes
  <2> QED
    BY <1>1, <2>1, <2>2
<1>4. ASSUME step \in CallSteps \ {"gate", "observe"},
             UNCHANGED observed, outcome' = outcome \/ outcome' = [outcome EXCEPT ![at] = "failed"],
             \A c \in Calls : c # at => ran'[c] = ran[c] /\ audited'[c] = audited[c]
      PROVE  SuccessIsAudited'
  <2>1. outcome[at] = "none" /\ ~observed[at]
    BY <1>4 DEF InOrder, CallTypes, Calls
  <2>2. outcome'[at] # "ok" /\ \A c \in Calls : c # at => outcome'[c] = outcome[c]
    BY <1>4, <2>1 DEF CallTypes
  <2> QED
    BY <1>4, <2>1, <2>2 DEF SuccessIsAudited
<1>5. CASE Handle
  <2>1. step = "handle" /\ UNCHANGED <<observed, audited>>
    BY <1>5 DEF Handle, Dispatching
  <2>2. outcome' = outcome \/ outcome' = [outcome EXCEPT ![at] = "failed"]
    BY <1>5 DEF Handle, Goes, Ends
  <2>3. \A c \in Calls : c # at => ran'[c] = ran[c]
    BY <1>5 DEF Handle, CallTypes
  <2> QED
    BY <1>4, <2>1, <2>2, <2>3 DEF CallSteps
<1>6. CASE appendAudit
  <2>1. step \in {"executed", "fails"} /\ UNCHANGED <<observed, ran>>
    BY <1>6 DEF appendAudit, Dispatching
  <2>2. outcome' = outcome \/ outcome' = [outcome EXCEPT ![at] = "failed"]
    BY <1>6 DEF appendAudit, Goes, Ends
  <2>3. \A c \in Calls : c # at => audited'[c] = audited[c]
    BY <1>6 DEF appendAudit, CallTypes
  <2> QED
    BY <1>4, <2>1, <2>2, <2>3 DEF CallSteps
<1>7. CASE notifyObservers
  <2>1. step = "observe" /\ UNCHANGED <<ran, audited>> /\ audited[at] = "tool_executed" /\ ran[at]
    BY <1>7 DEF notifyObservers, Dispatching, InOrder
  <2>2. \A c \in Calls : c # at => outcome'[c] = outcome[c] /\ observed'[c] = observed[c]
    BY <1>7 DEF notifyObservers, Ends, CallTypes
  <2> QED
    BY <2>1, <2>2 DEF SuccessIsAudited
<1> QED
  BY <1>2, <1>3, <1>5, <1>6, <1>7 DEF ToolCallsNext, Execute, Boundaries

\* A call is turned down with its ticket denied or never opened: at dispatch
\* nothing is undecided.
LEMMA TurnedDownStep ==
  CallTypes /\ QuestionsCounted /\ InOrder /\ TurnedDown /\ [ToolCallsNext]_toolVars => TurnedDown'
<1> SUFFICES ASSUME CallTypes, QuestionsCounted, InOrder, TurnedDown, [ToolCallsNext]_toolVars PROVE TurnedDown'
  OBVIOUS
<1>1. \A c \in Calls : UnwrapLazyCall(c) \in Ids
  BY CallsAreSome
<1>2. \A c \in asked' : ticket'[UnwrapLazyCall(c)] # "none"
  <2>1. \A c \in asked : ticket'[UnwrapLazyCall(c)] # "none"
    BY <1>1, AnswersStay DEF TurnedDown, CallTypes
  <2>2. \A c \in asked' \ asked : ticket'[UnwrapLazyCall(c)] # "none"
    <3>1. CASE suspendForPluginAsks
      BY <1>1, <3>1 DEF suspendForPluginAsks, AskTicket, CallTypes
    <3>2. CASE ~suspendForPluginAsks
      <4>1. asked' = asked
        <5>1. CASE Execute
          BY <5>1, DispatchKeepsTickets
        <5>2. CASE ~Execute
          BY <3>2, <5>2 DEF ToolCallsNext, effectiveTools, ShouldSuspend, checkSuspend, Decide, Resumed, Unload, Reload,
                            toolVars, gateVars
        <5> QED
          BY <5>1, <5>2
      <4> QED
        BY <4>1
    <3> QED
      BY <3>1, <3>2
  <2> QED
    BY <2>1, <2>2
<1>3. Narrowed' = Narrowed
  BY AnswersStay DEF Narrowed
<1>4. ASSUME NEW c \in Calls, outcome'[c] = "unapproved", ~Narrowed PROVE ticket'[UnwrapLazyCall(c)] # "approved"
  <2>1. CASE outcome[c] = "unapproved"
    <3>1. round \in {"dispatch", "over"}
      BY <2>1 DEF InOrder
    <3>2. ticket[UnwrapLazyCall(c)] \in {"none", "denied"}
      BY <1>1, <1>4, <2>1, <3>1 DEF TurnedDown, QuestionsCounted, Asking, CallTypes, Questions
    <3>3. CASE Execute
      BY <3>2, <3>3, DispatchKeepsTickets
    <3>4. CASE ~Execute
      BY <1>1, <3>1, <3>2, <3>4 DEF ToolCallsNext, effectiveTools, suspendForPluginAsks, ShouldSuspend, checkSuspend,
                                    Decide, Resumed, Unload, Reload, toolVars, gateVars, CallTypes
    <3> QED
      BY <3>3, <3>4
  <2>2. CASE outcome[c] # "unapproved"
    <3>1. resolveVerdict
      <4>1. CASE Boundaries
        BY <1>4, <2>2, <4>1, BoundariesLeaveCalls
      <4>2. CASE Execute
        BY <1>4, <2>2, <4>2 DEF Execute, Resolve, Lookup, Check, Consult, Handle, appendAudit, notifyObservers, Ends,
                                Goes, CallTypes
      <4> QED
        BY <4>1, <4>2 DEF ToolCallsNext, Boundaries
    <3>2. c = at /\ ticket' = ticket
      BY <1>4, <2>2, <3>1 DEF resolveVerdict, calm, Ends, Goes, CallTypes
    <3>3. Ends("unapproved")
      BY <1>4, <2>2, <3>1 DEF resolveVerdict, Goes
    <3> QED
      BY <1>4, <3>1, <3>2, <3>3 DEF resolveVerdict, Goes, Ends, InOrder, Dispatching, CallSteps
  <2> QED
    BY <2>1, <2>2
<1> QED
  BY <1>2, <1>3, <1>4 DEF TurnedDown

LEMMA CallsInit == ToolCallsInit => CallsInv
<1> SUFFICES ASSUME ToolCallsInit PROVE CallsInv
  OBVIOUS
<1>1. CallTypes
  BY CallsAreSome DEF ToolCallsInit, CallTypes, Answers, Rounds, CallSteps, Questions
<1>2. Opened = {} /\ Cardinality(Opened) = 0
  BY FS_EmptySet DEF ToolCallsInit, Opened
<1>3. QuestionsCounted
  BY <1>2 DEF ToolCallsInit, QuestionsCounted, Asking
<1>4. InOrder /\ Passed /\ PlanView
  BY DEF ToolCallsInit, InOrder, Passed, Found, PlanView
<1>5. TurnedDown /\ SensitiveIsApproved /\ SuccessIsAudited
  BY DEF ToolCallsInit, TurnedDown, SensitiveIsApproved, SuccessIsAudited
<1> QED
  BY <1>1, <1>3, <1>4, <1>5 DEF CallsInv

LEMMA CallsStep == CallsInv /\ [ToolCallsNext]_toolVars => CallsInv'
BY CallTypesStep, QuestionsStep, InOrderStep, PassedStep, PlanViewStep, TurnedDownStep, SensitiveStep, AuditedStep
   DEF CallsInv

LEMMA CallsInvImplies ==
  CallsInv => ToolCallsTypeOK /\ SuspendsForAQuestion /\ SensitiveIsApproved /\ SuccessIsAudited /\ AnswerIsFound
<1> SUFFICES ASSUME CallsInv
             PROVE  ToolCallsTypeOK /\ SuspendsForAQuestion /\ SensitiveIsApproved /\ SuccessIsAudited /\ AnswerIsFound
  OBVIOUS
<1>1. ToolCallsTypeOK
  BY DEF CallsInv, CallTypes, InOrder, ToolCallsTypeOK, Rounds, CallSteps
<1>2. SuspendsForAQuestion
  <2>1. suspends \in Nat /\ Cardinality(Opened) \in Nat
    BY OpenedFinite DEF CallsInv, CallTypes
  <2>2. suspends <= Cardinality(Opened)
    BY <2>1 DEF CallsInv, QuestionsCounted
  <2> QED
    BY <2>2 DEF SuspendsForAQuestion, Opened
<1>3. AnswerIsFound
  BY DEF CallsInv, TurnedDown, AnswerIsFound
<1> QED
  BY <1>1, <1>2, <1>3 DEF CallsInv

\* What each step keeps: a question's answer decides, and a planning run has no
\* effect.
LEMMA CallsKeep ==
  ASSUME CallsInv, [ToolCallsNext]_toolVars
  PROVE  /\ \A c \in Calls : ~ran[c] /\ ran'[c] /\ verdict = "ask" => ticket[UnwrapLazyCall(c)] = "approved"
         /\ \A c \in Calls : mode = "plan" /\ ~ran[c] /\ ran'[c] => ~Sensitive(CallTool[c])
<1> SUFFICES ASSUME NEW c \in Calls, ~ran[c], ran'[c]
             PROVE  /\ verdict = "ask" => ticket[UnwrapLazyCall(c)] = "approved"
                    /\ mode = "plan" => ~Sensitive(CallTool[c])
  OBVIOUS
<1>1. step = "handle" /\ round = "dispatch" /\ c = at
  BY RunsAtItsTurn DEF CallsInv, Dispatching
<1>2. CallTool[c] \in allow
  BY <1>1 DEF CallsInv, Passed, Found, CallSteps
<1> QED
  BY <1>1, <1>2 DEF CallsInv, Passed, PlanView

(* A round of tool calls is safe: whatever the calls, the modes, the disabled  *)
(* tools and the plugin exchanged meanwhile, Manual mode and a plugin's ask    *)
(* both wait for an approval, Plan mode has no effect, a success has its audit *)
(* entry, an approved call is not turned down, and every suspension opens a    *)
(* question of its own.                                                        *)
THEOREM CallsAreSafe == ToolCallsSpec => ToolCallsSafe
<1>1. ToolCallsInit => CallsInv
  BY CallsInit
<1>2. CallsInv /\ [ToolCallsNext]_toolVars => CallsInv'
  BY CallsStep
<1>3. CallsInv => ToolCallsTypeOK /\ SuspendsForAQuestion /\ SensitiveIsApproved /\ SuccessIsAudited /\ AnswerIsFound
  BY CallsInvImplies
<1>4. CallsInv /\ [ToolCallsNext]_toolVars
        => [\A c \in Calls : ~ran[c] /\ ran'[c] /\ verdict = "ask" => ticket[UnwrapLazyCall(c)] = "approved"]_toolVars
  BY CallsKeep
<1>5. CallsInv /\ [ToolCallsNext]_toolVars
        => [\A c \in Calls : mode = "plan" /\ ~ran[c] /\ ran'[c] => ~Sensitive(CallTool[c])]_toolVars
  BY CallsKeep
<1> QED
  BY <1>1, <1>2, <1>3, <1>4, <1>5, PTL DEF ToolCallsSpec, ToolCallsSafe, AskIsAnswered, PlanHasNoEffects

-----------------------------------------------------------------------------
(* The event feed. What a stream sent and still holds is the end of the bus's *)
(* history as long as its channel never was full, and all of it was in the    *)
(* bridge's log before.                                                       *)

FeedTypes ==
  /\ polled \in Seq(Publishers) /\ teed \in Seq(Publishers) /\ ring = Last(FeedBuffer, teed) /\ busOpen \in BOOLEAN
  /\ pub \in [Publishers -> {"idle", "appended", "done"}]
  /\ stage \in [Streams -> {"idle", "authorized", "captured", "open", "ended"}]
  /\ used \in [Streams -> Nat] /\ watched \in [Streams -> Nat] /\ missed \in [Streams -> BOOLEAN]
  /\ chan \in [Streams -> Seq(Publishers)] /\ sent \in [Streams -> Seq(Publishers)]
  /\ \A s \in Streams : Len(chan[s]) <= FeedBuffer
  /\ generation \in 0 .. MaxRotations /\ seqs \in 0 .. MaxLog

\* The events of a sequence.
Of(q) == {q[i] : i \in 1 .. Len(q)}
LoggedFirst ==
  /\ \A p \in Publishers : pub[p] # "idle" => p \in Of(polled)
  /\ Of(teed) \subseteq Of(polled)
  /\ \A s \in Streams : Of(chan[s]) \subseteq Of(polled) /\ Of(sent[s]) \subseteq Of(polled)

\* q is the end of t.
IsEnd(q, t) == Len(q) <= Len(t) /\ \A i \in 1 .. Len(q) : q[i] = t[i + (Len(t) - Len(q))]
UpToDate ==
  \A s \in Streams :
    /\ stage[s] \in {"idle", "authorized", "captured"} => sent[s] = <<>> /\ ~missed[s]
    /\ stage[s] = "open" /\ ~missed[s] => IsEnd(sent[s] \o chan[s], teed)

PagesJoined ==
  /\ pages \in Seq(Nat) /\ from \in 0 .. seqs /\ from = Len(pages)
  /\ \A i \in 1 .. Len(pages) : pages[i] = i - 1

FeedInv == FeedTypes /\ LoggedFirst /\ UpToDate /\ PagesJoined

\* The last few of a sequence are its end.
LEMMA LastIsEnd ==
  ASSUME NEW S, NEW t \in Seq(S), NEW n \in Nat \ {0}
  PROVE  /\ Last(n, t) \in Seq(S) /\ Len(Last(n, t)) <= n
         /\ Len(Last(n, t)) = IF Len(t) > n THEN n ELSE Len(t)
         /\ IsEnd(Last(n, t), t)
<1>1. CASE Len(t) > n
  <2>1. Last(n, t) = SubSeq(t, Len(t) - n + 1, Len(t))
    BY <1>1 DEF Last
  <2>2. Last(n, t) \in Seq(S) /\ Len(Last(n, t)) = n
    BY <1>1, <2>1
  <2>3. \A i \in 1 .. n : Last(n, t)[i] = t[i + (Len(t) - n)]
    BY <1>1, <2>1
  <2> QED
    BY <1>1, <2>2, <2>3 DEF IsEnd
<1>2. CASE ~(Len(t) > n)
  <2>1. Last(n, t) = SubSeq(t, 1, Len(t))
    BY <1>2 DEF Last
  <2>2. Last(n, t) \in Seq(S) /\ Len(Last(n, t)) = Len(t)
    BY <2>1
  <2>3. \A i \in 1 .. Len(t) : Last(n, t)[i] = t[i]
    BY <2>1
  <2> QED
    BY <1>2, <2>2, <2>3 DEF IsEnd
<1> QED
  BY <1>1, <1>2

\* Of two ends of one sequence that are as long, there is one.
LEMMA EndsAreEqual ==
  ASSUME NEW S, NEW t \in Seq(S), NEW q \in Seq(S), NEW r \in Seq(S), IsEnd(q, t), IsEnd(r, t), Len(q) = Len(r)
  PROVE  q = r
<1>1. \A i \in 1 .. Len(q) : q[i] = r[i]
  BY DEF IsEnd
<1> QED
  BY <1>1

\* What is held grows at its end.
LEMMA HoldingOne ==
  ASSUME NEW S, NEW q \in Seq(S), NEW r \in Seq(S), NEW e \in S, NEW t \in Seq(S), IsEnd(Append(q \o r, e), t)
  PROVE  IsEnd(q \o Append(r, e), t)
<1>1. Append(r, e) \in Seq(S) /\ Len(Append(r, e)) = Len(r) + 1 /\ q \o r \in Seq(S) /\ Len(q \o r) = Len(q) + Len(r)
  OBVIOUS
<1>2. /\ q \o Append(r, e) \in Seq(S) /\ Append(q \o r, e) \in Seq(S)
      /\ Len(q \o Append(r, e)) = Len(q) + Len(r) + 1 /\ Len(Append(q \o r, e)) = Len(q) + Len(r) + 1
  BY <1>1
<1>3. ASSUME NEW i \in 1 .. Len(q) + Len(r) + 1 PROVE (q \o Append(r, e))[i] = Append(q \o r, e)[i]
  <2>1. CASE i <= Len(q)
    BY <1>1, <2>1
  <2>2. CASE ~(i <= Len(q)) /\ i <= Len(q) + Len(r)
    BY <1>1, <2>2
  <2>3. CASE i = Len(q) + Len(r) + 1
    BY <1>1, <2>3
  <2> QED
    BY <2>1, <2>2, <2>3
<1> DEFINE Q == q \o Append(r, e)
           R == Append(q \o r, e)
<1>4. Len(Q) \in Nat /\ Len(Q) = Len(R) /\ \A i \in 1 .. Len(Q) : Q[i] = R[i]
  BY <1>2, <1>3
<1> HIDE DEF Q, R
<1>5. IsEnd(R, t)
  BY DEF R
<1>6. IsEnd(Q, t)
  BY <1>4, <1>5 DEF IsEnd
<1> QED
  BY <1>6 DEF Q

LEMMA EndGrows ==
  ASSUME NEW S, NEW t \in Seq(S), NEW q \in Seq(S), NEW e \in S, IsEnd(q, t)
  PROVE  IsEnd(Append(q, e), Append(t, e))
<1>1. Len(Append(q, e)) = Len(q) + 1 /\ Len(Append(t, e)) = Len(t) + 1
  OBVIOUS
<1>2. ASSUME NEW i \in 1 .. Len(q) + 1 PROVE Append(q, e)[i] = Append(t, e)[i + (Len(t) - Len(q))]
  <2>1. CASE i = Len(q) + 1
    BY <2>1
  <2>2. CASE i # Len(q) + 1
    <3>1. i \in 1 .. Len(q) /\ i + (Len(t) - Len(q)) \in 1 .. Len(t)
      BY <2>2 DEF IsEnd
    <3> QED
      BY <3>1 DEF IsEnd
  <2> QED
    BY <2>1, <2>2
<1>3. Len(q) \in Nat /\ Len(t) \in Nat /\ Len(q) <= Len(t)
  BY DEF IsEnd
<1>4. Len(Append(t, e)) - Len(Append(q, e)) = Len(t) - Len(q)
  BY <1>1, <1>3
<1>5. Len(Append(q, e)) <= Len(Append(t, e))
  BY <1>1, <1>3
<1>6. \A i \in 1 .. Len(Append(q, e)) : Append(q, e)[i] = Append(t, e)[i + (Len(Append(t, e)) - Len(Append(q, e)))]
  BY <1>1, <1>2, <1>4
<1> DEFINE Q == Append(q, e)
           T == Append(t, e)
<1>7. Len(Q) <= Len(T) /\ \A i \in 1 .. Len(Q) : Q[i] = T[i + (Len(T) - Len(Q))]
  BY <1>5, <1>6
<1> HIDE DEF Q, T
<1>8. IsEnd(Q, T)
  BY <1>7 DEF IsEnd
<1> QED
  BY <1>8 DEF Q, T

LEMMA HeldGrows ==
  ASSUME NEW S, NEW t \in Seq(S), NEW q \in Seq(S), NEW r \in Seq(S), NEW e \in S, IsEnd(q \o r, t)
  PROVE  IsEnd(q \o Append(r, e), Append(t, e))
<1> DEFINE whole == q \o r
<1>1. whole \in Seq(S) /\ IsEnd(whole, t) /\ Append(t, e) \in Seq(S)
  OBVIOUS
<1> HIDE DEF whole
<1>2. IsEnd(Append(whole, e), Append(t, e))
  BY <1>1, EndGrows
<1>3. IsEnd(Append(q \o r, e), Append(t, e))
  BY <1>2 DEF whole
<1> QED
  BY <1>1, <1>3, HoldingOne

\* An end of an end is an end.
LEMMA EndOfEnd ==
  ASSUME NEW S, NEW t \in Seq(S), NEW q \in Seq(S), NEW r \in Seq(S), IsEnd(r, q), IsEnd(q, t)
  PROVE  IsEnd(r, t)
BY DEF IsEnd

\* The ring may drop what it no longer holds before or after it takes an event.
LEMMA RingIsLast ==
  ASSUME NEW S, NEW t \in Seq(S), NEW n \in Nat \ {0}, NEW e \in S
  PROVE  Last(n, Append(Last(n, t), e)) = Last(n, Append(t, e))
<1> DEFINE r == Last(n, t)
<1>1. r \in Seq(S) /\ IsEnd(r, t) /\ Len(r) = IF Len(t) > n THEN n ELSE Len(t)
  BY LastIsEnd
<1>2. Append(r, e) \in Seq(S) /\ Append(t, e) \in Seq(S) /\ Len(Append(r, e)) = Len(r) + 1 /\ Len(Append(t, e)) = Len(t) + 1
  BY <1>1
<1>3. IsEnd(Append(r, e), Append(t, e))
  BY <1>1, EndGrows
<1>4. /\ Last(n, Append(r, e)) \in Seq(S) /\ IsEnd(Last(n, Append(r, e)), Append(r, e))
      /\ Len(Last(n, Append(r, e))) = IF Len(r) + 1 > n THEN n ELSE Len(r) + 1
  BY <1>2, LastIsEnd
<1>5. /\ Last(n, Append(t, e)) \in Seq(S) /\ IsEnd(Last(n, Append(t, e)), Append(t, e))
      /\ Len(Last(n, Append(t, e))) = IF Len(t) + 1 > n THEN n ELSE Len(t) + 1
  BY <1>2, LastIsEnd
<1>6. IsEnd(Last(n, Append(r, e)), Append(t, e))
  BY <1>2, <1>3, <1>4, EndOfEnd
<1>7. Len(Last(n, Append(r, e))) = Len(Last(n, Append(t, e)))
  <2>1. Len(t) \in Nat
    OBVIOUS
  <2> QED
    BY <1>1, <1>4, <1>5, <2>1
<1> QED
  BY <1>2, <1>4, <1>5, <1>6, <1>7, EndsAreEqual

\* An end of the history is a part of it.
LEMMA EndIsPart ==
  ASSUME NEW S, NEW t \in Seq(S), NEW q \in Seq(S), IsEnd(q, t)
  PROVE  IsPartOf(q, t)
<1> DEFINE i == Len(t) - Len(q)
<1>1. i \in 0 .. Len(t) /\ i + Len(q) = Len(t)
  BY DEF IsEnd
<1>2. q = SubSeq(t, i + 1, i + Len(q))
  <2>1. Len(SubSeq(t, i + 1, i + Len(q))) = Len(q) /\ SubSeq(t, i + 1, i + Len(q)) \in Seq(S)
    BY <1>1
  <2>2. \A j \in 1 .. Len(q) : SubSeq(t, i + 1, i + Len(q))[j] = q[j]
    BY <1>1 DEF IsEnd
  <2> QED
    BY <2>1, <2>2
<1>3. i + Len(q) <= Len(t)
  BY <1>1
<1> HIDE DEF i
<1> QED
  BY <1>1, <1>2, <1>3 DEF IsPartOf

\* What is sent is what was held.
LEMMA MovingOne ==
  ASSUME NEW S, NEW q \in Seq(S), NEW r \in Seq(S), r # <<>>
  PROVE  /\ Append(q, Head(r)) \o Tail(r) = q \o r
         /\ Append(q, Head(r)) \in Seq(S) /\ Tail(r) \in Seq(S) /\ Len(Tail(r)) = Len(r) - 1
<1>1. /\ Append(q, Head(r)) \in Seq(S) /\ Tail(r) \in Seq(S) /\ Len(Tail(r)) = Len(r) - 1
  OBVIOUS
<1>2. Len(Append(q, Head(r)) \o Tail(r)) = Len(q \o r)
  BY <1>1
<1>3. \A i \in 1 .. Len(q \o r) : (Append(q, Head(r)) \o Tail(r))[i] = (q \o r)[i]
  BY <1>1
<1> QED
  BY <1>1, <1>2, <1>3

LEMMA FeedTypesStep == FeedTypes /\ UpToDate /\ [FeedNext]_feedVars => FeedTypes'
<1> SUFFICES ASSUME FeedTypes, UpToDate, [FeedNext]_feedVars PROVE FeedTypes'
  OBVIOUS
<1> USE FeedAssumption DEF busVars, streamVars, pageVars
<1>1. generation \in Nat
  BY DEF FeedTypes
<1>2. ASSUME NEW p \in Publishers, AppendPolled(p) PROVE FeedTypes'
  BY <1>2 DEF AppendPolled, FeedTypes
<1>3. ASSUME NEW p \in Publishers, Tee(p) PROVE FeedTypes'
  <2>1. CASE ~busOpen
    BY <1>3, <2>1 DEF Tee, FeedTypes
  <2>2. CASE busOpen
    <3>1. teed' = Append(teed, p) /\ ring' = Last(FeedBuffer, Append(ring, p)) /\ FanOut(p)
      BY <1>3, <2>2 DEF Tee
    <3>2. ring' = Last(FeedBuffer, teed') /\ teed' \in Seq(Publishers)
      BY <3>1, RingIsLast DEF FeedTypes
    <3>3. /\ chan' \in [Streams -> Seq(Publishers)] /\ \A s \in Streams : Len(chan'[s]) <= FeedBuffer
          /\ missed' \in [Streams -> BOOLEAN]
      BY <3>1 DEF FanOut, FeedTypes
    <3> QED
      BY <1>3, <3>2, <3>3 DEF Tee, FeedTypes
  <2> QED
    BY <2>1, <2>2
<1>4. ASSUME NEW s \in Streams, Authorized(s) \/ Changed(s) PROVE FeedTypes'
  BY <1>1, <1>4 DEF Authorized, Changed, FeedTypes
<1>5. ASSUME NEW s \in Streams, Subscribe(s) PROVE FeedTypes'
  <2>1. ring \in Seq(Publishers) /\ Len(ring) <= FeedBuffer
    BY LastIsEnd DEF FeedTypes
  <2> QED
    BY <1>5, <2>1 DEF Subscribe, FeedTypes
<1>6. ASSUME NEW s \in Streams, WriteEvent(s) PROVE FeedTypes'
  <2>1. /\ chan[s] \in Seq(Publishers) /\ sent[s] \in Seq(Publishers) /\ chan[s] # <<>>
        /\ Len(chan[s]) <= FeedBuffer
    BY <1>6 DEF WriteEvent, FeedTypes
  <2>2. /\ Append(sent[s], Head(chan[s])) \in Seq(Publishers) /\ Tail(chan[s]) \in Seq(Publishers)
        /\ Len(Tail(chan[s])) <= FeedBuffer
    BY <2>1
  <2> QED
    BY <1>6, <2>2 DEF WriteEvent, FeedTypes
<1>7. ASSUME NEW s \in Streams, StreamEnds(s) \/ ClientLeaves(s) PROVE FeedTypes'
  <2>1. /\ stage' = [stage EXCEPT ![s] = "ended"] /\ chan' = [chan EXCEPT ![s] = <<>>]
        /\ UNCHANGED <<busVars, used, watched, sent, missed, generation, seqs>>
    BY <1>7 DEF StreamEnds, ClientLeaves
  <2>2. chan' \in [Streams -> Seq(Publishers)] /\ \A x \in Streams : Len(chan'[x]) <= FeedBuffer
    BY <2>1 DEF FeedTypes
  <2> QED
    BY <2>1, <2>2 DEF FeedTypes
<1>8. CASE CloseBusFeed
  BY <1>8 DEF CloseBusFeed, FeedTypes
<1>9. CASE Rotate
  BY <1>9 DEF Rotate, FeedTypes
<1>10. CASE AppendSession
  BY <1>10 DEF AppendSession, FeedTypes
<1>11. ASSUME NEW limit \in 1 .. PageLimit, handleSessionEvents(limit) PROVE FeedTypes'
  BY <1>11 DEF handleSessionEvents, FeedTypes
<1>12. CASE UNCHANGED feedVars
  BY <1>12 DEF feedVars, FeedTypes
<1> QED
  BY <1>2, <1>3, <1>4, <1>5, <1>6, <1>7, <1>8, <1>9, <1>10, <1>11, <1>12 DEF FeedNext, BusNext, PageNext

LEMMA EventsOfLast ==
  ASSUME NEW S, NEW q \in Seq(S), NEW n \in Nat \ {0}
  PROVE  Of(Last(n, q)) \subseteq Of(q)
<1> DEFINE r == Last(n, q)
<1>1. r \in Seq(S) /\ IsEnd(r, q)
  BY LastIsEnd
<1> HIDE DEF r
<1>2. \A i \in 1 .. Len(r) : i + (Len(q) - Len(r)) \in 1 .. Len(q) /\ r[i] = q[i + (Len(q) - Len(r))]
  BY <1>1 DEF IsEnd
<1>3. Of(r) \subseteq Of(q)
  BY <1>2 DEF Of
<1> QED
  BY <1>3 DEF r

\* The events of a sequence that grows, shrinks, or is cut.
LEMMA EventsOf ==
  ASSUME NEW S, NEW q \in Seq(S), NEW e \in S
  PROVE  /\ Of(Append(q, e)) = Of(q) \cup {e}
         /\ q # <<>> => Head(q) \in Of(q) /\ Of(Tail(q)) \subseteq Of(q)
         /\ Of(<<>>) = {}
<1>1. Of(Append(q, e)) = Of(q) \cup {e}
  <2>1. Len(Append(q, e)) = Len(q) + 1 /\ Append(q, e)[Len(q) + 1] = e /\ \A i \in 1 .. Len(q) : Append(q, e)[i] = q[i]
    OBVIOUS
  <2>2. 1 .. Len(q) + 1 = (1 .. Len(q)) \cup {Len(q) + 1}
    OBVIOUS
  <2> QED
    BY <2>1, <2>2 DEF Of
<1>2. q # <<>> => Head(q) \in Of(q) /\ Of(Tail(q)) \subseteq Of(q)
  BY DEF Of
<1>3. Of(<<>>) = {}
  BY DEF Of
<1> QED
  BY <1>1, <1>2, <1>3

\* The bridge logs first: whatever reaches the bus is in its log, which only
\* grows.
LEMMA LoggedFirstStep == FeedTypes /\ LoggedFirst /\ [FeedNext]_feedVars => LoggedFirst'
<1> SUFFICES ASSUME FeedTypes, LoggedFirst, [FeedNext]_feedVars PROVE LoggedFirst'
  OBVIOUS
<1> USE FeedAssumption DEF busVars, streamVars, pageVars
<1>1. polled \in Seq(Publishers) /\ teed \in Seq(Publishers)
  BY DEF FeedTypes
<1>2. ASSUME NEW p \in Publishers, AppendPolled(p) PROVE LoggedFirst'
  <2>1. Of(polled') = Of(polled) \cup {p}
    BY <1>1, <1>2, EventsOf DEF AppendPolled
  <2> QED
    BY <1>2, <2>1 DEF AppendPolled, LoggedFirst, FeedTypes
<1>3. ASSUME NEW p \in Publishers, Tee(p) PROVE LoggedFirst'
  <2>1. p \in Of(polled) /\ UNCHANGED <<polled, sent>> /\ \A x \in Publishers : pub'[x] # "idle" => x = p \/ pub[x] # "idle"
    BY <1>3 DEF Tee, LoggedFirst, FeedTypes
  <2>2. CASE ~busOpen
    BY <1>3, <2>1, <2>2 DEF Tee, LoggedFirst
  <2>3. CASE busOpen
    <3>1. teed' = Append(teed, p) /\ FanOut(p)
      BY <1>3, <2>3 DEF Tee
    <3>2. Of(teed') \subseteq Of(polled)
      BY <1>1, <2>1, <3>1, EventsOf DEF LoggedFirst
    <3>3. ASSUME NEW s \in Streams PROVE Of(chan'[s]) \subseteq Of(polled)
      <4>1. chan[s] \in Seq(Publishers) /\ Of(chan[s]) \subseteq Of(polled)
        BY DEF FeedTypes, LoggedFirst
      <4>2. chan'[s] = chan[s] \/ chan'[s] = Append(chan[s], p)
        BY <3>1 DEF FanOut
      <4>3. Of(Append(chan[s], p)) = Of(chan[s]) \cup {p}
        BY <4>1, EventsOf
      <4>4. Of(Append(chan[s], p)) \subseteq Of(polled)
        BY <2>1, <4>1, <4>3
      <4> QED
        BY <4>1, <4>2, <4>4
    <3> QED
      BY <2>1, <3>2, <3>3 DEF LoggedFirst
  <2> QED
    BY <2>2, <2>3
<1>4. ASSUME NEW s \in Streams, Subscribe(s) PROVE LoggedFirst'
  <2>1. Of(ring) \subseteq Of(teed)
    BY <1>1, EventsOfLast DEF FeedTypes
  <2> QED
    BY <1>4, <2>1 DEF Subscribe, LoggedFirst, FeedTypes
<1>5. ASSUME NEW s \in Streams, WriteEvent(s) PROVE LoggedFirst'
  <2>1. /\ chan[s] \in Seq(Publishers) /\ sent[s] \in Seq(Publishers) /\ chan[s] # <<>>
        /\ Of(chan[s]) \subseteq Of(polled) /\ Of(sent[s]) \subseteq Of(polled)
    BY <1>5 DEF WriteEvent, FeedTypes, LoggedFirst
  <2>2. Head(chan[s]) \in Publishers /\ Of(Append(sent[s], Head(chan[s]))) \subseteq Of(polled)
    BY <2>1, EventsOf
  <2>3. Of(Tail(chan[s])) \subseteq Of(polled)
    BY <2>1, <2>2, EventsOf
  <2> QED
    BY <1>5, <2>2, <2>3 DEF WriteEvent, LoggedFirst, FeedTypes
<1>6. ASSUME NEW s \in Streams, StreamEnds(s) \/ ClientLeaves(s) PROVE LoggedFirst'
  <2>1. chan' = [chan EXCEPT ![s] = <<>>] /\ UNCHANGED <<polled, pub, teed, sent>>
    BY <1>6 DEF StreamEnds, ClientLeaves
  <2>2. Of(<<>>) = {}
    BY DEF Of
  <2> QED
    BY <2>1, <2>2 DEF LoggedFirst, FeedTypes
<1>7. CASE UNCHANGED <<polled, pub, teed, chan, sent>>
  BY <1>7 DEF LoggedFirst
<1> QED
  BY <1>2, <1>3, <1>4, <1>5, <1>6, <1>7 DEF FeedNext, BusNext, PageNext, Authorized, Changed, CloseBusFeed, Rotate,
     AppendSession, handleSessionEvents, feedVars

\* The replay and what follows it join up: both are taken under one hold of the
\* bus's lock.
LEMMA UpToDateStep == FeedTypes /\ UpToDate /\ [FeedNext]_feedVars => UpToDate'
<1> SUFFICES ASSUME FeedTypes, UpToDate, [FeedNext]_feedVars PROVE UpToDate'
  OBVIOUS
<1> USE FeedAssumption DEF busVars, streamVars, pageVars
<1>1. teed \in Seq(Publishers)
  BY DEF FeedTypes
<1>2. ASSUME NEW p \in Publishers, Tee(p) PROVE UpToDate'
  <2>1. CASE ~busOpen
    BY <1>2, <2>1 DEF Tee, UpToDate
  <2>2. CASE busOpen
    <3>1. teed' = Append(teed, p) /\ FanOut(p) /\ UNCHANGED <<stage, sent>>
      BY <1>2, <2>2 DEF Tee
    <3>2. ASSUME NEW s \in Streams, stage[s] \in {"idle", "authorized", "captured"} PROVE sent'[s] = <<>> /\ ~missed'[s]
      BY <3>1, <3>2 DEF FanOut, UpToDate
    <3>3. ASSUME NEW s \in Streams, stage[s] = "open", ~missed'[s] PROVE IsEnd(sent'[s] \o chan'[s], teed')
      <4>1. /\ chan[s] \in Seq(Publishers) /\ sent[s] \in Seq(Publishers) /\ sent[s] \o chan[s] \in Seq(Publishers)
            /\ Len(chan[s]) \in Nat
        BY DEF FeedTypes
      <4>2. ~missed[s] /\ ~(Len(chan[s]) >= FeedBuffer)
        BY <3>1, <3>3 DEF FanOut
      <4>3. chan'[s] = Append(chan[s], p)
        BY <3>1, <3>3, <4>1, <4>2 DEF FanOut
      <4>4. IsEnd(sent[s] \o chan[s], teed)
        BY <3>1, <3>3, <4>2 DEF UpToDate
      <4> QED
        BY <1>1, <3>1, <4>1, <4>3, <4>4, HeldGrows
    <3> QED
      BY <3>1, <3>2, <3>3 DEF UpToDate
  <2> QED
    BY <2>1, <2>2
<1>3. ASSUME NEW s \in Streams, Authorized(s) \/ Changed(s) PROVE UpToDate'
  BY <1>3 DEF Authorized, Changed, UpToDate, FeedTypes
<1>4. ASSUME NEW s \in Streams, Subscribe(s) PROVE UpToDate'
  <2>1. stage[s] = "captured" /\ sent[s] = <<>> /\ UNCHANGED <<teed, sent, missed>>
    BY <1>4 DEF Subscribe, UpToDate
  <2>2. CASE busOpen
    <3>1. stage' = [stage EXCEPT ![s] = "open"] /\ chan' = [chan EXCEPT ![s] = ring]
      BY <1>4, <2>2 DEF Subscribe
    <3>2. ring \in Seq(Publishers) /\ IsEnd(ring, teed)
      BY <1>1, LastIsEnd DEF FeedTypes
    <3>3. <<>> \o ring = ring
      BY <3>2
    <3> QED
      BY <2>1, <3>1, <3>2, <3>3 DEF UpToDate, FeedTypes
  <2>3. CASE ~busOpen
    BY <1>4, <2>1, <2>3 DEF Subscribe, UpToDate, FeedTypes
  <2> QED
    BY <2>2, <2>3
<1>5. ASSUME NEW s \in Streams, WriteEvent(s) PROVE UpToDate'
  <2>1. /\ chan[s] \in Seq(Publishers) /\ sent[s] \in Seq(Publishers) /\ chan[s] # <<>> /\ stage[s] = "open"
        /\ UNCHANGED <<teed, stage, missed>>
        /\ sent' = [sent EXCEPT ![s] = Append(@, Head(chan[s]))] /\ chan' = [chan EXCEPT ![s] = Tail(@)]
    BY <1>5 DEF WriteEvent, FeedTypes
  <2>2. sent'[s] \o chan'[s] = sent[s] \o chan[s]
    <3>1. sent'[s] = Append(sent[s], Head(chan[s])) /\ chan'[s] = Tail(chan[s])
      BY <2>1 DEF FeedTypes
    <3>2. Append(sent[s], Head(chan[s])) \o Tail(chan[s]) = sent[s] \o chan[s]
      BY <2>1, MovingOne
    <3> QED
      BY <3>1, <3>2
  <2>3. \A x \in Streams : x # s => sent'[x] = sent[x] /\ chan'[x] = chan[x]
    BY <2>1 DEF FeedTypes
  <2> QED
    BY <2>1, <2>2, <2>3 DEF UpToDate
<1>6. ASSUME NEW s \in Streams, StreamEnds(s) \/ ClientLeaves(s) PROVE UpToDate'
  <2>1. /\ chan' = [chan EXCEPT ![s] = <<>>] /\ stage' = [stage EXCEPT ![s] = "ended"] /\ stage[s] = "open"
        /\ UNCHANGED <<teed, sent, missed>>
    BY <1>6 DEF StreamEnds, ClientLeaves
  <2> QED
    BY <2>1 DEF UpToDate, FeedTypes
<1>7. CASE UNCHANGED <<teed, stage, sent, missed, chan>>
  BY <1>7 DEF UpToDate
<1> QED
  BY <1>2, <1>3, <1>4, <1>5, <1>6, <1>7 DEF FeedNext, BusNext, PageNext, AppendPolled, CloseBusFeed, Rotate,
     AppendSession, handleSessionEvents, feedVars

\* A page goes on where the one before ended, however much was asked for.
LEMMA PagesJoinedStep == FeedTypes /\ PagesJoined /\ [FeedNext]_feedVars => PagesJoined'
<1> SUFFICES ASSUME FeedTypes, PagesJoined, [FeedNext]_feedVars PROVE PagesJoined'
  OBVIOUS
<1> USE FeedAssumption DEF busVars, streamVars, pageVars
<1>1. seqs \in Nat /\ from \in Nat /\ from <= seqs
  BY DEF FeedTypes, PagesJoined
<1>2. CASE AppendSession
  BY <1>1, <1>2 DEF AppendSession, PagesJoined
<1>3. ASSUME NEW limit \in 1 .. PageLimit, handleSessionEvents(limit) PROVE PagesJoined'
  <2> DEFINE n == IF seqs - from < limit + 1 THEN seqs - from ELSE limit + 1
             m == IF n > limit THEN limit ELSE n
             batch == ReadFrom(from, limit + 1)
             page == SubSeq(batch, 1, IF Len(batch) > limit THEN limit ELSE Len(batch))
  <2>1. n \in Nat /\ m \in 0 .. n /\ m <= seqs - from
    BY <1>1
  <2>2. batch \in Seq(Nat) /\ Len(batch) = n /\ \A i \in 1 .. n : batch[i] = from + i - 1
    BY <1>1, <2>1 DEF ReadFrom
  <2>3. page \in Seq(Nat) /\ Len(page) = m /\ \A i \in 1 .. m : page[i] = from + i - 1
    BY <2>1, <2>2
  <2>4. pages' = pages \o page /\ from' = (IF page = <<>> THEN from ELSE page[Len(page)] + 1) /\ seqs' = seqs
    BY <1>3 DEF handleSessionEvents
  <2> HIDE DEF n, m, batch, page
  <2>5. from' = from + m
    <3>1. CASE m = 0
      BY <1>1, <2>3, <2>4, <3>1
    <3>2. CASE m # 0
      <4>1. page # <<>> /\ page[m] = from + m - 1
        BY <2>1, <2>3, <3>2
      <4> QED
        BY <1>1, <2>1, <2>3, <2>4, <4>1
    <3> QED
      BY <3>1, <3>2
  <2>6. pages' \in Seq(Nat) /\ Len(pages') = Len(pages) + m
    <3>1. pages \in Seq(Nat) /\ page \in Seq(Nat)
      BY <2>3 DEF PagesJoined
    <3>2. pages \o page \in Seq(Nat) /\ Len(pages \o page) = Len(pages) + Len(page)
      BY <3>1
    <3> QED
      BY <2>3, <2>4, <3>2
  <2>7. ASSUME NEW i \in 1 .. Len(pages) + m PROVE pages'[i] = i - 1
    <3>1. CASE i <= Len(pages)
      BY <2>1, <2>3, <2>4, <3>1 DEF PagesJoined
    <3>2. CASE ~(i <= Len(pages))
      <4>1. Len(pages) \in Nat /\ i - Len(pages) \in 1 .. m
        BY <2>1, <3>2 DEF PagesJoined
      <4>2. pages'[i] = page[i - Len(pages)]
        BY <2>1, <2>3, <2>4, <3>2, <4>1 DEF PagesJoined
      <4> QED
        BY <2>3, <4>1, <4>2 DEF PagesJoined
    <3> QED
      BY <3>1, <3>2
  <2> QED
    BY <1>1, <2>1, <2>4, <2>5, <2>6, <2>7 DEF PagesJoined
<1>4. CASE UNCHANGED pageVars
  BY <1>4 DEF PagesJoined
<1> QED
  BY <1>2, <1>3, <1>4 DEF FeedNext, BusNext, PageNext, AppendPolled, Tee, Authorized, Changed, Subscribe, WriteEvent,
     StreamEnds, ClientLeaves, CloseBusFeed, Rotate, feedVars

LEMMA FeedInitInv == FeedInit => FeedInv
<1> SUFFICES ASSUME FeedInit PROVE FeedInv
  OBVIOUS
<1> USE FeedAssumption
<1>1. Of(<<>>) = {} /\ Last(FeedBuffer, <<>>) = <<>>
  BY DEF Of, Last
<1>2. FeedTypes
  BY <1>1 DEF FeedInit, FeedTypes
<1>3. LoggedFirst /\ UpToDate /\ PagesJoined
  BY <1>1 DEF FeedInit, LoggedFirst, UpToDate, PagesJoined
<1> QED
  BY <1>2, <1>3 DEF FeedInv

LEMMA FeedInvImplies == FeedInv => FeedTypeOK /\ AnnouncedIsPolled /\ NoHole /\ PagesJoin
<1> SUFFICES ASSUME FeedInv PROVE FeedTypeOK /\ AnnouncedIsPolled /\ NoHole /\ PagesJoin
  OBVIOUS
<1>1. FeedTypeOK
  BY DEF FeedInv, FeedTypes, FeedTypeOK
<1>2. AnnouncedIsPolled
  BY DEF FeedInv, LoggedFirst, Of, AnnouncedIsPolled
<1>3. NoHole
  <2> SUFFICES ASSUME NEW s \in Streams, stage[s] = "open", ~missed[s] PROVE IsPartOf(sent[s] \o chan[s], teed)
    BY DEF NoHole
  <2>1. teed \in Seq(Publishers) /\ sent[s] \in Seq(Publishers) /\ chan[s] \in Seq(Publishers)
    BY DEF FeedInv, FeedTypes
  <2>2. sent[s] \o chan[s] \in Seq(Publishers) /\ IsEnd(sent[s] \o chan[s], teed)
    BY <2>1 DEF FeedInv, UpToDate
  <2> QED
    BY <2>1, <2>2, EndIsPart
<1>4. PagesJoin
  BY DEF FeedInv, PagesJoined, PagesJoin
<1> QED
  BY <1>1, <1>2, <1>3, <1>4

(* The feed is safe: for any streams, publishers, buffers and limits, what is  *)
(* announced can be polled, a stream that kept up has a piece of the history   *)
(* without a hole, and the pages of a growing log give every event once.       *)
THEOREM FeedIsSafe == FeedSpec => FeedSafe
<1>1. FeedInit => FeedInv
  BY FeedInitInv
<1>2. FeedInv /\ [FeedNext]_feedVars => FeedInv'
  BY FeedTypesStep, LoggedFirstStep, UpToDateStep, PagesJoinedStep DEF FeedInv
<1>3. FeedInv => FeedTypeOK /\ AnnouncedIsPolled /\ NoHole /\ PagesJoin
  BY FeedInvImplies
<1> QED
  BY <1>1, <1>2, <1>3, PTL DEF FeedSpec, FeedSafe

-----------------------------------------------------------------------------
(* Delegation. An execution's place tells which tokens it holds and what its  *)
(* row says, so a change that finds no token finds nobody at work.            *)

InRun == {"entered", "looping", "closing", "ending"}
InWork == InRun \cup {"dispatched", "spawned", "publishing", "leaving"}
After == {"ending", "publishing", "leaving", "returned"}

TokensOf(l) ==
  /\ (<<l, "run">> \in held) = (place[l] \in InRun)
  /\ (<<l, "work">> \in held) = (KindOf[l] = "background" /\ place[l] \in InWork)
  /\ place[l] \in InWork \ InRun => KindOf[l] = "background"

\* What the row says and the caller is told, place by place.
RowOf(l) ==
  /\ place[l] \in {"idle", "dispatched"} => row[l] = "absent" /\ told[l] = "nothing"
  /\ place[l] = "spawned" => row[l] = "running" /\ told[l] = "nothing"
  /\ place[l] = "entered" => row[l] = (IF KindOf[l] = "background" THEN "running" ELSE "absent") /\ told[l] = "nothing"
  /\ place[l] = "looping" => row[l] = "running" /\ told[l] = "nothing"
  /\ place[l] = "closing" => row[l] \in {"running", "completed"} /\ told[l] \in {"failed", "suspended"}
  /\ place[l] \in After =>
       /\ told[l] # "nothing" /\ (told[l] = "refused" => row[l] = "absent")
       /\ told[l] = "completed" => row[l] = "completed"
       /\ told[l] \in EndedStatus /\ l \notin unwritten /\ row[l] # "absent" => row[l] = told[l]
  /\ l \in unwritten => place[l] \in After \cup {"dead"}

TokensByPlace == \A l \in Legs : TokensOf(l)
RowByPlace == \A l \in Legs : RowOf(l)
DownIsIdle == ~up => \A l \in Legs : ~Working(l)

DelegationInv ==
  DelegationTypeOK /\ TokensByPlace /\ DownIsIdle /\ RowByPlace /\ InterruptedIsDead /\ OneCatalog

\* Who works holds a token, and a token is held by somebody at work.
LEMMA WorkersHoldTokens ==
  ASSUME DelegationTypeOK, TokensByPlace
  PROVE  /\ \A l \in Legs : Working(l) => place[l] \in InRun \cup InWork
         /\ held = {} => \A l \in Legs : ~Working(l)
         /\ NoTokenLeft
<1>1. \A l \in Legs : Working(l) => place[l] \in InRun \cup InWork
  BY DEF DelegationTypeOK, Places, Working, InRun, InWork
<1>2. ASSUME NEW l \in Legs, Working(l) PROVE held # {}
  BY <1>1, <1>2 DEF TokensByPlace, TokensOf, InWork
<1>3. NoTokenLeft
  <2> SUFFICES ASSUME NEW t \in held PROVE Working(t[1])
    BY DEF NoTokenLeft
  <2>1. PICK l \in Legs, k \in {"run", "work"} : t = <<l, k>>
    BY DEF DelegationTypeOK
  <2>2. place[l] \in InRun \cup InWork
    BY <2>1 DEF TokensByPlace, TokensOf
  <2> QED
    BY <2>1, <2>2 DEF Working, InRun, InWork
<1> QED
  BY <1>1, <1>2, <1>3

LEMMA DelegationInitInv == DelegationInit => DelegationInv
<1> SUFFICES ASSUME DelegationInit PROVE DelegationInv
  OBVIOUS
<1>1. inbox \in [Mail -> Messages]
  BY DEF DelegationInit, NoMessage, Messages
<1>2. row \in [Legs -> RowStatus] /\ place \in [Legs -> Places] /\ seen \in [Legs -> Nat]
  BY DEF DelegationInit, RowsInit, RowStatus, Places
<1>3. told \in [Legs -> {"nothing", "refused"} \cup EndedStatus] /\ events \in Seq(Background)
  BY DEF DelegationInit
<1>4. DelegationTypeOK
  BY <1>1, <1>2, <1>3 DEF DelegationInit, DelegationTypeOK
<1> QED
  BY <1>4 DEF DelegationInit, RowsInit, DelegationInv, TokensByPlace, TokensOf, RowOf, DownIsIdle, RowByPlace, InterruptedIsDead,
     OneCatalog, Working, InRun, InWork, After

\* What a step of one execution may write.
LegWrites(l) ==
  /\ UNCHANGED <<up, version, applyPending, inbox, surfaced, crashes>>
  /\ \E p \in Places : place' = [place EXCEPT ![l] = p]
  /\ row' = row \/ \E r \in RowStatus : row' = [row EXCEPT ![l] = r]
  /\ told' = told \/ \E t \in {"refused"} \cup EndedStatus : told' = [told EXCEPT ![l] = t]
  /\ seen' = seen \/ seen' = [seen EXCEPT ![l] = version]
  /\ held' = held \/ \E k \in {"run", "work"} : held' = held \cup {<<l, k>>} \/ held' = held \ {<<l, k>>}
  /\ unwritten' = unwritten \/ unwritten' = unwritten \cup {l}
  /\ UNCHANGED <<events, lost>> \/ (KindOf[l] = "background" /\ events' = Append(events, l) /\ UNCHANGED lost)
       \/ (KindOf[l] = "background" /\ lost' = lost \cup {l} /\ UNCHANGED events)

LEMMA LegSteps ==
  ASSUME NEW l \in Legs, TokensByPlace, Step(l)
  PROVE  LegWrites(l)
<1> USE DEF tokenVars, mailVars, legVars, Goto, Tell, Places, RowStatus, EndedStatus, StartTaskRun, FinishTaskRun, LegWrites
<1>1. CASE Admit(l)
  BY <1>1 DEF Admit
<1>2. CASE StartInBatch(l)
  BY <1>2 DEF StartInBatch
<1>3. CASE Dispatch(l)
  BY <1>3 DEF Dispatch
<1>4. CASE OpenAhead(l)
  BY <1>4 DEF OpenAhead
<1>5. CASE EnterChild(l)
  BY <1>5 DEF EnterChild
<1>6. CASE Open(l)
  BY <1>6 DEF Open
<1>7. CASE Complete(l)
  BY <1>7 DEF Complete
<1>8. CASE Break(l)
  BY <1>8 DEF Break
<1>9. CASE Close(l)
  BY <1>9 DEF Close
<1>10. CASE End(l)
  BY <1>10 DEF End
<1>11. CASE Publish(l)
  BY <1>11 DEF Publish, TokensByPlace, TokensOf, InWork, InRun
<1>12. CASE Leave(l)
  BY <1>12 DEF Leave
<1> QED
  BY <1>1, <1>2, <1>3, <1>4, <1>5, <1>6, <1>7, <1>8, <1>9, <1>10, <1>11, <1>12 DEF Step

LEMMA LegTypes ==
  ASSUME DelegationTypeOK, NEW l \in Legs, LegWrites(l)
  PROVE  DelegationTypeOK'
<1> USE DEF LegWrites, DelegationTypeOK
<1>1. place' \in [Legs -> Places]
  OBVIOUS
<1>2. row' \in [Legs -> RowStatus]
  OBVIOUS
<1>3. told' \in [Legs -> {"nothing", "refused"} \cup EndedStatus]
  OBVIOUS
<1>4. seen' \in [Legs -> Nat]
  OBVIOUS
<1>5. held' \subseteq Legs \X {"run", "work"}
  OBVIOUS
<1>6. unwritten' \subseteq Legs
  OBVIOUS
<1>7. events' \in Seq(Background) /\ lost' \subseteq Background
  <2>1. CASE UNCHANGED <<events, lost>>
    BY <2>1
  <2>2. CASE KindOf[l] = "background" /\ events' = Append(events, l) /\ UNCHANGED lost
    <3>1. l \in Background
      BY <2>2 DEF Background
    <3> QED
      BY <2>2, <3>1
  <2>3. CASE KindOf[l] = "background" /\ lost' = lost \cup {l} /\ UNCHANGED events
    BY <2>3 DEF Background
  <2> QED
    BY <2>1, <2>2, <2>3
<1>8. inbox' = inbox /\ surfaced' = surfaced /\ UNCHANGED <<up, version, applyPending, crashes>>
  OBVIOUS
<1> QED
  BY <1>1, <1>2, <1>3, <1>4, <1>5, <1>6, <1>7, <1>8

\* The others' places, rows, tokens and news stay as they are.
LEMMA OthersStay ==
  ASSUME DelegationTypeOK, NEW l \in Legs, LegWrites(l), NEW x \in Legs, x # l
  PROVE  /\ row'[x] = row[x] /\ place'[x] = place[x] /\ told'[x] = told[x] /\ seen'[x] = seen[x]
         /\ (x \in unwritten') = (x \in unwritten)
         /\ \A k \in {"run", "work"} : (<<x, k>> \in held') = (<<x, k>> \in held)
<1> USE DEF LegWrites, DelegationTypeOK
<1>1. place'[x] = place[x]
  OBVIOUS
<1>2. row'[x] = row[x]
  OBVIOUS
<1>3. told'[x] = told[x]
  OBVIOUS
<1>4. seen'[x] = seen[x]
  OBVIOUS
<1>5. (x \in unwritten') = (x \in unwritten)
  OBVIOUS
<1>6. \A k \in {"run", "work"} : (<<x, k>> \in held') = (<<x, k>> \in held)
  OBVIOUS
<1> QED
  BY <1>1, <1>2, <1>3, <1>4, <1>5, <1>6

\* Who steps is at work, or is about to be while the process serves.
LEMMA StepsWhileUp ==
  ASSUME DelegationTypeOK, DownIsIdle, NEW l \in Legs, Step(l)
  PROVE  up /\ place[l] \notin {"returned", "dead"}
<1> USE DelegationAssumption
<1>1. CASE Admit(l)
  BY <1>1 DEF Admit
<1>2. CASE StartInBatch(l) \/ Dispatch(l)
  <2>1. ParentOf[l] \in Legs /\ Working(ParentOf[l]) /\ place[l] = "idle"
    BY <1>2 DEF StartInBatch, Dispatch, Working
  <2> QED
    BY <2>1 DEF DownIsIdle
<1>3. CASE ~Admit(l) /\ ~StartInBatch(l) /\ ~Dispatch(l)
  <2>1. Working(l) /\ place[l] \notin {"returned", "dead"}
    BY <1>3 DEF Step, OpenAhead, EnterChild, Open, Complete, Break, Close, End, Publish, Leave, Working
  <2> QED
    BY <2>1 DEF DownIsIdle
<1> QED
  BY <1>1, <1>2, <1>3

\* The one that steps: its tokens, its row, its catalog.
LEMMA OwnTokens ==
  ASSUME DelegationTypeOK, TokensByPlace, NEW l \in Legs, Step(l)
  PROVE  TokensOf(l)'
<1> USE DelegationAssumption DEF DelegationTypeOK, Goto, tokenVars, mailVars, TokensOf, InWork, InRun, Kinds
<1>0. TokensOf(l)
  BY DEF TokensByPlace
<1>1. CASE Admit(l)
  BY <1>0, <1>1 DEF Admit
<1>2. CASE StartInBatch(l)
  BY <1>0, <1>2 DEF StartInBatch
<1>3. CASE Dispatch(l)
  BY <1>0, <1>3 DEF Dispatch
<1>4. CASE OpenAhead(l)
  BY <1>0, <1>4 DEF OpenAhead
<1>5. CASE EnterChild(l)
  BY <1>0, <1>5 DEF EnterChild
<1>6. CASE Open(l)
  BY <1>0, <1>6 DEF Open
<1>7. CASE Complete(l)
  BY <1>0, <1>7 DEF Complete
<1>8. CASE Break(l)
  BY <1>0, <1>8 DEF Break
<1>9. CASE Close(l)
  BY <1>0, <1>9 DEF Close
<1>10. CASE End(l)
  BY <1>0, <1>10 DEF End
<1>11. CASE Publish(l)
  BY <1>0, <1>11 DEF Publish
<1>12. CASE Leave(l)
  BY <1>0, <1>12 DEF Leave
<1> QED
  BY <1>1, <1>2, <1>3, <1>4, <1>5, <1>6, <1>7, <1>8, <1>9, <1>10, <1>11, <1>12 DEF Step

LEMMA OwnRow ==
  ASSUME DelegationTypeOK, TokensByPlace, RowByPlace, NEW l \in Legs, Step(l)
  PROVE  RowOf(l)' /\ (row'[l] = "interrupted" => row[l] = "interrupted")
<1> USE DEF DelegationTypeOK, Goto, Tell, RowOf, After, StartTaskRun, FinishTaskRun, EndedStatus
<1>0. RowOf(l) /\ (place[l] \in InWork \ InRun => KindOf[l] = "background")
  BY DEF RowByPlace, TokensByPlace, TokensOf
<1>1. CASE Admit(l)
  BY <1>0, <1>1 DEF Admit
<1>2. CASE StartInBatch(l)
  BY <1>0, <1>2 DEF StartInBatch
<1>3. CASE Dispatch(l)
  BY <1>0, <1>3 DEF Dispatch
<1>4. CASE OpenAhead(l)
  BY <1>0, <1>4 DEF OpenAhead
<1>5. CASE EnterChild(l)
  BY <1>0, <1>5 DEF EnterChild, InWork, InRun
<1>6. CASE Open(l)
  BY <1>0, <1>6 DEF Open
<1>7. CASE Complete(l)
  BY <1>0, <1>7 DEF Complete
<1>8. CASE Break(l)
  BY <1>0, <1>8 DEF Break
<1>9. CASE Close(l)
  BY <1>0, <1>9 DEF Close
<1>10. CASE End(l)
  BY <1>0, <1>10 DEF End
<1>11. CASE Publish(l)
  BY <1>0, <1>11 DEF Publish
<1>12. CASE Leave(l)
  BY <1>0, <1>12 DEF Leave
<1> QED
  BY <1>1, <1>2, <1>3, <1>4, <1>5, <1>6, <1>7, <1>8, <1>9, <1>10, <1>11, <1>12 DEF Step

LEMMA OwnCatalog ==
  ASSUME DelegationTypeOK, OneCatalog, NEW l \in Legs, Step(l)
  PROVE  Working(l)' => seen'[l] = version'
<1> USE DEF DelegationTypeOK, Goto, tokenVars, Working
<1>0. Working(l) => seen[l] = version
  BY DEF OneCatalog
<1>1. CASE Admit(l)
  BY <1>1 DEF Admit
<1>2. CASE StartInBatch(l) \/ Dispatch(l)
  BY <1>2 DEF StartInBatch, Dispatch
<1>3. CASE ~Admit(l) /\ ~StartInBatch(l) /\ ~Dispatch(l)
  <2>1. Working(l) /\ UNCHANGED <<seen, version>>
    BY <1>3 DEF Step, OpenAhead, EnterChild, Open, Complete, Break, Close, End, Publish, Leave
  <2> QED
    BY <1>0, <2>1
<1> QED
  BY <1>1, <1>2, <1>3

LEMMA LegKeepsInv ==
  ASSUME DelegationInv, NEW l \in Legs, Step(l)
  PROVE  DelegationInv' /\ \A x \in Legs : row[x] \in EndedStatus /\ place[x] \in {"returned", "dead"} => row'[x] = row[x]
<1> USE DEF DelegationInv
<1>1. LegWrites(l) /\ up /\ place[l] \notin {"returned", "dead"} /\ UNCHANGED <<up, version>>
  BY LegSteps, StepsWhileUp DEF LegWrites
<1>2. DelegationTypeOK'
  BY <1>1, LegTypes
<1>3. ASSUME NEW x \in Legs, x # l
      PROVE  /\ TokensOf(x)' /\ RowOf(x)' /\ (Working(x)' => seen'[x] = version')
             /\ row'[x] = row[x] /\ (row'[x] = "interrupted" => place'[x] = "dead" \/ x \in unwritten')
  <2>1. /\ row'[x] = row[x] /\ place'[x] = place[x] /\ told'[x] = told[x] /\ seen'[x] = seen[x]
        /\ (x \in unwritten') = (x \in unwritten)
        /\ (<<x, "run">> \in held') = (<<x, "run">> \in held) /\ (<<x, "work">> \in held') = (<<x, "work">> \in held)
    BY <1>1, <1>3, OthersStay
  <2>2. TokensOf(x) /\ RowOf(x) /\ (Working(x) => seen[x] = version)
    BY DEF TokensByPlace, RowByPlace, OneCatalog
  <2>3. TokensOf(x)'
    BY <2>1, <2>2 DEF TokensOf
  <2>4. RowOf(x)'
    BY <2>1, <2>2 DEF RowOf
  <2> QED
    BY <1>1, <2>1, <2>2, <2>3, <2>4 DEF Working, InterruptedIsDead
<1>4. TokensOf(l)' /\ RowOf(l)' /\ (Working(l)' => seen'[l] = version')
  BY OwnTokens, OwnRow, OwnCatalog
<1>5. row'[l] = "interrupted" => place'[l] = "dead" \/ l \in unwritten'
  <2>1. row'[l] = "interrupted" => l \in unwritten
    BY <1>1, OwnRow DEF InterruptedIsDead
  <2> QED
    BY <1>1, <2>1 DEF LegWrites
<1>6. TokensByPlace' /\ RowByPlace'
  BY <1>3, <1>4 DEF TokensByPlace, RowByPlace
<1>7. OneCatalog' /\ InterruptedIsDead'
  BY <1>3, <1>4, <1>5 DEF OneCatalog, InterruptedIsDead
<1>8. DownIsIdle'
  BY <1>1 DEF DownIsIdle
<1> QED
  BY <1>1, <1>2, <1>3, <1>6, <1>7, <1>8

\* The steps of the gate and the mail leave the executions alone, and a change
\* that takes effect finds nobody at work.
LEMMA GateKeepsInv ==
  ASSUME DelegationInv, RequestApply \/ SettleApply
  PROVE  DelegationInv' /\ row' = row
<1> USE DEF DelegationInv
<1>1. UNCHANGED <<legVars, held, seen, mailVars, up, crashes>> /\ applyPending' \in BOOLEAN
  BY DEF RequestApply, SettleApply
<1>2. version' \in Nat /\ (version' = version \/ \A l \in Legs : ~Working(l))
  BY WorkersHoldTokens DEF RequestApply, SettleApply, DelegationTypeOK
<1>3. DelegationTypeOK'
  BY <1>1, <1>2 DEF DelegationTypeOK, legVars, mailVars
<1>4. TokensByPlace' /\ RowByPlace' /\ DownIsIdle' /\ InterruptedIsDead'
  BY <1>1 DEF legVars, TokensByPlace, TokensOf, RowByPlace, RowOf, DownIsIdle, Working, InterruptedIsDead
<1>5. OneCatalog'
  BY <1>1, <1>2 DEF OneCatalog, Working, legVars
<1> QED
  BY <1>1, <1>3, <1>4, <1>5 DEF legVars

LEMMA MailTypes ==
  ASSUME DelegationTypeOK,
         Reinject \/ (\E a \in Agents : ReadMessages(a)) \/ \E i \in Letters : SendMessage(i)
  PROVE  inbox' \in [Mail -> Messages] /\ surfaced' \subseteq Mail
<1> USE DEF DelegationTypeOK
<1>1. CASE Reinject
  <2>1. Reinjected \in Messages
    BY DEF Reinjected, Messages
  <2>2. PICK n \in 1 .. Len(events) :
          inbox' = [i \in Mail |-> IF i \in {events[j] : j \in 1 .. n} THEN Reinjected ELSE inbox[i]]
    BY <1>1 DEF Reinject
  <2> QED
    BY <1>1, <2>1, <2>2 DEF Reinject
<1>2. CASE \E a \in Agents : ReadMessages(a)
  <2>1. PICK a \in Agents : ReadMessages(a)
    BY <1>2
  <2>2. PICK ids \in {Inbox(a), Outbox(a)} :
       /\ surfaced' = surfaced \cup ids
       /\ inbox' = [i \in Mail |-> IF i \in ids /\ inbox[i].status = "unread"
                                   THEN [inbox[i] EXCEPT !.status = "read"] ELSE inbox[i]]
    BY <2>1 DEF ReadMessages
  <2>3. \A i \in Mail : [inbox[i] EXCEPT !.status = "read"] \in Messages
    BY DEF Messages
  <2> QED
    BY <2>2, <2>3 DEF Inbox, Outbox
<1>3. CASE \E i \in Letters : SendMessage(i)
  BY <1>3 DEF SendMessage, SaveAgentMessage, Messages, Mail
<1> QED
  BY <1>1, <1>2, <1>3

LEMMA MailKeepsInv ==
  ASSUME DelegationInv,
         Reinject \/ (\E a \in Agents : ReadMessages(a)) \/ \E i \in Letters : SendMessage(i)
  PROVE  DelegationInv' /\ row' = row
<1> USE DEF DelegationInv
<1>1. UNCHANGED <<legVars, tokenVars, events, lost, up, crashes>>
  BY DEF Reinject, ReadMessages, SendMessage
<1>2. inbox' \in [Mail -> Messages] /\ surfaced' \subseteq Mail
  BY MailTypes
<1>3. DelegationTypeOK'
  BY <1>1, <1>2 DEF DelegationTypeOK, legVars, tokenVars
<1> QED
  BY <1>1, <1>3 DEF legVars, tokenVars, TokensByPlace, TokensOf, RowByPlace, RowOf, DownIsIdle, Working, InterruptedIsDead, OneCatalog

LEMMA CrashKeepsInv ==
  ASSUME DelegationInv, Crash
  PROVE  DelegationInv' /\ row' = row
<1> USE DEF DelegationInv, Crash, DelegationTypeOK
<1>1. place' \in [Legs -> Places] /\ \A l \in Legs : place'[l] = IF Working(l) THEN "dead" ELSE place[l]
  BY DEF Places
<1>2. DelegationTypeOK'
  <2>1. row' \in [Legs -> RowStatus] /\ told' \in [Legs -> {"nothing", "refused"} \cup EndedStatus] /\ seen' \in [Legs -> Nat]
    OBVIOUS
  <2>2. events' \in Seq(Background) /\ lost' \subseteq Background /\ inbox' \in [Mail -> Messages] /\ surfaced' \subseteq Mail
    BY DEF mailVars
  <2>3. version' \in Nat /\ crashes' \in Nat /\ up' \in BOOLEAN /\ applyPending' \in BOOLEAN /\ unwritten' \subseteq Legs
    <3>1. crashes' = crashes + 1 /\ version' = version /\ up' = FALSE /\ applyPending' = FALSE /\ unwritten' = unwritten
      OBVIOUS
    <3>2. crashes \in Nat /\ version \in Nat /\ unwritten \subseteq Legs
      OBVIOUS
    <3>3. crashes' \in Nat
      BY <3>1, <3>2
    <3>4. up' \in BOOLEAN /\ applyPending' \in BOOLEAN
      BY <3>1
    <3> QED
      BY <3>1, <3>2, <3>3, <3>4
  <2>4. held' \subseteq Legs \X {"run", "work"}
    OBVIOUS
  <2> QED
    BY <1>1, <2>1, <2>2, <2>3, <2>4
<1>3. ASSUME NEW l \in Legs PROVE TokensOf(l)' /\ RowOf(l)' /\ ~Working(l)'
  <2>1. place'[l] \in {"idle", "returned", "dead"} /\ (place'[l] # "dead" => place'[l] = place[l])
    BY <1>1 DEF Working
  <2>2. RowOf(l) /\ row'[l] = row[l] /\ told'[l] = told[l] /\ (l \in unwritten') = (l \in unwritten)
    BY DEF RowByPlace
  <2>3. TokensOf(l)' /\ ~Working(l)'
    BY <2>1 DEF TokensOf, InWork, InRun, Working
  <2>4. l \in unwritten' => place'[l] \in After \cup {"dead"}
    BY <1>1, <2>2 DEF RowOf
  <2>5. RowOf(l)'
    BY <2>1, <2>2, <2>4 DEF RowOf, After
  <2> QED
    BY <2>3, <2>5
<1>4. InterruptedIsDead'
  BY <1>1 DEF InterruptedIsDead, Working
<1> QED
  BY <1>2, <1>3, <1>4 DEF TokensByPlace, RowByPlace, DownIsIdle, OneCatalog

\* The sweep finds rows of dead executions and of writes that failed.
LEMMA StartupKeepsInv ==
  ASSUME DelegationInv, Startup
  PROVE  DelegationInv' /\ \A x \in Legs : row[x] \in EndedStatus => row'[x] = row[x]
<1> USE DelegationAssumption DEF DelegationInv, Startup, DelegationTypeOK
<1>1. row' \in [Legs -> RowStatus] /\ \A l \in Legs : row'[l] = IF row[l] = "running" THEN "interrupted" ELSE row[l]
  BY DEF SweepRunning, RowStatus
<1>2. DelegationTypeOK'
  BY <1>1 DEF mailVars, tokenVars
<1>3. \A l \in Legs : ~Working(l) /\ ~Working(l)' /\ place'[l] = place[l]
  BY DEF DownIsIdle, Working
<1>4. ASSUME NEW l \in Legs PROVE TokensOf(l)' /\ RowOf(l)' /\ (row'[l] = "interrupted" => place'[l] = "dead" \/ l \in unwritten')
  <2>1. place'[l] = place[l] /\ place[l] \in {"idle", "returned", "dead"}
    BY <1>3 DEF Working
  <2>2. RowOf(l) /\ TokensOf(l) /\ told'[l] = told[l] /\ (l \in unwritten') = (l \in unwritten) /\ held' = held
    BY DEF RowByPlace, TokensByPlace, tokenVars
  <2>3. TokensOf(l)'
    BY <2>1, <2>2 DEF TokensOf
  <2>4. row[l] = "running" => place[l] = "dead" \/ l \in unwritten
    BY <2>1, <2>2 DEF RowOf, After, EndedStatus
  <2>5. RowOf(l)'
    BY <1>1, <2>1, <2>2, <2>4 DEF RowOf, After, EndedStatus
  <2> QED
    BY <1>1, <2>1, <2>2, <2>3, <2>4, <2>5 DEF InterruptedIsDead
<1> QED
  BY <1>1, <1>2, <1>3, <1>4 DEF TokensByPlace, RowByPlace, DownIsIdle, OneCatalog, InterruptedIsDead, EndedStatus

LEMMA DelegationStep ==
  DelegationInv /\ [DelegationNext]_delegationVars
    => DelegationInv' /\ \A x \in Legs : row[x] \in EndedStatus /\ place[x] \in {"returned", "dead"} => row'[x] = row[x]
<1> SUFFICES ASSUME DelegationInv, [DelegationNext]_delegationVars
             PROVE  DelegationInv' /\ \A x \in Legs : row[x] \in EndedStatus /\ place[x] \in {"returned", "dead"} => row'[x] = row[x]
  OBVIOUS
<1>1. CASE \E l \in Legs : Step(l)
  BY <1>1, LegKeepsInv
<1>2. CASE RequestApply \/ SettleApply
  BY <1>2, GateKeepsInv
<1>3. CASE Reinject \/ (\E a \in Agents : ReadMessages(a)) \/ \E i \in Letters : SendMessage(i)
  BY <1>3, MailKeepsInv
<1>4. CASE Crash
  BY <1>4, CrashKeepsInv
<1>5. CASE Startup
  BY <1>5, StartupKeepsInv
<1>6. CASE UNCHANGED delegationVars
  BY <1>6 DEF delegationVars, legVars, tokenVars, mailVars, DelegationInv, DelegationTypeOK, TokensByPlace, TokensOf, RowByPlace,
     RowOf, DownIsIdle, Working, InterruptedIsDead, OneCatalog
<1> QED
  BY <1>1, <1>2, <1>3, <1>4, <1>5, <1>6 DEF DelegationNext

LEMMA DelegationInvImplies ==
  DelegationInv => DelegationTypeOK /\ TruthfulEnding /\ InterruptedIsDead /\ OneCatalog /\ NoTokenLeft
<1> SUFFICES ASSUME DelegationInv
             PROVE  DelegationTypeOK /\ TruthfulEnding /\ InterruptedIsDead /\ OneCatalog /\ NoTokenLeft
  OBVIOUS
<1>1. NoTokenLeft
  BY WorkersHoldTokens DEF DelegationInv
<1>2. TruthfulEnding
  BY DEF DelegationInv, RowByPlace, RowOf, After, TruthfulEnding
<1> QED
  BY <1>1, <1>2 DEF DelegationInv

(* Delegation is safe, for any executions and their parents, with writes that  *)
(* fail and processes that die: a caller told that a run completed finds it    *)
(* completed in the table, only a dead run or one whose last write failed is   *)
(* called interrupted, an ended row stays as it ended, a run and the children  *)
(* that outlive it work under one plugin set from dispatch to publishing, and  *)
(* nobody who is over keeps a plugin change waiting.                           *)
THEOREM DelegationIsSafe == DelegationSpec => DelegationSafe
<1>1. DelegationInit => DelegationInv
  BY DelegationInitInv
<1>2. DelegationInv /\ [DelegationNext]_delegationVars => DelegationInv'
  BY DelegationStep
<1>3. DelegationInv => DelegationTypeOK /\ TruthfulEnding /\ InterruptedIsDead /\ OneCatalog /\ NoTokenLeft
  BY DelegationInvImplies
<1>4. DelegationInv /\ [DelegationNext]_delegationVars
        => [\A l \in Legs : row[l] \in EndedStatus /\ place[l] \in {"returned", "dead"} => row'[l] = row[l]]_delegationVars
  BY DelegationStep
<1> QED
  BY <1>1, <1>2, <1>3, <1>4, PTL DEF DelegationSpec, DelegationSafe, EndedForGood
=============================================================================
