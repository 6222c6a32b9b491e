---------------------------- MODULE FrontsProofs ----------------------------
(***************************************************************************)
(* The safety of the two fronts a person talks to: the chat gateway, for   *)
(* any chats and messages, any number of chunks and attempts and any       *)
(* crashes of either side; and the terminal UI, for any number of runs,    *)
(* events and sensitive calls and any order of messages.                   *)
(***************************************************************************)
EXTENDS Gateway, Terminal, FiniteSetTheorems, TLAPS

-----------------------------------------------------------------------------
(* The gateway.  In one life of it a message is in one place: fetched,     *)
(* waiting, with the worker or tracked under one id.  What its chat was    *)
(* shown is bounded by the attempts its submissions are worth.             *)

Top == IF offset > confirmed THEN offset ELSE confirmed
Tracked(id) == tracker[id] # Untracked

WorkerStates ==
  [step : {"idle", "ensure", "bind", "submit", "track"}, msg : Messages \cup {0}, session : Nat,
   id : TaskIds \cup {NoTask}]
Deliveries == [msg : Messages, attempts : Nat]
CoreTasks ==
  [msg : Messages \cup {0}, session : Nat, status : {"none", "pending", "done", "failed", "suspended"}]

IntakeTypes ==
  /\ chatOf \in [Messages -> ImChats] /\ arrived \in 0 .. MaxMessages
  /\ confirmed \in 0 .. arrived /\ offset \in 0 .. arrived
  /\ batch \in Seq(Messages) /\ inbound \in Seq(Messages) /\ stops \in Nat
WorkerTypes == worker \in WorkerStates /\ mintSeq \in 0 .. MaxTaskSeq
TrackTypes ==
  /\ tracker \in [TaskIds -> Deliveries \cup {Untracked}]
  /\ poll \in [id : TaskIds, chunk : 1 .. Chunks] \cup {NoPoll}
CoreTypes ==
  /\ binding \in [ImChats -> Nat] /\ madeSessions \in Nat
  /\ taskOf \in [TaskIds -> CoreTasks] /\ liveIds \subseteq TaskIds
  /\ resultOf \in [TaskIds -> Messages \cup {0}] /\ submissions \in [Messages -> Nat]
ShownTypes ==
  /\ shown \in [Messages -> Seq(Messages \X (1 .. Chunks))]
  /\ settled \subseteq Messages /\ lost \subseteq Messages

GatewayTypes == IntakeTypes /\ WorkerTypes /\ TrackTypes /\ CoreTypes /\ ShownTypes

\* What was fetched and not handed on follows the offset without a gap.
Fetched ==
  /\ \A i \in 1 .. Len(batch) : batch[i] = Top + i
  /\ Top + Len(batch) <= arrived
  /\ Len(inbound) <= InboundCap

\* The worker has a message while it works, and an id of this life to track.
AtWork ==
  /\ worker.step = "idle" <=> worker.msg = 0
  /\ worker.step = "idle" => worker = NoInbound
  /\ worker.step = "track" => worker.id \in TaskIds /\ worker.id[2] <= mintSeq

\* A message is in one place, behind the offset once it has been handed on.
OnePlace ==
  /\ \A i \in 1 .. Len(inbound) : inbound[i] <= offset /\ inbound[i] # worker.msg
  /\ \A i, j \in 1 .. Len(inbound) : inbound[i] = inbound[j] => i = j
  /\ worker.msg <= offset
  /\ \A id \in TaskIds : Tracked(id) =>
       /\ tracker[id].msg <= offset /\ tracker[id].msg # worker.msg
       /\ \A i \in 1 .. Len(inbound) : inbound[i] # tracker[id].msg
       /\ id[2] <= mintSeq /\ id # worker.id
       /\ \A other \in TaskIds : Tracked(other) /\ tracker[other].msg = tracker[id].msg => other = id

\* One session for one chat, and the worker's is the one its chat is bound to.
Bound ==
  /\ \A c \in ImChats : binding[c] <= madeSessions
  /\ \A c, d \in ImChats : binding[c] = binding[d] /\ binding[c] # 0 => c = d
  /\ worker.step = "ensure" => binding[chatOf[worker.msg]] = 0
  /\ worker.step = "bind" =>
       /\ binding[chatOf[worker.msg]] = 0 /\ worker.session \in 1 .. madeSessions
       /\ \A c \in ImChats : binding[c] # worker.session
  /\ worker.step \in {"submit", "track"} =>
       worker.session # 0 /\ worker.session = binding[chatOf[worker.msg]]
  /\ \A id \in TaskIds : taskOf[id] # NoCoreTask =>
       taskOf[id].session # 0 /\ taskOf[id].session = binding[id[1]]

\* A task waiting for a human has no answer; one being delivered has, for good.
Results ==
  /\ \A id \in TaskIds :
       /\ taskOf[id].status = "suspended" => resultOf[id] = 0
       /\ taskOf[id].status # "none" => taskOf[id].msg \in Messages
       /\ Tracked(id) => tracker[id].attempts < Retries
  /\ poll # NoPoll =>
       /\ Tracked(poll.id) /\ resultOf[poll.id] # 0
       /\ taskOf[poll.id].status \in {"done", "failed"}

Firsts(s) == {i \in 1 .. Len(s) : s[i][2] = 1}
OnesOf(s) == Cardinality(Firsts(s))
Ones(n) == OnesOf(shown[n])
Begun(id) == IF poll # NoPoll /\ poll.id = id /\ poll.chunk > 1 THEN 1 ELSE 0

\* How many attempts a message has had: the one being made is its task's own.
Worth ==
  /\ \A n \in Messages : Ones(n) <= Retries * submissions[n]
  /\ worker.step = "track" => Ones(worker.msg) + Retries <= Retries * submissions[worker.msg]
  /\ \A id \in TaskIds : Tracked(id) =>
       Ones(tracker[id].msg) + Retries
         <= Retries * submissions[tracker[id].msg] + tracker[id].attempts + Begun(id)

\* Chunks follow one another, and the next one follows the last shown.
InOrder ==
  /\ \A n \in Messages : \A i \in 1 .. Len(shown[n]) :
       shown[n][i][2] > 1 => i > 1 /\ shown[n][i - 1][2] = shown[n][i][2] - 1
  /\ poll # NoPoll /\ poll.chunk > 1 =>
       /\ Len(shown[tracker[poll.id].msg]) > 0
       /\ shown[tracker[poll.id].msg][Len(shown[tracker[poll.id].msg])][2] = poll.chunk - 1

GatewayInv ==
  /\ GatewayTypes /\ Fetched /\ AtWork /\ OnePlace /\ Bound /\ Results /\ Accounted /\ Worth /\ InOrder

LEMMA HeadIs ==
  ASSUME NEW S, NEW s \in Seq(S), s # <<>>
  PROVE  /\ Len(s) \in Nat /\ Len(s) >= 1 /\ Head(s) = s[1] /\ s[1] \in S
         /\ Tail(s) \in Seq(S) /\ Len(Tail(s)) = Len(s) - 1
         /\ \A i \in 1 .. Len(s) - 1 : Tail(s)[i] = s[i + 1]
<1>1. Len(s) \in Nat /\ Len(s) # 0
  OBVIOUS
<1>2. Len(s) >= 1
  BY <1>1
<1> QED BY <1>2

LEMMA NoInboundIs ==
  /\ NoInbound.step = "idle" /\ NoInbound.msg = 0 /\ NoInbound.session = 0 /\ NoInbound.id = NoTask
  /\ NoInbound \in WorkerStates
  BY DEF NoInbound, WorkerStates

LEMMA PollIs == ASSUME GatewayTypes, poll # NoPoll PROVE poll.id \in TaskIds /\ poll.chunk \in 1 .. Chunks
  BY DEF GatewayTypes, TrackTypes

LEMMA TrackedIs ==
  ASSUME GatewayTypes, NEW id \in TaskIds, Tracked(id)
  PROVE  tracker[id] \in Deliveries /\ tracker[id].msg \in Messages /\ tracker[id].attempts \in Nat
  BY DEF GatewayTypes, TrackTypes, Tracked, Deliveries

\* A worker that works has a message, and its chat.
LEMMA WorkerIs ==
  ASSUME GatewayTypes, AtWork, worker.step # "idle"
  PROVE  worker.msg \in Messages /\ chatOf[worker.msg] \in ImChats
  BY DEF GatewayTypes, WorkerTypes, WorkerStates, IntakeTypes, AtWork

LEMMA GatewayInitSafe == GatewayInit => GatewayInv
<1> SUFFICES ASSUME GatewayInit PROVE GatewayInv
  OBVIOUS
<1> USE GatewayAssumption DEF GatewayInit
<1>1. GatewayTypes
  <2>1. <<>> \in Seq(Messages) /\ <<>> \in Seq(Messages \X (1 .. Chunks))
    OBVIOUS
  <2>2. NoCoreTask \in CoreTasks
    BY DEF NoCoreTask, CoreTasks
  <2>3. IntakeTypes /\ WorkerTypes /\ TrackTypes
    BY <2>1, NoInboundIs DEF IntakeTypes, WorkerTypes, TrackTypes, Messages
  <2>4. CoreTypes /\ ShownTypes
    BY <2>1, <2>2 DEF CoreTypes, ShownTypes
  <2> QED BY <2>3, <2>4 DEF GatewayTypes
<1>2. Top = 0 /\ ~(\E id \in TaskIds : Tracked(id))
  BY DEF Top, Tracked
<1>3. Fetched /\ Accounted
  BY <1>2 DEF Fetched, Accounted
<1>4. AtWork /\ OnePlace /\ Bound
  <2>1. AtWork
    BY NoInboundIs DEF AtWork
  <2>2. OnePlace
    BY <1>2, NoInboundIs DEF OnePlace
  <2>3. Bound
    BY NoInboundIs DEF Bound
  <2> QED BY <2>1, <2>2, <2>3
<1>5. Results
  BY <1>2 DEF Results, NoCoreTask
<1>6. Worth
  <2>1. ASSUME NEW n \in Messages PROVE Ones(n) = 0 /\ submissions[n] = 0
    <3>1. Firsts(shown[n]) = {}
      BY DEF Firsts
    <3> QED BY <3>1, FS_EmptySet DEF Ones, OnesOf
  <2>2. \A n \in Messages : Ones(n) <= Retries * submissions[n]
    <3> HIDE DEF GatewayInit
    <3> QED BY <2>1
  <2> QED BY <1>2, <2>2, NoInboundIs DEF Worth
<1>7. InOrder
  BY DEF InOrder
<1> QED BY <1>1, <1>3, <1>4, <1>5, <1>6, <1>7 DEF GatewayInv

CoreStep ==
  \/ CoreRestart
  \/ \E id \in TaskIds : ResumeTask(id) \/ \E status \in Final : EndTask(id, status)

Delivery == Send \/ \E id \in TaskIds : TaskResult(id)

Intake == ReceiveInbound \/ EnsureSession \/ Bind \/ SubmitTask \/ StartTracking

Arrival == Arrive \/ getUpdates \/ PassOn

LEMMA GatewayCases == GatewayNext => Arrival \/ Intake \/ CoreStep \/ Delivery \/ GatewayCrash
  BY DEF GatewayNext, Arrival, Intake, CoreStep, Delivery

LEMMA IntakeTypesStep ==
  ASSUME GatewayTypes, Fetched, GatewayNext PROVE IntakeTypes'
<1> USE GatewayAssumption DEF GatewayTypes, IntakeTypes, telegramVars, gatewayGhosts
<1>1. CASE Arrive
  BY <1>1 DEF Arrive, intakeVars
<1>2. CASE getUpdates
  <2> DEFINE from == IF offset > confirmed THEN offset ELSE confirmed
             got == [i \in 1 .. (arrived - from) |-> from + i]
  <2>1. from \in 0 .. arrived /\ arrived - from \in Nat
    OBVIOUS
  <2>2. \A i \in 1 .. (arrived - from) : from + i \in Messages
    BY <2>1 DEF Messages
  <2>3. got \in Seq(Messages)
    BY <2>1, <2>2
  <2>4. confirmed' = from /\ batch' \in {<<>>, got}
    BY <1>2 DEF getUpdates
  <2> QED BY <1>2, <2>1, <2>3, <2>4 DEF getUpdates
<1>3. CASE PassOn
  <2>1. Head(batch) \in Messages /\ Tail(batch) \in Seq(Messages) /\ Len(batch) >= 1
    BY <1>3 DEF PassOn
  <2>2. Head(batch) = Top + 1 /\ Top + 1 \in 0 .. arrived
    BY <2>1 DEF Fetched, Top
  <2>3. Append(inbound, Head(batch)) \in Seq(Messages)
    BY <2>1
  <2> QED BY <1>3, <2>1, <2>2, <2>3 DEF PassOn
<1>4. CASE ReceiveInbound
  <2>1. inbound # <<>> /\ inbound' = Tail(inbound)
    BY <1>4 DEF ReceiveInbound
  <2>2. Tail(inbound) \in Seq(Messages)
    BY <2>1
  <2> QED BY <1>4, <2>1, <2>2 DEF ReceiveInbound
<1>5. CASE EnsureSession \/ Bind \/ SubmitTask \/ StartTracking
  BY <1>5 DEF EnsureSession, Bind, SubmitTask, StartTracking
<1>6. CASE CoreStep
  BY <1>6 DEF CoreStep, CoreRestart, ResumeTask, EndTask, intakeVars
<1>7. CASE Delivery
  BY <1>7 DEF Delivery, Send, TaskResult, intakeVars
<1>8. CASE GatewayCrash
  BY <1>8 DEF GatewayCrash
<1> QED BY <1>1, <1>2, <1>3, <1>4, <1>5, <1>6, <1>7, <1>8, GatewayCases DEF Arrival, Intake

LEMMA WorkerTypesStep ==
  ASSUME GatewayTypes, AtWork, GatewayNext PROVE WorkerTypes'
<1> USE GatewayAssumption DEF GatewayTypes, WorkerTypes
<1>1. CASE Arrival
  BY <1>1 DEF Arrival, Arrive, getUpdates, PassOn, intakeVars
<1>2. CASE ReceiveInbound
  <2>1. Head(inbound) \in Messages
    <3>1. inbound # <<>>
      BY <1>2 DEF ReceiveInbound
    <3> QED BY <3>1, HeadIs DEF IntakeTypes
  <2>2. binding[chatOf[Head(inbound)]] \in Nat
    BY <2>1 DEF IntakeTypes, CoreTypes
  <2>3. worker' \in WorkerStates
    BY <1>2, <2>1, <2>2, NoInboundIs DEF ReceiveInbound, BoundTo, WorkerStates
  <2> QED BY <1>2, <2>3 DEF ReceiveInbound
<1>3. CASE EnsureSession
  <2>0. worker' = [worker EXCEPT !.session = madeSessions + 1, !.step = "bind"] \/ worker' = NoInbound
    BY <1>3 DEF EnsureSession, Drop
  <2>1. madeSessions + 1 \in Nat
    BY DEF CoreTypes
  <2>2. worker' \in WorkerStates
    BY <2>0, <2>1, NoInboundIs DEF WorkerStates
  <2> QED BY <1>3, <2>2 DEF EnsureSession
<1>4. CASE Bind
  <2>1. worker' \in WorkerStates
    BY <1>4, NoInboundIs DEF Bind, Drop, At, WorkerStates
  <2> QED BY <1>4, <2>1 DEF Bind
<1>5. CASE SubmitTask
  <2>1. mintSeq + 1 \in 1 .. MaxTaskSeq /\ mintSeq' = mintSeq + 1
    BY <1>5 DEF SubmitTask
  <2>2. mintTaskID \in TaskIds
    BY <1>5, <2>1, WorkerIs DEF mintTaskID, TaskIds, SubmitTask
  <2>3. worker' = [worker EXCEPT !.id = mintTaskID, !.step = "track"] \/ worker' = NoInbound
    BY <1>5 DEF SubmitTask, Drop
  <2>4. worker' \in WorkerStates
    BY <2>2, <2>3, NoInboundIs DEF WorkerStates
  <2> QED BY <2>1, <2>4
<1>6. CASE StartTracking
  BY <1>6, NoInboundIs DEF StartTracking
<1>7. CASE CoreStep
  BY <1>7 DEF CoreStep, CoreRestart, ResumeTask, EndTask, intakeVars
<1>8. CASE Delivery
  BY <1>8 DEF Delivery, Send, TaskResult, intakeVars
<1>9. CASE GatewayCrash
  BY <1>9, NoInboundIs DEF GatewayCrash
<1> QED BY <1>1, <1>2, <1>3, <1>4, <1>5, <1>6, <1>7, <1>8, <1>9, GatewayCases DEF Intake

LEMMA TrackTypesStep ==
  ASSUME GatewayTypes, AtWork, Results, GatewayNext PROVE TrackTypes'
<1> USE GatewayAssumption DEF TrackTypes
<1>0. TrackTypes
  BY DEF GatewayTypes
<1>1. CASE Arrival
  BY <1>0, <1>1 DEF Arrival, Arrive, getUpdates, PassOn
<1>2. CASE ReceiveInbound \/ EnsureSession \/ Bind \/ SubmitTask
  BY <1>0, <1>2 DEF ReceiveInbound, EnsureSession, Bind, SubmitTask
<1>3. CASE StartTracking
  <2>1. worker.msg \in Messages
    BY <1>3, WorkerIs DEF StartTracking
  <2>2. [msg |-> worker.msg, attempts |-> 0] \in Deliveries
    BY <2>1 DEF Deliveries
  <2> QED BY <1>0, <1>3, <2>2 DEF StartTracking, Track
<1>4. CASE Send
  <2>1. poll # NoPoll /\ poll.id \in TaskIds /\ poll.chunk \in 1 .. Chunks
    BY <1>4, PollIs DEF Send
  <2>2. tracker[poll.id] \in Deliveries
    BY <2>1, TrackedIs DEF Results
  <2>3. [tracker[poll.id] EXCEPT !.attempts = @ + 1] \in Deliveries
    BY <2>2 DEF Deliveries
  <2>4. \/ tracker' = tracker \/ tracker' = [tracker EXCEPT ![poll.id] = Untracked]
        \/ tracker' = [tracker EXCEPT ![poll.id].attempts = @ + 1]
    BY <1>4 DEF Send, Took
  <2>5. tracker' \in [TaskIds -> Deliveries \cup {Untracked}]
    BY <1>0, <2>3, <2>4
  <2>6. poll' = NoPoll \/ (poll.chunk # Chunks /\ poll' = [poll EXCEPT !.chunk = @ + 1])
    BY <1>4 DEF Send
  <2>7. poll' \in [id : TaskIds, chunk : 1 .. Chunks] \cup {NoPoll}
    BY <1>0, <2>1, <2>6
  <2> QED BY <2>5, <2>7
<1>5. ASSUME NEW id \in TaskIds, TaskResult(id) PROVE TrackTypes'
  BY <1>0, <1>5 DEF TaskResult, NothingToSend, Took, firstChunk
<1>6. CASE CoreStep
  BY <1>0, <1>6 DEF CoreStep, CoreRestart, ResumeTask, EndTask
<1>7. CASE GatewayCrash
  BY <1>7 DEF GatewayCrash
<1> QED BY <1>1, <1>2, <1>3, <1>4, <1>5, <1>6, <1>7, GatewayCases DEF Intake, Delivery

LEMMA CoreTypesStep ==
  ASSUME GatewayTypes, AtWork, GatewayNext PROVE CoreTypes'
<1> USE GatewayAssumption DEF CoreTypes, coreVars, gatewayGhosts
<1>0. CoreTypes
  BY DEF GatewayTypes
<1>1. CASE Arrival
  BY <1>0, <1>1 DEF Arrival, Arrive, getUpdates, PassOn
<1>2. CASE ReceiveInbound \/ StartTracking
  BY <1>0, <1>2 DEF ReceiveInbound, StartTracking
<1>3. CASE EnsureSession
  BY <1>0, <1>3 DEF EnsureSession
<1>4. CASE Bind
  <2>1. worker.session \in Nat
    BY DEF GatewayTypes, WorkerTypes, WorkerStates
  <2> QED BY <1>0, <1>4, <2>1 DEF Bind
<1>5. CASE SubmitTask
  <2>1. mintSeq + 1 \in 1 .. MaxTaskSeq
    BY <1>5 DEF SubmitTask, GatewayTypes, WorkerTypes
  <2>2. worker.msg \in Messages /\ mintTaskID \in TaskIds
    BY <1>5, <2>1, WorkerIs DEF mintTaskID, TaskIds, SubmitTask
  <2>3. [msg |-> worker.msg, session |-> worker.session, status |-> "pending"] \in CoreTasks
    BY <2>2 DEF CoreTasks, GatewayTypes, WorkerTypes, WorkerStates
  <2>4. taskOf' = taskOf \/ taskOf' = [taskOf EXCEPT ![mintTaskID] =
          [msg |-> worker.msg, session |-> worker.session, status |-> "pending"]]
    BY <1>5 DEF SubmitTask
  <2>5. liveIds' = liveIds \/ liveIds' = liveIds \cup {mintTaskID}
    BY <1>5 DEF SubmitTask
  <2>6. submissions' = submissions \/ submissions' = [submissions EXCEPT ![worker.msg] = @ + 1]
    BY <1>5 DEF SubmitTask
  <2>7. taskOf' \in [TaskIds -> CoreTasks]
    BY <1>0, <2>2, <2>3, <2>4
  <2>8. liveIds' \subseteq TaskIds /\ submissions' \in [Messages -> Nat]
    BY <1>0, <2>2, <2>5, <2>6
  <2>9. UNCHANGED <<binding, madeSessions, resultOf>>
    BY <1>5 DEF SubmitTask
  <2> QED BY <1>0, <2>7, <2>8, <2>9
<1>6. CASE Delivery
  BY <1>0, <1>6 DEF Delivery, Send, TaskResult
<1>7. CASE CoreRestart
  BY <1>0, <1>7 DEF CoreRestart
<1>8. ASSUME NEW id \in TaskIds, ResumeTask(id) PROVE CoreTypes'
  BY <1>0, <1>8 DEF ResumeTask, CoreTasks
<1>9. ASSUME NEW id \in TaskIds, NEW status \in Final, EndTask(id, status) PROVE CoreTypes'
  <2>1. taskOf' = [taskOf EXCEPT ![id].status = status]
    BY <1>9 DEF EndTask
  <2>2. taskOf' \in [TaskIds -> CoreTasks]
    BY <1>0, <2>1 DEF Final, CoreTasks
  <2>3. resultOf' = resultOf \/ resultOf' = [resultOf EXCEPT ![id] = IF status = "done" THEN taskOf[id].msg ELSE 0]
    BY <1>9 DEF EndTask
  <2>4. taskOf[id].msg \in Messages \cup {0}
    BY <1>0 DEF CoreTasks
  <2>5. resultOf' \in [TaskIds -> Messages \cup {0}]
    BY <1>0, <2>3, <2>4
  <2> QED BY <1>0, <1>9, <2>2, <2>5 DEF EndTask
<1>10. CASE GatewayCrash
  BY <1>0, <1>10 DEF GatewayCrash
<1> QED BY <1>1, <1>2, <1>3, <1>4, <1>5, <1>6, <1>7, <1>8, <1>9, <1>10, GatewayCases DEF Intake, CoreStep

LEMMA ShownTypesStep ==
  ASSUME GatewayTypes, AtWork, Results, GatewayNext PROVE ShownTypes'
<1> USE GatewayAssumption DEF ShownTypes, gatewayGhosts
<1>0. ShownTypes
  BY DEF GatewayTypes
<1>1. CASE Arrival
  BY <1>0, <1>1 DEF Arrival, Arrive, getUpdates, PassOn
<1>2. CASE Intake
  <2>1. CASE ReceiveInbound
    <3>0. inbound # <<>>
      BY <2>1 DEF ReceiveInbound
    <3>1. Head(inbound) \in Messages
      BY <3>0, HeadIs DEF GatewayTypes, IntakeTypes
    <3> QED BY <1>0, <2>1, <3>1 DEF ReceiveInbound
  <2>2. CASE EnsureSession \/ Bind \/ SubmitTask
    <3>1. worker.msg \in Messages
      BY <2>2, WorkerIs DEF EnsureSession, Bind, SubmitTask
    <3> QED BY <1>0, <2>2, <3>1 DEF EnsureSession, Bind, SubmitTask, Drop
  <2>3. CASE StartTracking
    BY <1>0, <2>3 DEF StartTracking
  <2> QED BY <1>2, <2>1, <2>2, <2>3 DEF Intake
<1>3. CASE Send
  <2>1. poll # NoPoll /\ poll.id \in TaskIds /\ poll.chunk \in 1 .. Chunks
    BY <1>3, PollIs DEF Send
  <2>2. tracker[poll.id].msg \in Messages /\ resultOf[poll.id] \in Messages
    BY <2>1, TrackedIs DEF Results, GatewayTypes, CoreTypes
  <2>3. PICK n \in Messages : n = tracker[poll.id].msg
    BY <2>2
  <2>4. PICK new \in Messages \X (1 .. Chunks) : new = <<resultOf[poll.id], poll.chunk>>
    BY <2>1, <2>2
  <2>5. shown' \in {shown, [shown EXCEPT ![n] = Append(@, new)]}
    BY <1>3, <2>3, <2>4 DEF Send
  <2>6. Append(shown[n], new) \in Seq(Messages \X (1 .. Chunks))
    BY <1>0
  <2>7. shown' \in [Messages -> Seq(Messages \X (1 .. Chunks))]
    BY <1>0, <2>5, <2>6
  <2>8. settled' = settled \/ settled' = settled \cup {n}
    BY <1>3, <2>3 DEF Send, Took
  <2>9. lost' = lost
    BY <1>3 DEF Send
  <2> QED BY <1>0, <2>7, <2>8, <2>9
<1>4. ASSUME NEW id \in TaskIds, TaskResult(id) PROVE ShownTypes'
  <2>1. tracker[id].msg \in Messages
    BY <1>4, TrackedIs DEF TaskResult, Tracked
  <2> QED BY <1>0, <1>4, <2>1 DEF TaskResult, NothingToSend, Took
<1>5. CASE CoreStep
  BY <1>0, <1>5 DEF CoreStep, CoreRestart, ResumeTask, EndTask
<1>6. CASE GatewayCrash
  <2>1. {n \in InMemory : n <= confirmed} \subseteq Messages
    <3>1. \A i \in DOMAIN batch : batch[i] \in Messages
      BY DEF GatewayTypes, IntakeTypes
    <3>2. \A i \in DOMAIN inbound : inbound[i] \in Messages
      BY DEF GatewayTypes, IntakeTypes
    <3>3. worker.msg \in Messages \cup {0}
      BY DEF GatewayTypes, WorkerTypes, WorkerStates
    <3> QED BY <3>1, <3>2, <3>3, TrackedIs DEF InMemory, Tracked
  <2> QED BY <1>0, <1>6, <2>1 DEF GatewayCrash
<1> QED BY <1>1, <1>2, <1>3, <1>4, <1>5, <1>6, GatewayCases DEF Delivery

LEMMA FetchedStep ==
  ASSUME GatewayTypes, Fetched, GatewayNext PROVE Fetched'
<1> USE GatewayAssumption DEF telegramVars, gatewayGhosts, intakeVars, Top
<1>0. Top \in Nat /\ Len(batch) \in Nat /\ Len(inbound) \in Nat /\ arrived \in Nat /\ confirmed \in Nat /\ offset \in Nat
      /\ confirmed <= arrived /\ offset <= arrived
  BY DEF GatewayTypes, IntakeTypes
<1>1. CASE Arrive
  BY <1>0, <1>1 DEF Arrive, Fetched
<1>2. CASE getUpdates
  <2> DEFINE from == IF offset > confirmed THEN offset ELSE confirmed
             got == [i \in 1 .. (arrived - from) |-> from + i]
  <2>1. from \in Nat /\ arrived - from \in Nat /\ from >= offset
    BY <1>0
  <2>2. confirmed' = from /\ offset' = offset /\ arrived' = arrived /\ inbound' = inbound /\ batch' \in {<<>>, got}
    BY <1>2 DEF getUpdates
  <2>3. Top' = from
    BY <2>1, <2>2
  <2>4. Len(got) = arrived - from /\ \A i \in 1 .. Len(got) : got[i] = from + i
    BY <2>1
  <2>5. Len(<<>>) = 0
    OBVIOUS
  <2> HIDE DEF got, from
  <2>6. CASE batch' = got
    BY <2>1, <2>2, <2>3, <2>4, <2>6, <1>0 DEF Fetched
  <2>7. CASE batch' = <<>>
    <3>1. from <= arrived
      BY <1>0, <2>1 DEF from
    <3> QED BY <2>1, <2>2, <2>3, <2>5, <2>7, <3>1, <1>0 DEF Fetched
  <2> QED BY <2>2, <2>6, <2>7
<1>3. CASE PassOn
  <2>1. batch # <<>> /\ Len(inbound) < InboundCap /\ offset' = Head(batch) /\ batch' = Tail(batch)
        /\ inbound' = Append(inbound, Head(batch)) /\ confirmed' = confirmed /\ arrived' = arrived
    BY <1>3 DEF PassOn
  <2>2. /\ Len(batch) >= 1 /\ Head(batch) = batch[1] /\ Len(Tail(batch)) = Len(batch) - 1
        /\ \A i \in 1 .. Len(batch) - 1 : Tail(batch)[i] = batch[i + 1]
    BY <2>1, HeadIs DEF GatewayTypes, IntakeTypes
  <2>3. offset' = Top + 1
    BY <2>1, <2>2, <1>0 DEF Fetched
  <2>4. Top' = Top + 1
    <3>1. Top >= confirmed
      BY <1>0
    <3> HIDE DEF Top
    <3>2. offset' > confirmed'
      BY <1>0, <2>1, <2>3, <3>1
    <3> QED BY <2>3, <3>2 DEF Top
  <2>5. Len(inbound') = Len(inbound) + 1
    BY <2>1 DEF GatewayTypes, IntakeTypes
  <2>6. \A i \in 1 .. Len(batch') : batch'[i] = Top' + i
    <3>1. \A i \in 1 .. Len(batch) - 1 : i + 1 \in 1 .. Len(batch) /\ batch[i + 1] = Top + (i + 1)
      <4> HIDE DEF Top
      <4> QED BY <1>0 DEF Fetched
    <3> HIDE DEF Top
    <3> QED BY <1>0, <2>1, <2>2, <2>4, <3>1
  <2>7. Top' + Len(batch') <= arrived'
    <3>1. Len(batch') = Len(batch) - 1 /\ Top + Len(batch) <= arrived
      BY <2>1, <2>2 DEF Fetched
    <3> HIDE DEF Top
    <3> QED BY <3>1, <2>1, <2>4, <1>0
  <2>8. Len(inbound') <= InboundCap'
    BY <2>1, <2>5, <1>0
  <2> QED BY <2>6, <2>7, <2>8 DEF Fetched
<1>4. CASE ReceiveInbound
  <2>1. inbound # <<>> /\ inbound' = Tail(inbound)
    BY <1>4 DEF ReceiveInbound
  <2>2. Len(inbound') = Len(inbound) - 1
    BY <2>1, HeadIs DEF GatewayTypes, IntakeTypes
  <2>3. Top' = Top /\ batch' = batch /\ arrived' = arrived
    BY <1>4 DEF ReceiveInbound
  <2> HIDE DEF Top
  <2> QED BY <1>0, <2>2, <2>3, GatewayAssumption DEF Fetched
<1>5. CASE EnsureSession \/ Bind \/ SubmitTask \/ StartTracking
  BY <1>5 DEF EnsureSession, Bind, SubmitTask, StartTracking, Fetched
<1>6. CASE CoreStep
  BY <1>6 DEF CoreStep, CoreRestart, ResumeTask, EndTask, Fetched
<1>7. CASE Delivery
  BY <1>7 DEF Delivery, Send, TaskResult, Fetched
<1>8. CASE GatewayCrash
  BY <1>0, <1>8 DEF GatewayCrash, Fetched
<1> QED BY <1>1, <1>2, <1>3, <1>4, <1>5, <1>6, <1>7, <1>8, GatewayCases DEF Arrival, Intake

LEMMA AtWorkStep ==
  ASSUME GatewayTypes, AtWork, GatewayNext PROVE AtWork'
<1> USE GatewayAssumption DEF intakeVars
<1>0. worker \in WorkerStates /\ mintSeq \in 0 .. MaxTaskSeq
  BY DEF GatewayTypes, WorkerTypes
<1>1. CASE Arrival
  BY <1>1 DEF Arrival, Arrive, getUpdates, PassOn, AtWork
<1>2. CASE ReceiveInbound
  <2>1. inbound # <<>>
    BY <1>2 DEF ReceiveInbound
  <2>2. Head(inbound) \in Messages
    BY <2>1, HeadIs DEF GatewayTypes, IntakeTypes
  <2>3. Head(inbound) # 0
    BY <2>2 DEF Messages
  <2>4. CASE worker' = NoInbound
    BY <2>4, NoInboundIs DEF AtWork
  <2>5. ASSUME NEW x, worker' = [NoInbound EXCEPT !.msg = Head(inbound), !.session = x,
                                  !.step = IF x = 0 THEN "ensure" ELSE "submit"]
        PROVE AtWork'
    <3>1. worker'.msg = Head(inbound) /\ worker'.step \in {"ensure", "submit"}
      BY <2>5 DEF NoInbound
    <3> QED BY <2>3, <3>1 DEF AtWork
  <2> QED BY <1>2, <2>4, <2>5 DEF ReceiveInbound
<1>3. CASE EnsureSession
  <2>1. worker' = [worker EXCEPT !.session = madeSessions + 1, !.step = "bind"] \/ worker' = NoInbound
    BY <1>3 DEF EnsureSession, Drop
  <2> QED BY <1>0, <1>3, <2>1, NoInboundIs DEF EnsureSession, AtWork, WorkerStates
<1>4. CASE Bind
  <2>1. worker' = [worker EXCEPT !.step = "submit"] \/ worker' = NoInbound
    BY <1>4 DEF Bind, Drop, At
  <2> QED BY <1>0, <1>4, <2>1, NoInboundIs DEF Bind, AtWork, WorkerStates
<1>5. CASE SubmitTask
  <2>1. mintSeq + 1 \in 1 .. MaxTaskSeq /\ mintSeq' = mintSeq + 1
    BY <1>0, <1>5 DEF SubmitTask
  <2>2. mintTaskID \in TaskIds /\ mintTaskID[2] = mintSeq + 1
    BY <1>5, <2>1, WorkerIs DEF mintTaskID, TaskIds, SubmitTask
  <2>3. worker' = [worker EXCEPT !.id = mintTaskID, !.step = "track"] \/ worker' = NoInbound
    BY <1>5 DEF SubmitTask, Drop
  <2>4. CASE worker' = NoInbound
    BY <2>4, NoInboundIs DEF AtWork
  <2>5. CASE worker' = [worker EXCEPT !.id = mintTaskID, !.step = "track"]
    <3>1. worker'.id = mintTaskID /\ worker'.step = "track" /\ worker'.msg = worker.msg
      BY <1>0, <2>5 DEF WorkerStates
    <3>2. worker.msg # 0
      BY <1>5 DEF SubmitTask, AtWork
    <3> QED BY <2>1, <2>2, <3>1, <3>2 DEF AtWork
  <2> QED BY <2>3, <2>4, <2>5
<1>6. CASE StartTracking
  BY <1>6, NoInboundIs DEF StartTracking, AtWork
<1>7. CASE CoreStep
  BY <1>7 DEF CoreStep, CoreRestart, ResumeTask, EndTask, AtWork
<1>8. CASE Delivery
  BY <1>8 DEF Delivery, Send, TaskResult, AtWork
<1>9. CASE GatewayCrash
  BY <1>9, NoInboundIs DEF GatewayCrash, AtWork
<1> QED BY <1>1, <1>2, <1>3, <1>4, <1>5, <1>6, <1>7, <1>8, <1>9, GatewayCases DEF Intake

\* What a chunk sent, or not, may change: the task under delivery and no other.
LEMMA SendIs ==
  ASSUME GatewayTypes, Results, Send
  PROVE  /\ poll # NoPoll /\ poll.id \in TaskIds /\ poll.chunk \in 1 .. Chunks /\ Tracked(poll.id)
         /\ settled \subseteq settled'
         /\ \A d \in TaskIds \ {poll.id} : tracker'[d] = tracker[d]
         /\ shown' \in {shown, [shown EXCEPT ![tracker[poll.id].msg] = Append(@, <<resultOf[poll.id], poll.chunk>>)]}
         /\ \/ tracker'[poll.id] = Untracked /\ poll' = NoPoll /\ settled' = settled \cup {tracker[poll.id].msg}
            \/ /\ tracker'[poll.id].msg = tracker[poll.id].msg /\ tracker'[poll.id].attempts = tracker[poll.id].attempts + 1
               /\ tracker'[poll.id] # Untracked /\ tracker[poll.id].attempts + 1 < Retries /\ poll' = NoPoll
            \/ /\ tracker' = tracker /\ poll.chunk # Chunks /\ poll' = [poll EXCEPT !.chunk = @ + 1]
               /\ shown' = [shown EXCEPT ![tracker[poll.id].msg] = Append(@, <<resultOf[poll.id], poll.chunk>>)]
<1> USE GatewayAssumption
<1>1. poll # NoPoll /\ poll.id \in TaskIds /\ poll.chunk \in 1 .. Chunks /\ Tracked(poll.id)
  BY PollIs DEF Send, Results
<1>8. settled \subseteq settled'
  BY DEF Send, Took
<1>2. tracker[poll.id] \in Deliveries /\ tracker \in [TaskIds -> Deliveries \cup {Untracked}]
  BY <1>1, TrackedIs DEF GatewayTypes, TrackTypes
<1>3. shown' \in {shown, [shown EXCEPT ![tracker[poll.id].msg] = Append(@, <<resultOf[poll.id], poll.chunk>>)]}
  BY DEF Send
<1>4. \/ tracker' = [tracker EXCEPT ![poll.id] = Untracked] /\ poll' = NoPoll /\ settled' = settled \cup {tracker[poll.id].msg}
      \/ /\ tracker' = [tracker EXCEPT ![poll.id].attempts = @ + 1] /\ poll' = NoPoll
         /\ ~(tracker[poll.id].attempts + 1 >= Retries)
      \/ /\ tracker' = tracker /\ poll.chunk # Chunks /\ poll' = [poll EXCEPT !.chunk = @ + 1]
         /\ shown' = [shown EXCEPT ![tracker[poll.id].msg] = Append(@, <<resultOf[poll.id], poll.chunk>>)]
  BY DEF Send, Took, GivenUp
<1>5. CASE tracker' = [tracker EXCEPT ![poll.id] = Untracked] /\ poll' = NoPoll /\ settled' = settled \cup {tracker[poll.id].msg}
  <2>1. tracker'[poll.id] = Untracked /\ \A d \in TaskIds \ {poll.id} : tracker'[d] = tracker[d]
    BY <1>1, <1>2, <1>5
  <2> QED BY <1>1, <1>3, <1>5, <1>8, <2>1 DEF Tracked
<1>6. CASE /\ tracker' = [tracker EXCEPT ![poll.id].attempts = @ + 1] /\ poll' = NoPoll
           /\ ~(tracker[poll.id].attempts + 1 >= Retries)
  <2>1. tracker'[poll.id] = [tracker[poll.id] EXCEPT !.attempts = @ + 1]
    BY <1>1, <1>2, <1>6
  <2>2. \A d \in TaskIds \ {poll.id} : tracker'[d] = tracker[d]
    BY <1>1, <1>2, <1>6
  <2>3. tracker'[poll.id].msg = tracker[poll.id].msg /\ tracker'[poll.id].attempts = tracker[poll.id].attempts + 1
    BY <1>2, <2>1 DEF Deliveries
  <2>4. tracker[poll.id].attempts + 1 < Retries
    BY <1>2, <1>6 DEF Deliveries
  <2>5. [tracker[poll.id] EXCEPT !.attempts = @ + 1] \in Deliveries
    BY <1>2 DEF Deliveries
  <2>6. tracker'[poll.id] # Untracked
    BY <2>1, <2>5 DEF Deliveries
  <2> QED BY <1>1, <1>3, <1>6, <1>8, <2>2, <2>3, <2>4, <2>6
<1>7. CASE /\ tracker' = tracker /\ poll.chunk # Chunks /\ poll' = [poll EXCEPT !.chunk = @ + 1]
           /\ shown' = [shown EXCEPT ![tracker[poll.id].msg] = Append(@, <<resultOf[poll.id], poll.chunk>>)]
  BY <1>1, <1>3, <1>7, <1>8
<1> QED BY <1>4, <1>5, <1>6, <1>7

\* What asking for a task's result may change.
LEMMA TaskResultIs ==
  ASSUME GatewayTypes, NEW id \in TaskIds, TaskResult(id)
  PROVE  /\ poll = NoPoll /\ Tracked(id) /\ taskOf[id].status \in Final /\ settled \subseteq settled'
         /\ \A d \in TaskIds \ {id} : tracker'[d] = tracker[d]
         /\ \/ ~Tracked(id)' /\ poll' = NoPoll /\ settled' = settled \cup {tracker[id].msg}
            \/ tracker' = tracker /\ resultOf[id] # 0 /\ poll' = [id |-> id, chunk |-> 1]
<1>1. tracker \in [TaskIds -> Deliveries \cup {Untracked}]
  BY DEF GatewayTypes, TrackTypes
<1>2. \/ tracker' = [tracker EXCEPT ![id] = Untracked] /\ poll' = poll /\ settled' = settled \cup {tracker[id].msg}
      \/ tracker' = tracker /\ resultOf[id] # 0 /\ poll' = [id |-> id, chunk |-> 1]
  BY DEF TaskResult, NothingToSend, Took, firstChunk
<1>3. poll = NoPoll /\ Tracked(id) /\ taskOf[id].status \in Final /\ settled \subseteq settled'
  BY DEF TaskResult, Tracked, NothingToSend, Took
<1> QED BY <1>1, <1>2, <1>3 DEF Tracked

\* A delivery under way: tasks may cease to be tracked, and keep their message.
LEMMA DeliveryIs ==
  ASSUME GatewayTypes, Results, Delivery
  PROVE  /\ UNCHANGED <<telegramVars, intakeVars, binding, coreVars, lost, submissions>>
         /\ \A id \in TaskIds : Tracked(id)' => Tracked(id) /\ tracker'[id].msg = tracker[id].msg
<1>1. UNCHANGED <<telegramVars, intakeVars, binding, coreVars, lost, submissions>>
  BY DEF Delivery, Send, TaskResult
<1>2. CASE Send
  <2>1. ASSUME NEW id \in TaskIds, Tracked(id)' PROVE Tracked(id) /\ tracker'[id].msg = tracker[id].msg
    <3>1. CASE id = poll.id
      BY <1>2, <2>1, <3>1, SendIs DEF Tracked
    <3>2. CASE id # poll.id
      BY <1>2, <2>1, <3>2, SendIs DEF Tracked
    <3> QED BY <3>1, <3>2
  <2> QED BY <1>1, <2>1
<1>3. ASSUME NEW t \in TaskIds, TaskResult(t)
      PROVE  \A id \in TaskIds : Tracked(id)' => Tracked(id) /\ tracker'[id].msg = tracker[id].msg
  BY <1>3, TaskResultIs DEF Tracked
<1> QED BY <1>1, <1>2, <1>3 DEF Delivery

\* A message that leaves the worker or the tracker makes room for none: who is in
\* one place stays in one.
LEMMA OnePlaceStep ==
  ASSUME GatewayTypes, Fetched, AtWork, OnePlace, Results, GatewayNext PROVE OnePlace'
<1> USE GatewayAssumption DEF telegramVars, gatewayGhosts, intakeVars
<1>0. /\ worker \in WorkerStates /\ mintSeq \in Nat /\ offset \in Nat /\ inbound \in Seq(Messages) /\ Len(inbound) \in Nat
      /\ tracker \in [TaskIds -> Deliveries \cup {Untracked}] /\ batch \in Seq(Messages)
  BY DEF GatewayTypes, WorkerTypes, IntakeTypes, TrackTypes
<1>1. CASE Arrive \/ getUpdates
  BY <1>1 DEF Arrive, getUpdates, OnePlace, Tracked
<1>2. CASE PassOn
  <2>1. batch # <<>> /\ offset' = Head(batch) /\ inbound' = Append(inbound, Head(batch))
    BY <1>2 DEF PassOn
  <2>2. Len(batch) >= 1 /\ Head(batch) = batch[1] /\ batch[1] \in Messages
    BY <1>0, <2>1, HeadIs
  <2>3. batch[1] = Top + 1
    BY <1>0, <2>2 DEF Fetched
  <2>4. offset' > offset /\ offset' \in Nat
    BY <2>1, <2>2, <2>3, <1>0 DEF Top, GatewayTypes, IntakeTypes
  <2>5. /\ Len(inbound') = Len(inbound) + 1 /\ inbound'[Len(inbound) + 1] = offset'
        /\ \A i \in 1 .. Len(inbound) : inbound'[i] = inbound[i] /\ inbound[i] \in Nat
    BY <1>0, <2>1, <2>2 DEF Messages
  <2>6. worker' = worker /\ tracker' = tracker /\ mintSeq' = mintSeq /\ worker.msg \in Nat
    BY <1>0, <1>2 DEF PassOn, WorkerStates, Messages
  <2>7. \A i \in 1 .. Len(inbound') : i \in 1 .. Len(inbound) \/ i = Len(inbound) + 1
    BY <1>0, <2>5
  <2>8. \A i \in 1 .. Len(inbound') : inbound'[i] <= offset' /\ inbound'[i] # worker'.msg
    BY <2>4, <2>5, <2>6, <2>7, <1>0 DEF OnePlace
  <2>9. \A i, j \in 1 .. Len(inbound') : inbound'[i] = inbound'[j] => i = j
    BY <2>4, <2>5, <2>7, <1>0 DEF OnePlace
  <2>10. ASSUME NEW id \in TaskIds, Tracked(id)
         PROVE  tracker[id].msg <= offset' /\ \A i \in 1 .. Len(inbound') : inbound'[i] # tracker[id].msg
    <3>1. tracker[id].msg \in Nat
      BY <2>10, TrackedIs DEF Messages
    <3> QED BY <2>4, <2>5, <2>7, <2>10, <3>1, <1>0 DEF OnePlace
  <2>11. worker'.msg <= offset'
    BY <2>4, <2>6, <1>0 DEF OnePlace
  <2> QED BY <2>6, <2>8, <2>9, <2>10, <2>11 DEF OnePlace, Tracked
<1>3. CASE ReceiveInbound
  <2>1. inbound # <<>> /\ inbound' = Tail(inbound) /\ tracker' = tracker /\ offset' = offset /\ mintSeq' = mintSeq
        /\ worker = NoInbound
    BY <1>3 DEF ReceiveInbound
  <2>2. /\ Len(inbound) >= 1 /\ Head(inbound) = inbound[1] /\ Len(Tail(inbound)) = Len(inbound) - 1
        /\ \A i \in 1 .. Len(inbound) - 1 : Tail(inbound)[i] = inbound[i + 1]
    BY <1>0, <2>1, HeadIs
  <2>3. \A i \in 1 .. Len(inbound') : i + 1 \in 1 .. Len(inbound) /\ i + 1 # 1 /\ inbound'[i] = inbound[i + 1]
    BY <1>0, <2>1, <2>2
  <2>4. 1 \in 1 .. Len(inbound)
    BY <1>0, <2>2
  <2>5. worker'.msg \in {0, inbound[1]} /\ worker'.id = NoTask
    <3>1. CASE worker' = NoInbound
      BY <3>1, NoInboundIs
    <3>2. ASSUME NEW x, worker' = [NoInbound EXCEPT !.msg = Head(inbound), !.session = x,
                                    !.step = IF x = 0 THEN "ensure" ELSE "submit"]
          PROVE  worker'.msg \in {0, inbound[1]} /\ worker'.id = NoTask
      BY <2>2, <3>2 DEF NoInbound
    <3> QED BY <1>3, <3>1, <3>2 DEF ReceiveInbound
  <2>6. \A i \in 1 .. Len(inbound') : inbound'[i] <= offset' /\ inbound'[i] # worker'.msg
    <3>1. \A i \in 1 .. Len(inbound) : inbound[i] # 0
      BY <1>0 DEF Messages
    <3> QED BY <2>1, <2>3, <2>4, <2>5, <3>1 DEF OnePlace
  <2>7. \A i, j \in 1 .. Len(inbound') : inbound'[i] = inbound'[j] => i = j
    <3>1. ASSUME NEW i \in 1 .. Len(inbound'), NEW j \in 1 .. Len(inbound'), inbound'[i] = inbound'[j]
          PROVE  i = j
      <4>1. i + 1 = j + 1
        BY <2>3, <3>1 DEF OnePlace
      <4> QED BY <4>1, <2>1, <2>2, <1>0
    <3> QED BY <3>1
  <2>8. worker'.msg <= offset'
    BY <1>0, <2>1, <2>4, <2>5 DEF OnePlace
  <2>9. ASSUME NEW id \in TaskIds, Tracked(id)
        PROVE  /\ tracker[id].msg # worker'.msg /\ id # worker'.id
               /\ \A i \in 1 .. Len(inbound') : inbound'[i] # tracker[id].msg
    <3>1. tracker[id].msg # 0
      BY <2>9, TrackedIs DEF Messages
    <3> QED BY <2>3, <2>4, <2>5, <2>9, <3>1 DEF OnePlace
  <2> QED BY <2>1, <2>6, <2>7, <2>8, <2>9 DEF OnePlace, Tracked
<1>4. CASE EnsureSession \/ Bind
  <2>1. worker' = NoInbound \/ (worker'.msg = worker.msg /\ worker'.id = worker.id)
    BY <1>0, <1>4 DEF EnsureSession, Bind, Drop, At, WorkerStates
  <2>2. UNCHANGED <<inbound, tracker, offset, mintSeq>>
    BY <1>4 DEF EnsureSession, Bind
  <2>3. \A i \in 1 .. Len(inbound) : inbound[i] # 0
    BY <1>0 DEF Messages
  <2>4. \A id \in TaskIds : Tracked(id) => tracker[id].msg # 0
    BY TrackedIs DEF Messages
  <2> QED BY <2>1, <2>2, <2>3, <2>4, <1>0, NoInboundIs DEF OnePlace, Tracked
<1>5. CASE SubmitTask
  <2>1. mintSeq' = mintSeq + 1 /\ UNCHANGED <<inbound, tracker, offset>>
    BY <1>5 DEF SubmitTask
  <2>2. worker' = [worker EXCEPT !.id = mintTaskID, !.step = "track"] \/ worker' = NoInbound
    BY <1>5 DEF SubmitTask, Drop
  <2>3. worker' = NoInbound \/ (worker'.msg = worker.msg /\ worker'.id = <<chatOf[worker.msg], mintSeq + 1>>)
    BY <1>0, <2>2 DEF mintTaskID, WorkerStates
  <2>4. \A i \in 1 .. Len(inbound) : inbound[i] # 0
    BY <1>0 DEF Messages
  <2>5. ASSUME NEW id \in TaskIds, Tracked(id)
        PROVE  tracker[id].msg # 0 /\ id[2] <= mintSeq' /\ id # worker'.id
    <3>1. id[2] \in Nat /\ id[2] <= mintSeq
      BY <2>5 DEF OnePlace, TaskIds
    <3>2. tracker[id].msg # 0
      BY <2>5, TrackedIs DEF Messages
    <3>3. id # worker'.id
      BY <1>0, <2>3, <3>1, NoInboundIs
    <3> QED BY <1>0, <2>1, <3>1, <3>2, <3>3
  <2> QED BY <2>1, <2>3, <2>4, <2>5, <1>0, NoInboundIs DEF OnePlace, Tracked
<1>6. CASE StartTracking
  <2>1. worker.step = "track" /\ worker' = NoInbound /\ UNCHANGED <<inbound, offset, mintSeq>>
        /\ tracker' = [tracker EXCEPT ![worker.id] = [msg |-> worker.msg, attempts |-> 0]]
    BY <1>6 DEF StartTracking, Track
  <2>2. worker.id \in TaskIds /\ worker.id[2] <= mintSeq /\ worker.msg \in Messages /\ worker.msg # 0
    BY <2>1, WorkerIs DEF AtWork, Messages
  <2>3. tracker'[worker.id].msg = worker.msg /\ \A id \in TaskIds \ {worker.id} : tracker'[id] = tracker[id]
    BY <1>0, <2>1, <2>2
  <2>4. \A i \in 1 .. Len(inbound) : inbound[i] # 0
    BY <1>0 DEF Messages
  <2>5. ASSUME NEW id \in TaskIds, Tracked(id)'
        PROVE  /\ tracker'[id].msg <= offset /\ tracker'[id].msg # 0
               /\ \A i \in 1 .. Len(inbound) : inbound[i] # tracker'[id].msg
               /\ id[2] <= mintSeq /\ id # NoTask
               /\ \A other \in TaskIds : Tracked(other)' /\ tracker'[other].msg = tracker'[id].msg => other = id
    <3>1. id # NoTask
      OBVIOUS
    <3>2. CASE id = worker.id
      <4>1. tracker'[id].msg = worker.msg
        BY <2>3, <3>2
      <4>2. \A other \in TaskIds \ {id} : Tracked(other)' => tracker'[other].msg # worker.msg
        BY <2>3, <3>2 DEF OnePlace, Tracked
      <4> QED BY <2>2, <3>1, <3>2, <4>1, <4>2 DEF OnePlace
    <3>3. CASE id # worker.id
      <4>1. Tracked(id) /\ tracker'[id] = tracker[id]
        BY <2>3, <2>5, <3>3 DEF Tracked
      <4>2. \A other \in TaskIds : Tracked(other)' /\ tracker'[other].msg = tracker'[id].msg => other = id
        BY <2>3, <4>1 DEF OnePlace, Tracked
      <4>3. tracker[id].msg # 0
        BY <4>1, TrackedIs DEF Messages
      <4> QED BY <3>1, <4>1, <4>2, <4>3 DEF OnePlace
    <3> QED BY <3>2, <3>3
  <2> QED BY <2>1, <2>4, <2>5, <1>0, NoInboundIs DEF OnePlace
<1>7. CASE CoreStep
  BY <1>7 DEF CoreStep, CoreRestart, ResumeTask, EndTask, OnePlace, Tracked
<1>8. CASE Delivery
  <2>1. UNCHANGED <<inbound, offset, mintSeq, worker>>
    BY <1>8, DeliveryIs
  <2>2. \A id \in TaskIds : Tracked(id)' => Tracked(id) /\ tracker'[id].msg = tracker[id].msg
    BY <1>8, DeliveryIs
  <2> QED BY <2>1, <2>2 DEF OnePlace
<1>9. CASE GatewayCrash
  BY <1>9, NoInboundIs DEF GatewayCrash, OnePlace, Tracked
<1> QED BY <1>1, <1>2, <1>3, <1>4, <1>5, <1>6, <1>7, <1>8, <1>9, GatewayCases DEF Arrival, Intake

\* A chat keeps its session: a binding is written once, with a session no other has.
LEMMA BoundStep ==
  ASSUME GatewayTypes, AtWork, Bound, Results, GatewayNext PROVE Bound'
<1> USE GatewayAssumption DEF intakeVars, telegramVars, coreVars, gatewayGhosts
<1>0. /\ worker \in WorkerStates /\ binding \in [ImChats -> Nat] /\ madeSessions \in Nat
      /\ chatOf \in [Messages -> ImChats] /\ taskOf \in [TaskIds -> CoreTasks] /\ inbound \in Seq(Messages)
  BY DEF GatewayTypes, WorkerTypes, CoreTypes, IntakeTypes
<1>1. CASE Arrival
  BY <1>1 DEF Arrival, Arrive, getUpdates, PassOn, Bound
<1>2. CASE ReceiveInbound
  <2>1. UNCHANGED <<chatOf, binding, madeSessions, taskOf>>
    BY <1>2 DEF ReceiveInbound
  <2>2. CASE worker' = NoInbound
    BY <2>1, <2>2, NoInboundIs DEF Bound
  <2>3. CASE worker' # NoInbound
    <3>1. Head(inbound) \in Messages /\ chatOf[Head(inbound)] \in ImChats
      <4>1. inbound # <<>>
        BY <1>2 DEF ReceiveInbound
      <4> QED BY <1>0, <4>1, HeadIs
    <3>2. worker' = [NoInbound EXCEPT !.msg = Head(inbound), !.session = binding[chatOf[Head(inbound)]],
                       !.step = IF binding[chatOf[Head(inbound)]] = 0 THEN "ensure" ELSE "submit"]
      BY <1>2, <2>3 DEF ReceiveInbound, BoundTo
    <3>3. /\ worker'.msg = Head(inbound) /\ worker'.session = binding[chatOf[Head(inbound)]]
          /\ worker'.step = IF binding[chatOf[Head(inbound)]] = 0 THEN "ensure" ELSE "submit"
      BY <3>2 DEF NoInbound
    <3> QED BY <2>1, <3>1, <3>3 DEF Bound
  <2> QED BY <2>2, <2>3
<1>3. CASE EnsureSession
  <2>1. UNCHANGED <<chatOf, binding, taskOf>> /\ madeSessions' \in {madeSessions, madeSessions + 1}
    BY <1>3 DEF EnsureSession
  <2>2. \A c \in ImChats : binding[c] <= madeSessions'
    BY <1>0, <2>1 DEF Bound
  <2>3. CASE worker' = NoInbound
    BY <2>1, <2>2, <2>3, NoInboundIs DEF Bound
  <2>4. CASE worker' = [worker EXCEPT !.session = madeSessions + 1, !.step = "bind"] /\ madeSessions' = madeSessions + 1
    <3>1. worker'.msg = worker.msg /\ worker'.session = madeSessions + 1 /\ worker'.step = "bind"
      BY <1>0, <2>4 DEF WorkerStates
    <3>2. binding[chatOf[worker.msg]] = 0
      BY <1>3 DEF EnsureSession, Bound
    <3>3. worker'.session \in 1 .. madeSessions' /\ \A c \in ImChats : binding[c] # worker'.session
      BY <1>0, <2>4, <3>1 DEF Bound
    <3> QED BY <2>1, <2>2, <3>1, <3>2, <3>3 DEF Bound
  <2> QED BY <1>3, <2>3, <2>4 DEF EnsureSession, Drop
<1>4. CASE Bind
  <2>1. UNCHANGED <<chatOf, madeSessions, taskOf>> /\ worker.step = "bind"
    BY <1>4 DEF Bind
  <2>2. CASE worker' = NoInbound /\ binding' = binding
    BY <2>1, <2>2, NoInboundIs DEF Bound
  <2>3. CASE binding' = [binding EXCEPT ![chatOf[worker.msg]] = worker.session] /\ worker' = [worker EXCEPT !.step = "submit"]
    <3> DEFINE chat == chatOf[worker.msg]
    <3>1. worker'.msg = worker.msg /\ worker'.session = worker.session /\ worker'.step = "submit"
      BY <1>0, <2>3 DEF WorkerStates
    <3>2. chat \in ImChats
      BY <2>1, WorkerIs
    <3>3. binding'[chat] = worker.session /\ \A c \in ImChats \ {chat} : binding'[c] = binding[c]
      BY <1>0, <2>3, <3>2
    <3>4. binding[chat] = 0 /\ worker.session \in 1 .. madeSessions /\ \A c \in ImChats : binding[c] # worker.session
      BY <2>1 DEF Bound
    <3> HIDE DEF chat
    <3>5. \A c \in ImChats : binding'[c] <= madeSessions
      <4>1. \A c \in ImChats \ {chat} : binding'[c] <= madeSessions
        BY <3>3 DEF Bound
      <4>2. binding'[chat] <= madeSessions
        BY <1>0, <3>3, <3>4
      <4> QED BY <4>1, <4>2
    <3>6. \A c, d \in ImChats : binding'[c] = binding'[d] /\ binding'[c] # 0 => c = d
      BY <3>3, <3>4 DEF Bound
    <3>7. ASSUME NEW id \in TaskIds, taskOf[id] # NoCoreTask
          PROVE  taskOf[id].session # 0 /\ taskOf[id].session = binding'[id[1]]
      <4>1. id[1] \in ImChats
        BY DEF TaskIds
      <4> QED BY <3>3, <3>4, <3>7, <4>1 DEF Bound
    <3>8. worker'.session # 0 /\ worker'.session = binding'[chatOf'[worker'.msg]]
      BY <2>1, <3>1, <3>3, <3>4 DEF chat
    <3> QED BY <2>1, <3>1, <3>5, <3>6, <3>7, <3>8 DEF Bound
  <2> QED BY <1>4, <2>2, <2>3 DEF Bind, Drop, At
<1>5. CASE SubmitTask
  <2>1. UNCHANGED <<chatOf, madeSessions, binding>> /\ worker.step = "submit"
    BY <1>5 DEF SubmitTask
  <2>2. worker.session # 0 /\ worker.session = binding[chatOf[worker.msg]]
    BY <2>1 DEF Bound
  <2>3. CASE worker' = NoInbound /\ taskOf' = taskOf
    BY <2>1, <2>3, NoInboundIs DEF Bound
  <2>4. CASE taskOf' = [taskOf EXCEPT ![mintTaskID] = [msg |-> worker.msg, session |-> worker.session, status |-> "pending"]]
    <3>1. \A id \in TaskIds : taskOf'[id] # NoCoreTask => taskOf'[id].session # 0 /\ taskOf'[id].session = binding[id[1]]
      <4>1. mintTaskID[1] = chatOf[worker.msg]
        BY DEF mintTaskID
      <4>2. ASSUME NEW id \in TaskIds, id = mintTaskID PROVE taskOf'[id].session = worker.session
        BY <1>0, <2>4, <4>2
      <4>3. ASSUME NEW id \in TaskIds, id # mintTaskID PROVE taskOf'[id] = taskOf[id]
        BY <1>0, <2>4, <4>3
      <4> QED BY <2>2, <4>1, <4>2, <4>3 DEF Bound
    <3>2. worker' = NoInbound \/ worker' = [worker EXCEPT !.id = mintTaskID, !.step = "track"]
      BY <1>5 DEF SubmitTask, Drop
    <3>3. worker'.step = "idle" \/ (worker'.step = "track" /\ worker'.msg = worker.msg /\ worker'.session = worker.session)
      BY <1>0, <3>2, NoInboundIs DEF WorkerStates
    <3> QED BY <2>1, <2>2, <3>1, <3>3 DEF Bound
  <2> QED BY <1>5, <2>3, <2>4 DEF SubmitTask, Drop
<1>6. CASE StartTracking
  BY <1>6, NoInboundIs DEF StartTracking, Bound
<1>7. CASE CoreRestart
  BY <1>7 DEF CoreRestart, Bound
<1>8. ASSUME NEW id \in TaskIds, ResumeTask(id) \/ \E status \in Final : EndTask(id, status) PROVE Bound'
  <2>1. UNCHANGED <<chatOf, madeSessions, binding, worker>> /\ taskOf[id].status # "none"
    BY <1>8 DEF ResumeTask, EndTask
  <2>2. \A d \in TaskIds : taskOf'[d].session = taskOf[d].session /\ (taskOf'[d] # NoCoreTask => taskOf[d] # NoCoreTask)
    <3>1. PICK status : taskOf' = [taskOf EXCEPT ![id].status = status]
      BY <1>8 DEF ResumeTask, EndTask
    <3>2. \A d \in TaskIds : d # id => taskOf'[d] = taskOf[d]
      BY <1>0, <3>1
    <3>3. taskOf'[id] = [taskOf[id] EXCEPT !.status = status] /\ taskOf[id] \in CoreTasks
      BY <1>0, <3>1
    <3>4. taskOf'[id].session = taskOf[id].session
      BY <3>3 DEF CoreTasks
    <3>5. taskOf[id] # NoCoreTask
      BY <2>1 DEF NoCoreTask
    <3> QED BY <3>2, <3>4, <3>5
  <2> QED BY <2>1, <2>2 DEF Bound
<1>9. CASE Delivery
  BY <1>9, DeliveryIs DEF Bound
<1>10. CASE GatewayCrash
  BY <1>10, NoInboundIs DEF GatewayCrash, Bound
<1> QED BY <1>1, <1>2, <1>3, <1>4, <1>5, <1>6, <1>7, <1>8, <1>9, <1>10, GatewayCases DEF Intake, CoreStep

\* A task's answer changes only while it runs; a delivery is of one that does not.
LEMMA ResultsStep ==
  ASSUME GatewayTypes, AtWork, OnePlace, Results, GatewayNext PROVE Results'
<1> USE GatewayAssumption DEF intakeVars, telegramVars, coreVars, gatewayGhosts
<1>0. /\ taskOf \in [TaskIds -> CoreTasks] /\ resultOf \in [TaskIds -> Messages \cup {0}] /\ worker \in WorkerStates
      /\ tracker \in [TaskIds -> Deliveries \cup {Untracked}]
  BY DEF GatewayTypes, CoreTypes, WorkerTypes, TrackTypes
<1>1. CASE Arrival
  BY <1>1 DEF Arrival, Arrive, getUpdates, PassOn, Results, Tracked
<1>2. CASE ReceiveInbound \/ EnsureSession \/ Bind
  BY <1>2 DEF ReceiveInbound, EnsureSession, Bind, Results, Tracked
<1>3. CASE SubmitTask
  <2>1. UNCHANGED <<tracker, poll, resultOf>>
    BY <1>3 DEF SubmitTask
  <2>2. CASE taskOf' = taskOf
    BY <2>1, <2>2 DEF Results, Tracked
  <2>3. CASE taskOf' = [taskOf EXCEPT ![mintTaskID] = [msg |-> worker.msg, session |-> worker.session, status |-> "pending"]]
    <3>1. worker.msg \in Messages
      BY <1>3, WorkerIs DEF SubmitTask
    <3>2. ~Tracked(mintTaskID) \/ mintTaskID \notin TaskIds
      <4>1. mintTaskID[2] = mintSeq + 1 /\ mintSeq \in Nat
        BY DEF mintTaskID, GatewayTypes, WorkerTypes
      <4>2. ~(mintSeq + 1 <= mintSeq)
        BY <4>1
      <4> QED BY <4>1, <4>2 DEF OnePlace
    <3>3. \A id \in TaskIds : id # mintTaskID => taskOf'[id] = taskOf[id]
      BY <1>0, <2>3
    <3>4. mintTaskID \in TaskIds => taskOf'[mintTaskID].status = "pending" /\ taskOf'[mintTaskID].msg = worker.msg
      BY <1>0, <2>3
    <3>5. poll # NoPoll => poll.id # mintTaskID
      BY <3>2, PollIs DEF Results
    <3>6. ASSUME NEW id \in TaskIds
          PROVE  /\ taskOf'[id].status = "suspended" => resultOf[id] = 0
                 /\ taskOf'[id].status # "none" => taskOf'[id].msg \in Messages
      BY <3>1, <3>3, <3>4 DEF Results
    <3>7. poll # NoPoll => taskOf'[poll.id].status \in {"done", "failed"}
      BY <3>3, <3>5, PollIs DEF Results
    <3> QED BY <2>1, <3>6, <3>7 DEF Results, Tracked
  <2> QED BY <1>3, <2>2, <2>3 DEF SubmitTask
<1>4. CASE StartTracking
  <2>1. tracker' = [tracker EXCEPT ![worker.id] = [msg |-> worker.msg, attempts |-> 0]] /\ UNCHANGED <<poll, taskOf, resultOf>>
    BY <1>4 DEF StartTracking, Track
  <2>2. worker.id \in TaskIds /\ worker.msg \in Messages
    BY <1>4, WorkerIs DEF StartTracking, AtWork
  <2>3. /\ \A id \in TaskIds : id # worker.id => tracker'[id] = tracker[id]
        /\ tracker'[worker.id] = [msg |-> worker.msg, attempts |-> 0]
    BY <1>0, <2>1, <2>2
  <2>4. tracker'[worker.id] \in Deliveries
    BY <2>2, <2>3 DEF Deliveries
  <2>5. tracker'[worker.id] # Untracked /\ tracker'[worker.id].attempts < Retries
    BY <2>3, <2>4 DEF Deliveries
  <2>6. \A id \in TaskIds : (tracker[id] # Untracked => tracker'[id] # Untracked)
                            /\ (tracker'[id] # Untracked => tracker'[id].attempts < Retries)
    BY <2>3, <2>5 DEF Results, Tracked
  <2> QED BY <2>1, <2>6, PollIs DEF Results, Tracked
<1>5. CASE CoreRestart
  BY <1>5 DEF CoreRestart, Results, Tracked
<1>6. ASSUME NEW t \in TaskIds, NEW old, NEW new, taskOf[t].status = old, taskOf' = [taskOf EXCEPT ![t].status = new],
             old \in {"pending", "suspended"}, UNCHANGED <<tracker, poll>>,
             \A id \in TaskIds : id # t => resultOf'[id] = resultOf[id],
             new = "suspended" => resultOf'[t] = 0
      PROVE  Results'
  <2>1. \A id \in TaskIds : id # t => taskOf'[id] = taskOf[id]
    BY <1>0, <1>6
  <2>2. taskOf'[t] = [taskOf[t] EXCEPT !.status = new] /\ taskOf[t] \in CoreTasks
    BY <1>0, <1>6
  <2>3. taskOf'[t].status = new /\ taskOf'[t].msg = taskOf[t].msg
    BY <2>2 DEF CoreTasks
  <2>4. taskOf[t].msg \in Messages
    BY <1>6 DEF Results
  <2>5. ASSUME NEW id \in TaskIds
        PROVE  /\ taskOf'[id].status = "suspended" => resultOf'[id] = 0
               /\ taskOf'[id].status # "none" => taskOf'[id].msg \in Messages
    BY <1>6, <2>1, <2>3, <2>4 DEF Results
  <2>6. poll # NoPoll => poll.id # t /\ poll.id \in TaskIds
    BY <1>6, PollIs DEF Results
  <2>7. poll # NoPoll => taskOf'[poll.id] = taskOf[poll.id] /\ resultOf'[poll.id] = resultOf[poll.id]
    BY <1>6, <2>1, <2>6
  <2> QED BY <1>6, <2>5, <2>6, <2>7 DEF Results, Tracked
<1>7. ASSUME NEW id \in TaskIds, ResumeTask(id) PROVE Results'
  <2>1. taskOf[id].status = "suspended" /\ taskOf' = [taskOf EXCEPT ![id].status = "pending"]
        /\ UNCHANGED <<tracker, poll, resultOf>>
    BY <1>7 DEF ResumeTask
  <2>2. \A d \in TaskIds : d # id => resultOf'[d] = resultOf[d]
    BY <2>1
  <2>3. "pending" # "suspended"
    OBVIOUS
  <2>4. UNCHANGED <<tracker, poll>>
    BY <2>1
  <2> QED BY <2>1, <2>2, <2>3, <2>4, <1>6
<1>8. ASSUME NEW id \in TaskIds, NEW status \in Final, EndTask(id, status) PROVE Results'
  <2>1. taskOf[id].status = "pending" /\ taskOf' = [taskOf EXCEPT ![id].status = status] /\ UNCHANGED <<tracker, poll>>
    BY <1>8 DEF EndTask
  <2>2. \A d \in TaskIds : d # id => resultOf'[d] = resultOf[d]
    BY <1>0, <1>8 DEF EndTask
  <2>3. status = "suspended" => resultOf'[id] = 0
    BY <1>0, <1>8 DEF EndTask
  <2> QED BY <2>1, <2>2, <2>3, <1>6
<1>9. CASE Send
  <2>1. UNCHANGED <<taskOf, resultOf>>
    BY <1>9 DEF Send
  <2>2. \A id \in TaskIds : tracker'[id] # Untracked => tracker'[id].attempts < Retries
    <3>1. ASSUME NEW id \in TaskIds, tracker'[id] # Untracked PROVE tracker'[id].attempts < Retries
      <4>1. CASE id # poll.id
        BY <1>9, <3>1, <4>1, SendIs DEF Results, Tracked
      <4>2. CASE id = poll.id
        BY <1>9, <3>1, <4>2, SendIs DEF Results, Tracked
      <4> QED BY <4>1, <4>2
    <3> QED BY <3>1
  <2>3. poll' # NoPoll => tracker' = tracker /\ poll' = [poll EXCEPT !.chunk = @ + 1]
    BY <1>9, SendIs
  <2>4. poll' # NoPoll => poll'.id = poll.id
    <3>1. poll \in [id : TaskIds, chunk : 1 .. Chunks]
      BY <1>9, SendIs DEF GatewayTypes, TrackTypes
    <3> QED BY <2>3, <3>1
  <2> QED BY <1>9, <2>1, <2>2, <2>3, <2>4, SendIs DEF Results, Tracked
<1>10. ASSUME NEW t \in TaskIds, TaskResult(t) PROVE Results'
  <2>1. UNCHANGED <<taskOf, resultOf>>
    BY <1>10 DEF TaskResult
  <2>2. \A id \in TaskIds : tracker'[id] # Untracked => tracker'[id] = tracker[id]
    BY <1>10, TaskResultIs DEF Tracked
  <2>3. CASE poll' = NoPoll
    BY <2>1, <2>2, <2>3 DEF Results, Tracked
  <2>4. CASE tracker' = tracker /\ resultOf[t] # 0 /\ poll' = [id |-> t, chunk |-> 1]
    <3>1. poll'.id = t /\ Tracked(t) /\ taskOf[t].status \in Final
      BY <1>10, <2>4, TaskResultIs
    <3>2. taskOf[t].status \in {"done", "failed"}
      BY <2>4, <3>1 DEF Results, Final
    <3> QED BY <2>1, <2>2, <2>4, <3>1, <3>2 DEF Results, Tracked
  <2> QED BY <1>10, <2>3, <2>4, TaskResultIs
<1>11. CASE GatewayCrash
  BY <1>11 DEF GatewayCrash, Results, Tracked
<1> QED BY <1>1, <1>2, <1>3, <1>4, <1>5, <1>7, <1>8, <1>9, <1>10, <1>11, GatewayCases DEF Intake, CoreStep, Delivery

\* Nothing is forgotten if what was in memory stays there, is settled or is lost.
LEMMA AccountedKept ==
  ASSUME Accounted, Top' = Top, settled \subseteq settled', lost \subseteq lost',
         \A n \in InMemory : n \in InMemory' \cup settled' \cup lost'
  PROVE  Accounted'
<1> USE DEF Top
<1>1. \A n \in 1 .. Top : n \in InMemory \cup settled \cup lost
  BY DEF Accounted
<1>2. \A n \in 1 .. Top : n \in InMemory' \cup settled' \cup lost'
  <2> HIDE DEF Top
  <2> QED BY <1>1
<1>3. \A n \in 1 .. Top' : n \in InMemory' \cup settled' \cup lost'
  <2> HIDE DEF Top
  <2> QED BY <1>2
<1> QED BY <1>3 DEF Accounted

\* Where a message is held.
LEMMA HeldIs ==
  /\ \A i \in DOMAIN batch : batch[i] \in InMemory
  /\ \A i \in DOMAIN inbound : inbound[i] \in InMemory
  /\ worker.msg # 0 => worker.msg \in InMemory
  /\ \A t \in TaskIds : Tracked(t) => tracker[t].msg \in InMemory
  /\ \A n \in InMemory :
       \/ \E i \in DOMAIN batch : n = batch[i]
       \/ \E i \in DOMAIN inbound : n = inbound[i]
       \/ n = worker.msg /\ n # 0
       \/ \E t \in TaskIds : Tracked(t) /\ n = tracker[t].msg
<1>1. /\ \A i \in DOMAIN batch : batch[i] \in InMemory
      /\ \A i \in DOMAIN inbound : inbound[i] \in InMemory
  BY DEF InMemory
<1>2. worker.msg # 0 => worker.msg \in InMemory
  BY DEF InMemory
<1>3. \A t \in TaskIds : Tracked(t) => tracker[t].msg \in InMemory
  BY DEF InMemory, Tracked
<1>4. \A n \in InMemory :
        \/ \E i \in DOMAIN batch : n = batch[i]
        \/ \E i \in DOMAIN inbound : n = inbound[i]
        \/ n = worker.msg /\ n # 0
        \/ \E t \in TaskIds : Tracked(t) /\ n = tracker[t].msg
  BY DEF InMemory, Tracked
<1> QED BY <1>1, <1>2, <1>3, <1>4

\* The same places after a step.
LEMMA HeldNext ==
  /\ \A i \in DOMAIN batch' : batch'[i] \in InMemory'
  /\ \A i \in DOMAIN inbound' : inbound'[i] \in InMemory'
  /\ worker'.msg # 0 => worker'.msg \in InMemory'
  /\ \A t \in TaskIds : tracker'[t] # Untracked => tracker'[t].msg \in InMemory'
<1>1. /\ \A i \in DOMAIN batch' : batch'[i] \in InMemory'
      /\ \A i \in DOMAIN inbound' : inbound'[i] \in InMemory'
  BY DEF InMemory
<1>2. worker'.msg # 0 => worker'.msg \in InMemory'
  BY DEF InMemory
<1>3. \A t \in TaskIds : tracker'[t] # Untracked => tracker'[t].msg \in InMemory'
  BY DEF InMemory
<1> QED BY <1>1, <1>2, <1>3

LEMMA AccountedStep ==
  ASSUME GatewayTypes, Fetched, AtWork, OnePlace, Results, Accounted, GatewayNext PROVE Accounted'
<1> USE GatewayAssumption DEF intakeVars, telegramVars, gatewayGhosts
<1>0. /\ batch \in Seq(Messages) /\ inbound \in Seq(Messages) /\ worker \in WorkerStates
      /\ tracker \in [TaskIds -> Deliveries \cup {Untracked}] /\ confirmed \in Nat /\ offset \in Nat
  BY DEF GatewayTypes, IntakeTypes, WorkerTypes, TrackTypes
<1>1. CASE Arrive
  BY <1>1 DEF Arrive, Accounted, InMemory
<1>2. CASE getUpdates
  <2>1. batch = <<>> /\ UNCHANGED <<inbound, worker, tracker, settled, lost, offset>>
    BY <1>2 DEF getUpdates
  <2>2. confirmed' = Top
    BY <1>2 DEF getUpdates, Top
  <2>3. Top' = Top
    BY <1>0, <2>1, <2>2 DEF Top
  <2>4. ASSUME NEW n \in InMemory PROVE n \in InMemory'
    BY <2>1, <2>4, HeldIs, HeldNext DEF Tracked
  <2> QED BY <2>1, <2>3, <2>4, AccountedKept
<1>3. CASE PassOn
  <2>1. batch # <<>> /\ offset' = Head(batch) /\ batch' = Tail(batch) /\ inbound' = Append(inbound, Head(batch))
        /\ UNCHANGED <<confirmed, worker, tracker, settled, lost>>
    BY <1>3 DEF PassOn
  <2>2. /\ Len(batch) \in Nat /\ Len(batch) >= 1 /\ Head(batch) = batch[1] /\ Len(Tail(batch)) = Len(batch) - 1
        /\ \A i \in 1 .. Len(batch) - 1 : Tail(batch)[i] = batch[i + 1]
        /\ Head(batch) \in Messages /\ Tail(batch) \in Seq(Messages)
    BY <1>0, <2>1, HeadIs
  <2>3. DOMAIN batch = 1 .. Len(batch) /\ DOMAIN batch' = 1 .. Len(batch) - 1
    BY <1>0, <2>1, <2>2
  <2>4. /\ Len(inbound) \in Nat /\ DOMAIN inbound = 1 .. Len(inbound) /\ DOMAIN inbound' = 1 .. Len(inbound) + 1
        /\ inbound'[Len(inbound) + 1] = Head(batch) /\ \A i \in DOMAIN inbound : inbound'[i] = inbound[i]
    BY <1>0, <2>1, <2>2
  <2>5. Head(batch) \in InMemory'
    BY <2>4, HeldNext
  <2>6. ASSUME NEW i \in DOMAIN batch PROVE batch[i] \in InMemory'
    <3>1. CASE i = 1
      BY <2>2, <2>5, <3>1
    <3>2. CASE i # 1
      <4>1. i - 1 \in DOMAIN batch' /\ batch'[i - 1] = batch[i]
        BY <2>1, <2>2, <2>3, <2>6, <3>2
      <4> QED BY <4>1, HeldNext
    <3> QED BY <3>1, <3>2
  <2>7. ASSUME NEW i \in DOMAIN inbound PROVE inbound[i] \in InMemory'
    BY <2>4, HeldNext
  <2>8. \A n \in InMemory : n \in InMemory'
    BY <2>1, <2>6, <2>7, HeldIs, HeldNext DEF Tracked
  <2>9. Head(batch) = Top + 1 /\ Top \in Nat /\ Top >= confirmed
    BY <1>0, <2>2 DEF Fetched, Top
  <2>10. Top' = Top + 1
    <3>1. offset' = Top + 1 /\ confirmed' = confirmed
      BY <2>1, <2>9
    <3>2. offset' > confirmed'
      <4> HIDE DEF Top
      <4> QED BY <1>0, <2>9, <3>1
    <3> QED BY <3>1, <3>2 DEF Top
  <2>11. \A n \in 1 .. Top : n \in InMemory \cup settled \cup lost
    BY DEF Accounted, Top
  <2>12. \A n \in 1 .. Top' : n \in InMemory' \cup settled' \cup lost'
    <3> HIDE DEF Top
    <3>1. \A n \in 1 .. Top' : n \in 1 .. Top \/ n = Top + 1
      BY <2>9, <2>10
    <3> QED BY <2>1, <2>5, <2>8, <2>9, <2>11, <3>1
  <2> QED BY <2>12 DEF Accounted, Top
<1>4. CASE ReceiveInbound
  <2>1. inbound # <<>> /\ inbound' = Tail(inbound) /\ worker = NoInbound /\ UNCHANGED <<offset, confirmed, batch, tracker, lost>>
    BY <1>4 DEF ReceiveInbound
  <2>2. /\ Len(inbound) \in Nat /\ Len(inbound) >= 1 /\ Head(inbound) = inbound[1] /\ Len(Tail(inbound)) = Len(inbound) - 1
        /\ \A i \in 1 .. Len(inbound) - 1 : Tail(inbound)[i] = inbound[i + 1]
        /\ Head(inbound) \in Messages /\ Tail(inbound) \in Seq(Messages)
    BY <1>0, <2>1, HeadIs
  <2>3. DOMAIN inbound = 1 .. Len(inbound) /\ DOMAIN inbound' = 1 .. Len(inbound) - 1
    BY <1>0, <2>1, <2>2
  <2>4. settled \subseteq settled' /\ Head(inbound) \in InMemory' \cup settled'
    <3>1. CASE worker' = NoInbound
      BY <1>4, <3>1 DEF ReceiveInbound, NoInbound
    <3>2. CASE worker' # NoInbound
      <4>1. worker' = [NoInbound EXCEPT !.msg = Head(inbound), !.session = binding[chatOf[Head(inbound)]],
                         !.step = IF binding[chatOf[Head(inbound)]] = 0 THEN "ensure" ELSE "submit"]
            /\ settled' = settled
        BY <1>4, <3>2 DEF ReceiveInbound, BoundTo
      <4>2. worker'.msg = Head(inbound) /\ Head(inbound) # 0
        BY <2>2, <4>1 DEF NoInbound, Messages
      <4> QED BY <4>1, <4>2, HeldNext
    <3> QED BY <3>1, <3>2
  <2>5. ASSUME NEW i \in DOMAIN inbound PROVE inbound[i] \in InMemory' \cup settled'
    <3>1. CASE i = 1
      BY <2>2, <2>4, <3>1
    <3>2. CASE i # 1
      <4>1. i - 1 \in DOMAIN inbound' /\ inbound'[i - 1] = inbound[i]
        BY <2>1, <2>2, <2>3, <2>5, <3>2
      <4> QED BY <4>1, HeldNext
    <3> QED BY <3>1, <3>2
  <2>6. \A n \in InMemory : n \in InMemory' \cup settled' \cup lost'
    BY <2>1, <2>5, HeldIs, HeldNext, NoInboundIs DEF Tracked
  <2> QED BY <2>1, <2>4, <2>6, AccountedKept DEF Top
<1>5. CASE EnsureSession \/ Bind \/ SubmitTask
  <2>1. UNCHANGED <<offset, confirmed, batch, inbound, tracker, lost>>
    BY <1>5 DEF EnsureSession, Bind, SubmitTask
  <2>2. \/ worker' = NoInbound /\ settled' = settled \cup {worker.msg}
        \/ worker' = [worker EXCEPT !.session = madeSessions + 1, !.step = "bind"] /\ settled' = settled
        \/ worker' = [worker EXCEPT !.step = "submit"] /\ settled' = settled
        \/ worker' = [worker EXCEPT !.id = mintTaskID, !.step = "track"] /\ settled' = settled
    BY <1>5 DEF EnsureSession, Bind, SubmitTask, Drop, At
  <2>3. settled \subseteq settled' /\ (worker'.msg = worker.msg \/ worker.msg \in settled')
    BY <1>0, <2>2 DEF WorkerStates
  <2>4. \A n \in InMemory : n \in InMemory' \cup settled' \cup lost'
    BY <2>1, <2>3, HeldIs, HeldNext DEF Tracked
  <2> QED BY <2>1, <2>3, <2>4, AccountedKept DEF Top
<1>6. CASE StartTracking
  <2>1. UNCHANGED <<offset, confirmed, batch, inbound, settled, lost>>
        /\ tracker' = [tracker EXCEPT ![worker.id] = [msg |-> worker.msg, attempts |-> 0]]
    BY <1>6 DEF StartTracking, Track
  <2>2. worker.id \in TaskIds /\ worker.msg \in Messages
    BY <1>6, WorkerIs DEF StartTracking, AtWork
  <2>3. /\ tracker'[worker.id] = [msg |-> worker.msg, attempts |-> 0]
        /\ \A t \in TaskIds : t # worker.id => tracker'[t] = tracker[t]
    BY <1>0, <2>1, <2>2
  <2>4. tracker'[worker.id] \in Deliveries
    BY <2>2, <2>3 DEF Deliveries
  <2>5. tracker'[worker.id] # Untracked /\ tracker'[worker.id].msg = worker.msg
    BY <2>3, <2>4 DEF Deliveries
  <2>6. worker.msg \in InMemory'
    BY <2>2, <2>5, HeldNext
  <2>7. ASSUME NEW t \in TaskIds, Tracked(t) PROVE tracker[t].msg \in InMemory'
    <3>1. t # worker.id
      BY <2>7 DEF OnePlace
    <3> QED BY <2>3, <2>7, <3>1, HeldNext DEF Tracked
  <2>8. \A n \in InMemory : n \in InMemory'
    BY <2>1, <2>6, <2>7, HeldIs, HeldNext
  <2> QED BY <2>1, <2>8, AccountedKept DEF Top
<1>7. CASE CoreStep
  BY <1>7 DEF CoreStep, CoreRestart, ResumeTask, EndTask, Accounted, InMemory
<1>8. CASE Delivery
  <2>1. UNCHANGED <<offset, confirmed, batch, inbound, worker, lost>>
    BY <1>8, DeliveryIs
  <2>2. settled \subseteq settled' /\ \A t \in TaskIds : Tracked(t) =>
          tracker[t].msg \in settled' \/ (tracker'[t] # Untracked /\ tracker'[t].msg = tracker[t].msg)
    <3>1. CASE Send
      <4>1. ASSUME NEW t \in TaskIds, Tracked(t)
            PROVE  tracker[t].msg \in settled' \/ (tracker'[t] # Untracked /\ tracker'[t].msg = tracker[t].msg)
        <5>1. CASE t # poll.id
          BY <3>1, <4>1, <5>1, SendIs DEF Tracked
        <5>2. CASE t = poll.id /\ tracker'[t] # Untracked /\ tracker'[t].msg = tracker[t].msg
          BY <5>2
        <5>3. CASE t = poll.id /\ tracker'[t] = Untracked /\ settled' = settled \cup {tracker[t].msg}
          BY <5>3
        <5>4. CASE tracker' = tracker
          BY <4>1, <5>4 DEF Tracked
        <5> QED BY <3>1, <5>1, <5>2, <5>3, <5>4, SendIs
      <4> QED BY <3>1, <4>1, SendIs
    <3>2. ASSUME NEW id \in TaskIds, TaskResult(id)
          PROVE  settled \subseteq settled' /\ \A t \in TaskIds : Tracked(t) =>
                   tracker[t].msg \in settled' \/ (tracker'[t] # Untracked /\ tracker'[t].msg = tracker[t].msg)
      BY <3>2, TaskResultIs DEF Tracked
    <3> QED BY <1>8, <3>1, <3>2 DEF Delivery
  <2>3. \A n \in InMemory : n \in InMemory' \cup settled' \cup lost'
    BY <2>1, <2>2, HeldIs, HeldNext
  <2> QED BY <2>1, <2>2, <2>3, AccountedKept DEF Top
<1>9. CASE GatewayCrash
  <2>1. offset' = 0 /\ confirmed' = confirmed /\ settled' = settled
        /\ lost' = lost \cup {n \in InMemory : n <= confirmed}
    BY <1>9 DEF GatewayCrash
  <2>2. Top' = confirmed /\ Top >= confirmed /\ Top \in Nat
    BY <1>0, <2>1 DEF Top
  <2>3. \A n \in 1 .. confirmed : n \in settled' \cup lost'
    <3>1. \A n \in 1 .. Top : n \in InMemory \cup settled \cup lost
      BY DEF Accounted, Top
    <3>2. \A n \in 1 .. confirmed : n \in 1 .. Top /\ n <= confirmed
      <4> HIDE DEF Top
      <4> QED BY <1>0, <2>2
    <3> QED BY <2>1, <3>1, <3>2
  <2>4. \A n \in 1 .. Top' : n \in settled' \cup lost'
    BY <2>2, <2>3
  <2> QED BY <2>4 DEF Accounted, Top
<1> QED BY <1>1, <1>2, <1>3, <1>4, <1>5, <1>6, <1>7, <1>8, <1>9, GatewayCases DEF Arrival, Intake

\* The chunks that begin an answer: one more when a first chunk is shown.
LEMMA OnesAre ==
  ASSUME NEW s \in Seq(Messages \X (1 .. Chunks))
  PROVE  /\ OnesOf(s) \in Nat
         /\ \A m \in Messages, c \in 1 .. Chunks :
              OnesOf(Append(s, <<m, c>>)) = OnesOf(s) + (IF c = 1 THEN 1 ELSE 0)
<1>1. Len(s) \in Nat
  OBVIOUS
<1>2. IsFiniteSet(Firsts(s)) /\ OnesOf(s) \in Nat
  <2>1. IsFiniteSet(1 .. Len(s)) /\ Firsts(s) \subseteq 1 .. Len(s)
    BY <1>1, FS_Interval DEF Firsts
  <2> QED BY <2>1, FS_Subset, FS_CardinalityType DEF OnesOf
<1>3. ASSUME NEW m \in Messages, NEW c \in 1 .. Chunks
      PROVE  OnesOf(Append(s, <<m, c>>)) = OnesOf(s) + (IF c = 1 THEN 1 ELSE 0)
  <2> DEFINE t == Append(s, <<m, c>>)
             new == Len(s) + 1
  <2>1. /\ Len(t) = new /\ t[new] = <<m, c>> /\ new \notin Firsts(s)
        /\ \A i \in 1 .. Len(s) : t[i] = s[i]
    BY <1>1 DEF Firsts
  <2> HIDE DEF t
  <2>2. \A i \in 1 .. new : i \in 1 .. Len(s) \/ i = new
    BY <1>1
  <2>3. CASE c = 1
    <3>1. Firsts(t) = Firsts(s) \cup {new}
      <4>1. new \in Firsts(t)
        BY <1>1, <2>1, <2>3 DEF Firsts
      <4>2. \A i \in 1 .. Len(s) : i \in Firsts(t) <=> i \in Firsts(s)
        BY <1>1, <2>1 DEF Firsts
      <4>3. Firsts(t) \subseteq 1 .. new /\ Firsts(s) \subseteq 1 .. Len(s)
        BY <2>1 DEF Firsts
      <4> QED BY <2>2, <4>1, <4>2, <4>3
    <3>2. Cardinality(Firsts(t)) = Cardinality(Firsts(s)) + 1
      BY <1>2, <2>1, <3>1, FS_AddElement
    <3> QED BY <2>3, <3>2 DEF OnesOf, t
  <2>4. CASE c # 1
    <3>1. Firsts(t) = Firsts(s)
      <4>1. new \notin Firsts(t)
        BY <2>1, <2>4 DEF Firsts
      <4>2. \A i \in 1 .. Len(s) : i \in Firsts(t) <=> i \in Firsts(s)
        BY <1>1, <2>1 DEF Firsts
      <4>3. Firsts(t) \subseteq 1 .. new /\ Firsts(s) \subseteq 1 .. Len(s)
        BY <2>1 DEF Firsts
      <4> QED BY <2>1, <2>2, <4>1, <4>2, <4>3
    <3> QED BY <1>2, <2>4, <3>1 DEF OnesOf, t
  <2> QED BY <2>3, <2>4
<1> QED BY <1>2, <1>3

\* What a message was shown and what its submissions are worth are numbers.
LEMMA WorthIs ==
  ASSUME GatewayTypes, NEW n \in Messages
  PROVE  Ones(n) \in Nat /\ submissions[n] \in Nat /\ Retries * submissions[n] \in Nat
         /\ Retries * (submissions[n] + 1) = Retries * submissions[n] + Retries
<1>1. shown[n] \in Seq(Messages \X (1 .. Chunks)) /\ submissions[n] \in Nat
  BY DEF GatewayTypes, ShownTypes, CoreTypes
<1>2. \A s \in Nat : Retries * s \in Nat /\ Retries * (s + 1) = Retries * s + Retries
  BY GatewayAssumption
<1> QED BY <1>1, <1>2, OnesAre DEF Ones

\* A step that shows, submits and tracks nothing new.
LEMMA WorthKept ==
  ASSUME Worth, UNCHANGED <<shown, submissions>>,
         worker'.step = "track" => worker' = worker,
         \A id \in TaskIds : tracker'[id] # Untracked => tracker'[id] = tracker[id],
         \A id \in TaskIds : tracker'[id] # Untracked => Begun(id)' = Begun(id)
  PROVE  Worth'
<1>1. \A n \in Messages : Ones(n)' <= Retries * submissions'[n]
  BY DEF Worth, Ones
<1>2. worker'.step = "track" => Ones(worker.msg)' + Retries <= Retries * submissions'[worker'.msg]
  BY DEF Worth, Ones
<1>3. ASSUME NEW id \in TaskIds, tracker'[id] # Untracked
      PROVE  Ones(tracker[id].msg)' + Retries
               <= Retries * submissions'[tracker'[id].msg] + tracker'[id].attempts + Begun(id)'
  <2>1. Tracked(id) /\ tracker'[id] = tracker[id] /\ Begun(id)' = Begun(id)
    BY <1>3 DEF Tracked
  <2> QED BY <2>1 DEF Worth, Ones
<1> QED BY <1>1, <1>2, <1>3 DEF Worth, Tracked

\* An attempt begins with its first chunk: it is counted by the submission until
\* then, and by the attempts or as the one being made afterwards.
LEMMA WorthStep ==
  ASSUME GatewayTypes, AtWork, OnePlace, Results, Worth, GatewayNext PROVE Worth'
<1> USE GatewayAssumption DEF intakeVars, telegramVars, coreVars, gatewayGhosts
<1>0. /\ worker \in WorkerStates /\ tracker \in [TaskIds -> Deliveries \cup {Untracked}]
      /\ submissions \in [Messages -> Nat] /\ shown \in [Messages -> Seq(Messages \X (1 .. Chunks))]
      /\ resultOf \in [TaskIds -> Messages \cup {0}]
  BY DEF GatewayTypes, WorkerTypes, TrackTypes, CoreTypes, ShownTypes
<1>1. CASE Arrival \/ CoreStep
  <2>1. UNCHANGED <<shown, submissions, worker, tracker, poll>>
    BY <1>1 DEF Arrival, Arrive, getUpdates, PassOn, CoreStep, CoreRestart, ResumeTask, EndTask
  <2> QED BY <2>1, WorthKept DEF Begun
<1>2. CASE ReceiveInbound \/ EnsureSession \/ Bind
  <2>1. UNCHANGED <<shown, submissions, tracker, poll>>
    BY <1>2 DEF ReceiveInbound, EnsureSession, Bind
  <2>2. worker'.step # "track"
    <3>1. CASE ReceiveInbound
      <4>1. CASE worker' = NoInbound
        BY <4>1, NoInboundIs
      <4>2. CASE worker' # NoInbound
        BY <3>1, <4>2 DEF ReceiveInbound, NoInbound
      <4> QED BY <4>1, <4>2
    <3>2. CASE EnsureSession \/ Bind
      <4>1. \/ worker' = NoInbound \/ worker' = [worker EXCEPT !.session = madeSessions + 1, !.step = "bind"]
            \/ worker' = [worker EXCEPT !.step = "submit"]
        BY <3>2 DEF EnsureSession, Bind, Drop, At
      <4> QED BY <1>0, <4>1, NoInboundIs DEF WorkerStates
    <3> QED BY <1>2, <3>1, <3>2
  <2> QED BY <2>1, <2>2, WorthKept DEF Begun
<1>3. CASE SubmitTask
  <2>1. UNCHANGED <<shown, tracker, poll>> /\ worker.msg \in Messages
    BY <1>3, WorkerIs DEF SubmitTask
  <2>2. worker' = NoInbound \/ worker' = [worker EXCEPT !.id = mintTaskID, !.step = "track"]
    BY <1>3 DEF SubmitTask, Drop
  <2>3. worker'.step = "idle" \/ (worker'.step = "track" /\ worker'.msg = worker.msg)
    BY <1>0, <2>2, NoInboundIs DEF WorkerStates
  <2>4. CASE UNCHANGED submissions /\ worker' = NoInbound
    BY <2>1, <2>4, NoInboundIs, WorthKept DEF Begun
  <2>5. CASE submissions' = [submissions EXCEPT ![worker.msg] = @ + 1]
    <3>1. /\ submissions'[worker.msg] = submissions[worker.msg] + 1
          /\ \A n \in Messages : n # worker.msg => submissions'[n] = submissions[n]
      BY <1>0, <2>1, <2>5
    <3>2. \A n \in Messages :
            /\ Ones(n) \in Nat /\ Retries * submissions[n] \in Nat
            /\ Retries * submissions'[n] = Retries * submissions[n] + (IF n = worker.msg THEN Retries ELSE 0)
      BY <3>1, WorthIs
    <3>3. \A n \in Messages : Ones(n)' = Ones(n)
      BY <2>1 DEF Ones
    <3>4. \A n \in Messages : Ones(n)' <= Retries * submissions'[n]
      BY <3>2, <3>3 DEF Worth
    <3>5. Ones(worker.msg) + Retries <= Retries * submissions'[worker.msg]
      BY <2>1, <3>2 DEF Worth
    <3>6. worker'.step = "track" => OnesOf(shown'[worker'.msg]) + Retries <= Retries * submissions'[worker'.msg]
      BY <2>1, <2>3, <3>5 DEF Ones
    <3>7. ASSUME NEW id \in TaskIds, Tracked(id)
          PROVE  Ones(tracker[id].msg) + Retries
                   <= Retries * submissions'[tracker[id].msg] + tracker[id].attempts + Begun(id)
      <4>1. tracker[id].msg \in Messages /\ tracker[id].attempts \in Nat /\ Begun(id) \in Nat
        BY <3>7, TrackedIs DEF Begun
      <4>2. Ones(tracker[id].msg) + Retries
              <= Retries * submissions[tracker[id].msg] + tracker[id].attempts + Begun(id)
        BY <3>7 DEF Worth
      <4>3. Ones(tracker[id].msg) \in Nat /\ Retries * submissions[tracker[id].msg] \in Nat
            /\ Retries * submissions'[tracker[id].msg] >= Retries * submissions[tracker[id].msg]
            /\ Retries * submissions'[tracker[id].msg] \in Nat
        BY <3>2, <4>1
      <4> QED BY <4>1, <4>2, <4>3
    <3> QED BY <2>1, <3>4, <3>6, <3>7 DEF Worth, Tracked, Begun, Ones
  <2> QED BY <1>3, <2>4, <2>5 DEF SubmitTask, Drop
<1>4. CASE StartTracking
  <2>1. UNCHANGED <<shown, submissions, poll>> /\ worker' = NoInbound /\ worker.step = "track"
        /\ tracker' = [tracker EXCEPT ![worker.id] = [msg |-> worker.msg, attempts |-> 0]]
    BY <1>4 DEF StartTracking, Track
  <2>2. worker.id \in TaskIds /\ worker.msg \in Messages
    BY <2>1, WorkerIs DEF AtWork
  <2>3. /\ tracker'[worker.id] = [msg |-> worker.msg, attempts |-> 0]
        /\ \A t \in TaskIds : t # worker.id => tracker'[t] = tracker[t]
    BY <1>0, <2>1, <2>2
  <2>4. \A id \in TaskIds : Begun(id)' = Begun(id)
    BY <2>1 DEF Begun
  <2>5. Begun(worker.id) = 0
    <3>1. poll # NoPoll => poll.id # worker.id
      BY PollIs DEF Results, OnePlace
    <3> QED BY <3>1 DEF Begun
  <2>6. ASSUME NEW id \in TaskIds, tracker'[id] # Untracked
        PROVE  Ones(tracker'[id].msg) + Retries
                 <= Retries * submissions[tracker'[id].msg] + tracker'[id].attempts + Begun(id)
    <3>1. CASE id = worker.id
      <4>1. Ones(worker.msg) + Retries <= Retries * submissions[worker.msg] /\ Retries * submissions[worker.msg] \in Nat
        BY <2>1, <2>2, WorthIs DEF Worth
      <4>2. tracker'[id].msg = worker.msg /\ tracker'[id].attempts = 0 /\ Begun(id) = 0
        BY <2>3, <2>5, <3>1
      <4> QED BY <4>1, <4>2
    <3>2. CASE id # worker.id
      BY <2>3, <2>6, <3>2 DEF Worth, Tracked
    <3> QED BY <3>1, <3>2
  <2> QED BY <2>1, <2>4, <2>6, NoInboundIs DEF Worth, Tracked, Ones
<1>5. CASE Send
  <2> DEFINE n == tracker[poll.id].msg
             id0 == poll.id
             P == Retries * submissions[n]
  <2>1. UNCHANGED <<submissions, worker>> /\ id0 \in TaskIds /\ Tracked(id0) /\ poll.chunk \in 1 .. Chunks /\ poll # NoPoll
        /\ n \in Messages /\ tracker[id0].attempts \in Nat /\ tracker[id0].attempts + 1 <= Retries
    <3>1. id0 \in TaskIds /\ Tracked(id0) /\ poll.chunk \in 1 .. Chunks /\ poll # NoPoll
      BY <1>5, SendIs
    <3>2. n \in Messages /\ tracker[id0].attempts \in Nat /\ tracker[id0].attempts < Retries
      BY <3>1, TrackedIs DEF Results
    <3>3. UNCHANGED <<submissions, worker>>
      BY <1>5 DEF Send
    <3> QED BY <3>1, <3>2, <3>3
  <2>2. \A m \in Messages : m # n => shown'[m] = shown[m]
    BY <1>0, <1>5, SendIs
  <2>3. OnesOf(shown'[n]) \in Nat /\ OnesOf(shown[n]) \in Nat /\ OnesOf(shown'[n]) >= OnesOf(shown[n])
        /\ OnesOf(shown'[n]) <= OnesOf(shown[n]) + (IF poll.chunk = 1 THEN 1 ELSE 0)
    <3>1. shown[n] \in Seq(Messages \X (1 .. Chunks)) /\ resultOf[id0] \in Messages
      BY <1>0, <2>1 DEF Results
    <3>2. shown'[n] = shown[n] \/ shown'[n] = Append(shown[n], <<resultOf[id0], poll.chunk>>)
      BY <1>0, <1>5, <2>1, SendIs
    <3>3. OnesOf(shown[n]) \in Nat
          /\ OnesOf(Append(shown[n], <<resultOf[id0], poll.chunk>>)) = OnesOf(shown[n]) + (IF poll.chunk = 1 THEN 1 ELSE 0)
      BY <2>1, <3>1, OnesAre
    <3>4. CASE shown'[n] = shown[n]
      <4>1. OnesOf(shown'[n]) = OnesOf(shown[n])
        BY <3>4
      <4> QED BY <3>3, <4>1
    <3>5. CASE shown'[n] = Append(shown[n], <<resultOf[id0], poll.chunk>>)
      <4>1. OnesOf(shown'[n]) = OnesOf(shown[n]) + (IF poll.chunk = 1 THEN 1 ELSE 0)
        BY <3>3, <3>5
      <4> QED BY <3>3, <4>1
    <3> QED BY <3>2, <3>4, <3>5
  <2>4. Begun(id0) = (IF poll.chunk = 1 THEN 0 ELSE 1)
    BY <2>1 DEF Begun
  <2>5. P \in Nat /\ OnesOf(shown[n]) + Retries <= P + tracker[id0].attempts + (IF poll.chunk = 1 THEN 0 ELSE 1)
    BY <2>1, <2>4, WorthIs DEF Worth, Ones
  <2>6. OnesOf(shown'[n]) + Retries <= P + tracker[id0].attempts + 1
    BY <2>1, <2>3, <2>5
  <2>7. OnesOf(shown'[n]) <= P
    BY <2>1, <2>3, <2>5, <2>6
  <2>8. \A m \in Messages : Ones(m)' <= Retries * submissions'[m]
    BY <2>1, <2>2, <2>7 DEF Worth, Ones
  <2>9. worker'.step = "track" => OnesOf(shown'[worker'.msg]) + Retries <= Retries * submissions'[worker'.msg]
    <3>1. worker.step = "track" => worker.msg \in Messages /\ worker.msg # n
      BY <2>1, WorkerIs DEF OnePlace
    <3> QED BY <2>1, <2>2, <3>1 DEF Worth, Ones
  <2>10. ASSUME NEW id \in TaskIds, tracker'[id] # Untracked
         PROVE  OnesOf(shown'[tracker'[id].msg]) + Retries
                  <= Retries * submissions[tracker'[id].msg] + tracker'[id].attempts + Begun(id)'
    <3>1. CASE id # id0
      <4>1. tracker'[id] = tracker[id] /\ Tracked(id)
        BY <1>5, <2>10, <3>1, SendIs DEF Tracked
      <4>2. tracker[id].msg \in Messages /\ tracker[id].msg # n
        BY <2>1, <3>1, <4>1, TrackedIs DEF OnePlace
      <4>3. Begun(id) = 0 /\ Begun(id)' = 0
        <5>1. Begun(id) = 0
          BY <3>1 DEF Begun
        <5>2. poll' = NoPoll \/ poll' = [poll EXCEPT !.chunk = @ + 1]
          BY <1>5, SendIs
        <5>3. poll \in [id : TaskIds, chunk : 1 .. Chunks]
          BY <2>1 DEF GatewayTypes, TrackTypes
        <5>4. poll' = NoPoll \/ poll'.id = id0
          BY <5>2, <5>3
        <5> QED BY <3>1, <5>1, <5>4 DEF Begun
      <4>4. Ones(tracker[id].msg) + Retries <= Retries * submissions[tracker[id].msg] + tracker[id].attempts + Begun(id)
        BY <4>1 DEF Worth
      <4> QED BY <2>2, <4>1, <4>2, <4>3, <4>4 DEF Ones
    <3>2. CASE id = id0 /\ tracker'[id0].msg = n /\ tracker'[id0].attempts = tracker[id0].attempts + 1 /\ poll' = NoPoll
      <4>1. Begun(id)' = 0
        BY <3>2 DEF Begun
      <4> QED BY <2>1, <2>5, <2>6, <3>2, <4>1
    <3>3. CASE id = id0 /\ tracker' = tracker /\ poll' = [poll EXCEPT !.chunk = @ + 1]
      <4>1. poll \in [id : TaskIds, chunk : 1 .. Chunks]
        BY <2>1 DEF GatewayTypes, TrackTypes
      <4>2. poll'.id = id0 /\ poll'.chunk = poll.chunk + 1 /\ poll'.chunk > 1
        BY <2>1, <3>3, <4>1
      <4>3. poll' # NoPoll
        BY <2>1, <4>2 DEF NoPoll
      <4>4. Begun(id)' = 1
        BY <3>3, <4>2, <4>3 DEF Begun
      <4> QED BY <2>1, <2>5, <2>6, <3>3, <4>4
    <3> QED BY <1>5, <2>10, <3>1, <3>2, <3>3, SendIs
  <2> HIDE DEF n, id0, P
  <2> QED BY <2>1, <2>8, <2>9, <2>10 DEF Worth, Tracked, Ones
<1>6. ASSUME NEW t \in TaskIds, TaskResult(t) PROVE Worth'
  <2>1. UNCHANGED <<shown, submissions, worker>>
    BY <1>6 DEF TaskResult
  <2>2. \A id \in TaskIds : tracker'[id] # Untracked => tracker'[id] = tracker[id]
    BY <1>6, TaskResultIs DEF Tracked
  <2>3. poll = NoPoll /\ (poll' = NoPoll \/ poll' = [id |-> t, chunk |-> 1])
    BY <1>6, TaskResultIs
  <2>4. \A id \in TaskIds : Begun(id)' = Begun(id)
    BY <2>3 DEF Begun
  <2> QED BY <2>1, <2>2, <2>4, WorthKept
<1>7. CASE GatewayCrash
  <2>1. UNCHANGED <<shown, submissions>> /\ worker' = NoInbound /\ tracker' = [t \in TaskIds |-> Untracked]
    BY <1>7 DEF GatewayCrash
  <2> QED BY <2>1, NoInboundIs, WorthKept
<1> QED BY <1>1, <1>2, <1>3, <1>4, <1>5, <1>6, <1>7, GatewayCases DEF Intake, Delivery

\* A chunk is appended to the chunk before it.
LEMMA InOrderStep ==
  ASSUME GatewayTypes, AtWork, OnePlace, Results, InOrder, GatewayNext PROVE InOrder'
<1> USE GatewayAssumption DEF intakeVars, telegramVars, coreVars, gatewayGhosts
<1>0. /\ tracker \in [TaskIds -> Deliveries \cup {Untracked}] /\ shown \in [Messages -> Seq(Messages \X (1 .. Chunks))]
      /\ resultOf \in [TaskIds -> Messages \cup {0}]
  BY DEF GatewayTypes, TrackTypes, ShownTypes, CoreTypes
<1>1. CASE Arrival \/ CoreStep
  BY <1>1 DEF Arrival, Arrive, getUpdates, PassOn, CoreStep, CoreRestart, ResumeTask, EndTask, InOrder
<1>2. CASE ReceiveInbound \/ EnsureSession \/ Bind \/ SubmitTask
  BY <1>2 DEF ReceiveInbound, EnsureSession, Bind, SubmitTask, InOrder
<1>3. CASE StartTracking
  <2>1. UNCHANGED <<shown, poll>> /\ worker.step = "track"
        /\ tracker' = [tracker EXCEPT ![worker.id] = [msg |-> worker.msg, attempts |-> 0]]
    BY <1>3 DEF StartTracking, Track
  <2>2. poll # NoPoll => poll.id # worker.id /\ poll.id \in TaskIds
    BY PollIs DEF Results, OnePlace
  <2>3. poll # NoPoll => tracker'[poll.id] = tracker[poll.id]
    BY <1>0, <2>1, <2>2
  <2> QED BY <2>1, <2>3 DEF InOrder
<1>4. CASE Send
  <2> DEFINE n == tracker[poll.id].msg
             c == poll.chunk
             s == shown[n]
             new == Len(s) + 1
  <2>1. poll # NoPoll /\ poll.id \in TaskIds /\ c \in 1 .. Chunks /\ n \in Messages
        /\ poll \in [id : TaskIds, chunk : 1 .. Chunks] /\ resultOf[poll.id] \in Messages
    <3>1. poll # NoPoll /\ poll.id \in TaskIds /\ c \in 1 .. Chunks /\ Tracked(poll.id)
      BY <1>4, SendIs
    <3> QED BY <1>0, <3>1, TrackedIs DEF GatewayTypes, TrackTypes, Results
  <2>2. s \in Seq(Messages \X (1 .. Chunks)) /\ Len(s) \in Nat
    BY <1>0, <2>1
  <2>3. c > 1 => Len(s) > 0 /\ s[Len(s)][2] = c - 1
    BY <2>1 DEF InOrder
  <2>4. \A m \in Messages : m # n => shown'[m] = shown[m]
    BY <1>0, <1>4, SendIs
  <2>5. shown'[n] = s \/ shown'[n] = Append(s, <<resultOf[poll.id], c>>)
    BY <1>0, <1>4, <2>1, SendIs
  <2>6. ASSUME shown'[n] = Append(s, <<resultOf[poll.id], c>>)
        PROVE  /\ Len(shown'[n]) = new /\ shown'[n][new][2] = c
               /\ \A i \in 1 .. Len(s) : shown'[n][i] = s[i]
    <3>1. <<resultOf[poll.id], c>> \in Messages \X (1 .. Chunks)
      BY <2>1
    <3> HIDE DEF s
    <3> QED BY <2>2, <2>6, <3>1
  <2>7. \A i \in 1 .. Len(s) : s[i][2] > 1 => i > 1 /\ s[i - 1][2] = s[i][2] - 1
    BY <2>1 DEF InOrder
  <2>8. \A i \in 1 .. Len(shown'[n]) : shown'[n][i][2] > 1 => i > 1 /\ shown'[n][i - 1][2] = shown'[n][i][2] - 1
    <3>1. CASE shown'[n] = s
      BY <2>7, <3>1
    <3>2. CASE shown'[n] = Append(s, <<resultOf[poll.id], c>>)
      <4> HIDE DEF s, n, c
      <4>1. ASSUME NEW i \in 1 .. Len(s), shown'[n][i][2] > 1
            PROVE  i > 1 /\ shown'[n][i - 1][2] = shown'[n][i][2] - 1
        <5>1. shown'[n][i] = s[i] /\ i > 1 /\ s[i - 1][2] = s[i][2] - 1
          BY <2>6, <2>7, <3>2, <4>1
        <5>2. i - 1 \in 1 .. Len(s)
          BY <2>2, <5>1
        <5> QED BY <2>6, <3>2, <5>1, <5>2
      <4>2. ASSUME c > 1 PROVE new > 1 /\ shown'[n][new - 1][2] = c - 1
        <5>1. Len(s) \in 1 .. Len(s) /\ new - 1 = Len(s) /\ new > 1
          BY <2>2, <2>3, <4>2
        <5> QED BY <2>3, <2>6, <3>2, <4>2, <5>1
      <4>3. \A i \in 1 .. new : i \in 1 .. Len(s) \/ i = new
        BY <2>2
      <4> QED BY <2>6, <3>2, <4>1, <4>2, <4>3
    <3> QED BY <2>5, <3>1, <3>2
  <2>9. \A m \in Messages : \A i \in 1 .. Len(shown'[m]) :
          shown'[m][i][2] > 1 => i > 1 /\ shown'[m][i - 1][2] = shown'[m][i][2] - 1
    <3>1. ASSUME NEW m \in Messages, m # n
          PROVE  \A i \in 1 .. Len(shown'[m]) : shown'[m][i][2] > 1 => i > 1 /\ shown'[m][i - 1][2] = shown'[m][i][2] - 1
      BY <2>4, <3>1 DEF InOrder
    <3> HIDE DEF n
    <3> QED BY <2>8, <3>1
  <2>10. CASE poll' = NoPoll
    BY <2>9, <2>10 DEF InOrder
  <2>11. CASE /\ tracker' = tracker /\ poll' = [poll EXCEPT !.chunk = @ + 1]
              /\ shown' = [shown EXCEPT ![n] = Append(@, <<resultOf[poll.id], c>>)]
    <3>1. poll'.id = poll.id /\ poll'.chunk = c + 1
      BY <2>1, <2>11
    <3>2. shown'[n] = Append(s, <<resultOf[poll.id], c>>)
      BY <1>0, <2>1, <2>11
    <3>3. tracker'[poll'.id].msg = n
      BY <2>11, <3>1
    <3>4. Len(shown'[n]) > 0 /\ shown'[n][Len(shown'[n])][2] = (c + 1) - 1
      <4>1. Len(shown'[n]) = new /\ shown'[n][new][2] = c
        BY <2>6, <3>2
      <4> HIDE DEF s, n
      <4> QED BY <2>1, <2>2, <4>1
    <3> HIDE DEF n, c
    <3> QED BY <2>9, <3>1, <3>3, <3>4 DEF InOrder
  <2> QED BY <1>4, <2>10, <2>11, SendIs
<1>5. ASSUME NEW t \in TaskIds, TaskResult(t) PROVE InOrder'
  <2>1. UNCHANGED shown /\ (poll' = NoPoll \/ poll' = [id |-> t, chunk |-> 1])
    BY <1>5, TaskResultIs DEF TaskResult
  <2> QED BY <2>1 DEF InOrder
<1>6. CASE GatewayCrash
  BY <1>6 DEF GatewayCrash, InOrder
<1> QED BY <1>1, <1>2, <1>3, <1>4, <1>5, <1>6, GatewayCases DEF Intake, Delivery

LEMMA GatewayStep == GatewayInv /\ [GatewayNext]_gatewayVars => GatewayInv'
<1> SUFFICES ASSUME GatewayInv, [GatewayNext]_gatewayVars PROVE GatewayInv'
  OBVIOUS
<1>1. CASE GatewayNext
  <2>1. GatewayTypes'
    BY <1>1, IntakeTypesStep, WorkerTypesStep, TrackTypesStep, CoreTypesStep, ShownTypesStep DEF GatewayInv, GatewayTypes
  <2>2. Fetched' /\ AtWork' /\ OnePlace'
    BY <1>1, FetchedStep, AtWorkStep, OnePlaceStep DEF GatewayInv
  <2>3. Bound' /\ Results' /\ Accounted'
    BY <1>1, BoundStep, ResultsStep, AccountedStep DEF GatewayInv
  <2>4. Worth' /\ InOrder'
    BY <1>1, WorthStep, InOrderStep DEF GatewayInv
  <2> QED BY <2>1, <2>2, <2>3, <2>4 DEF GatewayInv
<1>2. CASE UNCHANGED gatewayVars
  <2> USE <1>2 DEF gatewayVars, telegramVars, intakeVars, coreVars, gatewayGhosts
  <2>1. GatewayTypes'
    BY DEF GatewayInv, GatewayTypes, IntakeTypes, WorkerTypes, TrackTypes, CoreTypes, ShownTypes
  <2>2. Fetched' /\ AtWork' /\ OnePlace'
    BY DEF GatewayInv, Fetched, Top, AtWork, OnePlace, Tracked
  <2>3. Bound' /\ Results' /\ Accounted'
    BY DEF GatewayInv, Bound, Results, Tracked, Accounted, InMemory
  <2>4. Worth' /\ InOrder'
    BY DEF GatewayInv, Worth, Ones, Tracked, Begun, InOrder
  <2> QED BY <2>1, <2>2, <2>3, <2>4 DEF GatewayInv
<1> QED BY <1>1, <1>2

LEMMA GatewayImplies ==
  GatewayInv => GatewayTypeOK /\ Accounted /\ OneSession /\ BoundedRetries
<1> SUFFICES ASSUME GatewayInv PROVE GatewayTypeOK /\ OneSession /\ BoundedRetries
  BY DEF GatewayInv
<1> USE DEF GatewayInv
<1>1. GatewayTypeOK
  BY DEF GatewayTypes, IntakeTypes, Fetched, Results, Tracked, GatewayTypeOK
<1>2. OneSession
  <2>1. ASSUME NEW id \in TaskIds, taskOf[id] # NoCoreTask, NEW c \in ImChats, c # id[1]
        PROVE  binding[c] # taskOf[id].session
    <3>1. id[1] \in ImChats /\ taskOf[id].session # 0 /\ taskOf[id].session = binding[id[1]]
      BY <2>1 DEF TaskIds, Bound
    <3> QED BY <2>1, <3>1 DEF Bound
  <2> QED BY <2>1 DEF OneSession, Bound
<1>3. BoundedRetries
  <2>1. \A n \in Messages : DOMAIN shown[n] = 1 .. Len(shown[n])
    BY DEF GatewayTypes, ShownTypes
  <2>2. \A n \in Messages : {i \in DOMAIN shown[n] : shown[n][i][2] = 1} = Firsts(shown[n])
    BY <2>1 DEF Firsts
  <2>3. \A n \in Messages : Cardinality({i \in DOMAIN shown[n] : shown[n][i][2] = 1}) <= Retries * submissions[n]
    BY <2>2 DEF Worth, Ones, OnesOf
  <2>4. \A n \in Messages : \A i \in DOMAIN shown[n] :
          shown[n][i][2] > 1 => i > 1 /\ shown[n][i - 1][2] = shown[n][i][2] - 1
    BY <2>1 DEF InOrder
  <2> QED BY <2>3, <2>4 DEF BoundedRetries
<1> QED BY <1>1, <1>2, <1>3

(* No message disappears between a chat and its answer, whatever fails or      *)
(* crashes on the way: what Telegram has been told to forget is in the hands   *)
(* of HandleInbound or of the delivery tracker, settled, or taken by a crash.  *)
(* A chat keeps one session of its own, and PollOnce begins an answer at most  *)
(* Retries times for each submission, chunk after chunk.                       *)
THEOREM GatewayIsSafe == GatewaySpec => GatewaySafe
<1>1. GatewaySpec => GatewayInit /\ [][GatewayNext]_gatewayVars
  BY DEF GatewaySpec
<1>2. GatewayInit /\ [][GatewayNext]_gatewayVars => []GatewayInv
  BY GatewayInitSafe, GatewayStep, PTL
<1> QED BY <1>1, <1>2, GatewayImplies, PTL DEF GatewaySafe

-----------------------------------------------------------------------------
(* The terminal.  At most one run is under way, and the questions about it  *)
(* that are on their way to the human, on the screen or answered are one:   *)
(* the call the run is parked on.                                           *)

RunStates == {"none", "works", "emits", "asks", "parked", "over"}
Pendings == {m \in inbox : m[1] = "pending"}
Shown == IF approval # <<>> THEN 1 ELSE 0

TerminalTypes ==
  /\ taskSeq \in 0 .. MaxRuns /\ taskCtx \in {None, taskSeq}
  /\ running \in {"no", "task", "skill"} /\ command \in BOOLEAN
  /\ approval \in (Runs \X Nat) \cup {<<>>}
  /\ live \in [Runs -> BOOLEAN] /\ at \in [Runs -> RunStates] /\ calls \in [Runs -> Nat]
  /\ listeners \in Nat
  /\ IsFiniteSet(Pendings) /\ Pendings \subseteq {"pending"} \X Runs \X Nat

\* One approval at a time is listened for, heard or shown.
OneListener == listeners + Cardinality(Pendings) + Shown <= 1

\* Only the latest run is under way; its end is told once.
CurrentRun ==
  /\ \A n \in Runs : n # taskSeq => at[n] \in {"none", "over"}
  /\ running # "task" => \A n \in Runs : at[n] \in {"none", "over"} /\ <<"done", n>> \notin inbox
  /\ \A n \in Runs : <<"done", n>> \in inbox => n = taskSeq /\ at[n] = "over"

\* A run's context stands only while the command's does, and until the run ends.
LiveRuns ==
  /\ \A n \in Runs : live[n] => command
  /\ ~quitting /\ command => \A n \in Runs : at[n] \notin {"none", "over"} => live[n]

\* The questions about: to be shown, shown, or answered.
Questions ==
  {d[3] : d \in decisions} \cup {<<m[2], m[3]>> : m \in Pendings} \cup ({approval} \ {<<>>})

\* While the command stands, a question is about a parked run.
OneQuestion ==
  /\ \A n \in Runs : at[n] = "asks" => Questions = {}
  /\ command /\ Questions # {} => \E n \in Runs : at[n] = "parked"
  /\ \A n \in Runs : at[n] = "parked" =>
       /\ Questions \subseteq {<<n, calls[n]>>}
       /\ approval # <<>> => Pendings = {} /\ decisions = {}
       /\ Pendings # {} => decisions = {}
       /\ \A d, e \in decisions : d = e

TerminalInv == TerminalTypes /\ OneListener /\ CurrentRun /\ LiveRuns /\ OneQuestion

\* What most steps do to the questions: none is added.
Fewer ==
  /\ approval' \in {approval, <<>>} /\ Pendings' = Pendings
  /\ decisions' \subseteq decisions /\ listeners' = listeners

Quiet(n) ==
  \/ Wants(n) \/ Emit(n) \/ Return(n) \/ Command(n) \/ onCancelled(n) \/ onDone(n)
  \/ \E d \in decisions : Answered(n, d)
  \/ \E c \in 1 .. MaxCalls : onAborted(<<n, c>>)
  \/ \E k \in 1 .. MaxEvents : onEvent(n, k)

QuietModel ==
  \/ \E d \in decisions : abortDecision(d)
  \/ beginTask \/ runSkill \/ skillDone \/ Quit \/ onClosed \/ Interrupt

\* The steps that move a question on.
Asks ==
  \/ \E n \in Runs : Publish(n) \/ \E c \in 1 .. MaxCalls : onPending(n, c)
  \/ \E allow \in BOOLEAN : resolveApproval(allow)

LEMMA TerminalCases ==
  TerminalNext => ~quitting /\ ((\E n \in Runs : Quiet(n)) \/ QuietModel \/ Asks)
  BY DEF TerminalNext, Goroutine, Handle, Quiet, QuietModel, Asks

LEMMA QuietRunIsFewer == ASSUME NEW n \in Runs, Quiet(n) PROVE Fewer
<1> USE DEF Fewer, Pendings, modelVars, runVars, cmdVars
<1>1. CASE Wants(n) \/ Emit(n) \/ Return(n)
  BY <1>1 DEF Wants, Emit, Return
<1>2. CASE waitStream(n)
  <2>1. inbox' = inbox \/ inbox' = inbox \cup {<<"event", n, Head(stream[n])>>}
    BY <1>2 DEF waitStream
  <2>2. UNCHANGED <<approval, decisions, listeners>>
    BY <1>2 DEF waitStream
  <2> QED BY <2>1, <2>2
<1>3. CASE watchTaskCancel(n)
  BY <1>3 DEF watchTaskCancel
<1>4. CASE onCancelled(n)
  BY <1>4 DEF onCancelled, Take
<1>5. CASE onDone(n)
  BY <1>5 DEF onDone, Take
<1>6. ASSUME NEW d \in decisions, Answered(n, d) PROVE Fewer
  BY <1>6 DEF Answered
<1>7. ASSUME NEW c \in 1 .. MaxCalls, onAborted(<<n, c>>) PROVE Fewer
  BY <1>7 DEF onAborted, Take
<1>8. ASSUME NEW k \in 1 .. MaxEvents, onEvent(n, k) PROVE Fewer
  BY <1>8 DEF onEvent, Take
<1> QED BY <1>1, <1>2, <1>3, <1>4, <1>5, <1>6, <1>7, <1>8 DEF Quiet, Command

LEMMA QuietModelIsFewer == ASSUME QuietModel PROVE Fewer
<1> USE DEF Fewer, Pendings, modelVars, runVars, cmdVars
<1>1. ASSUME NEW d \in decisions, abortDecision(d) PROVE Fewer
  BY <1>1 DEF abortDecision
<1>2. CASE beginTask \/ runSkill \/ skillDone
  BY <1>2 DEF beginTask, runSkill, skillDone
<1>3. CASE Quit \/ onClosed \/ Interrupt
  BY <1>3 DEF Quit, onClosed, Interrupt
<1> QED BY <1>1, <1>2, <1>3 DEF QuietModel

\* Which messages, prompts and listeners an asking step moves.
LEMMA AsksIs ==
  ASSUME TerminalTypes, Asks
  PROVE  /\ UNCHANGED <<taskSeq, running, taskCtx, quitting, live, calls, command>>
         /\ \/ \E n \in Runs :
                 /\ at[n] = "asks" /\ at' = [at EXCEPT ![n] = "parked"]
                 /\ Pendings' = Pendings \cup {<<"pending", n, calls[n]>>} /\ inbox' = inbox \cup {<<"pending", n, calls[n]>>}
                 /\ listeners' = listeners - 1 /\ listeners > 0 /\ UNCHANGED <<approval, decisions>>
            \/ \E n \in Runs, c \in Nat :
                 /\ <<"pending", n, c>> \in Pendings /\ Pendings' = Pendings \ {<<"pending", n, c>>}
                 /\ inbox' = inbox \ {<<"pending", n, c>>}
                 /\ approval' = <<n, c>> /\ UNCHANGED <<at, listeners, decisions>>
            \/ /\ approval # <<>> /\ approval' = <<>> /\ listeners' = listeners + 1 /\ Pendings' = Pendings
               /\ UNCHANGED <<at, inbox>>
               /\ \E allow \in BOOLEAN : decisions' = decisions \cup {<<taskCtx, allow, approval>>}
<1> USE DEF modelVars, runVars, cmdVars
<1>1. ASSUME NEW n \in Runs, Publish(n)
      PROVE  /\ UNCHANGED <<taskSeq, running, taskCtx, quitting, live, calls, command>>
             /\ at[n] = "asks" /\ at' = [at EXCEPT ![n] = "parked"]
             /\ Pendings' = Pendings \cup {<<"pending", n, calls[n]>>} /\ inbox' = inbox \cup {<<"pending", n, calls[n]>>}
             /\ listeners' = listeners - 1 /\ listeners > 0 /\ UNCHANGED <<approval, decisions>>
  BY <1>1 DEF Publish, Pendings
<1>2. ASSUME NEW n \in Runs, NEW c \in 1 .. MaxCalls, onPending(n, c)
      PROVE  /\ UNCHANGED <<taskSeq, running, taskCtx, quitting, live, calls, command>>
             /\ <<"pending", n, c>> \in Pendings /\ Pendings' = Pendings \ {<<"pending", n, c>>}
             /\ inbox' = inbox \ {<<"pending", n, c>>}
             /\ approval' = <<n, c>> /\ UNCHANGED <<at, listeners, decisions>> /\ c \in Nat
  <2>1. <<"pending", n, c>> \in Pendings /\ Pendings' = Pendings \ {<<"pending", n, c>>}
    BY <1>2 DEF onPending, Take, Pendings
  <2>2. c \in Nat
    BY <2>1 DEF TerminalTypes
  <2> QED BY <1>2, <2>1, <2>2 DEF onPending, Take
<1>3. ASSUME NEW allow \in BOOLEAN, resolveApproval(allow)
      PROVE  /\ UNCHANGED <<taskSeq, running, taskCtx, quitting, live, calls, command>>
             /\ approval # <<>> /\ approval' = <<>> /\ listeners' = listeners + 1 /\ Pendings' = Pendings
             /\ UNCHANGED <<at, inbox>> /\ decisions' = decisions \cup {<<taskCtx, allow, approval>>}
  BY <1>3 DEF resolveApproval, Pendings
<1>4. CASE \E n \in Runs : Publish(n)
  BY <1>1, <1>4
<1>5. CASE \E n \in Runs, c \in 1 .. MaxCalls : onPending(n, c)
  BY <1>2, <1>5
<1>6. CASE \E allow \in BOOLEAN : resolveApproval(allow)
  BY <1>3, <1>6
<1> QED BY <1>4, <1>5, <1>6 DEF Asks

LEMMA TerminalInitSafe == TerminalInit => TerminalInv
<1> SUFFICES ASSUME TerminalInit PROVE TerminalInv
  OBVIOUS
<1> USE TerminalAssumption DEF TerminalInit
<1>1. Pendings = {} /\ Questions = {}
  BY DEF Pendings, Questions
<1>2. IsFiniteSet(Pendings) /\ Cardinality(Pendings) = 0
  BY <1>1, FS_EmptySet
<1>3. TerminalTypes
  BY <1>1, <1>2 DEF TerminalTypes, Runs, None, RunStates
<1>4. OneListener
  BY <1>2 DEF OneListener, Shown
<1>5. CurrentRun /\ LiveRuns
  BY DEF CurrentRun, LiveRuns
<1>6. OneQuestion
  BY <1>1 DEF OneQuestion
<1> QED BY <1>3, <1>4, <1>5, <1>6 DEF TerminalInv

\* What becomes of the runs in a quiet step: one moves, or one begins.
LEMMA QuietRunIs ==
  ASSUME TerminalTypes, NEW n \in Runs, Quiet(n)
  PROVE  /\ UNCHANGED <<taskSeq, command, quitting>> /\ taskCtx' \in {taskCtx, None} /\ calls' \in [Runs -> Nat]
         /\ live' \in [Runs -> BOOLEAN] /\ \A m \in Runs : live'[m] => live[m]
         /\ at' \in [Runs -> RunStates] /\ \A m \in Runs \ {n} : at'[m] = at[m] /\ calls'[m] = calls[m]
         /\ at[n] \in {"none", "over"} => at'[n] = at[n]
<1> USE DEF modelVars, runVars, cmdVars
<1>0. live \in [Runs -> BOOLEAN] /\ at \in [Runs -> RunStates] /\ calls \in [Runs -> Nat] /\ taskCtx \in {None, taskSeq}
  BY DEF TerminalTypes
<1>1. CASE Wants(n)
  <2>1. UNCHANGED <<taskSeq, command, quitting, taskCtx, live>> /\ at[n] = "works"
    BY <1>1 DEF Wants
  <2>2. (at' = [at EXCEPT ![n] = "emits"] /\ calls' = calls) \/ (at' = [at EXCEPT ![n] = "asks"] /\ calls' = [calls EXCEPT ![n] = @ + 1])
    BY <1>1 DEF Wants
  <2>3. at' \in [Runs -> RunStates] /\ calls' \in [Runs -> Nat]
    BY <1>0, <2>2 DEF RunStates
  <2> QED BY <1>0, <2>1, <2>2, <2>3
<1>2. CASE Emit(n)
  BY <1>0, <1>2 DEF Emit, RunStates
<1>3. CASE Return(n)
  BY <1>0, <1>3 DEF Return, Resolve, RunStates
<1>4. CASE Command(n)
  BY <1>0, <1>4 DEF Command, waitStream, watchTaskCancel
<1>5. CASE onCancelled(n)
  BY <1>0, <1>5 DEF onCancelled
<1>6. CASE onDone(n)
  <2>1. live' \in [Runs -> BOOLEAN] /\ \A m \in Runs : live'[m] => live[m]
    BY <1>0, <1>6 DEF onDone, Cancelled
  <2> QED BY <1>0, <1>6, <2>1 DEF onDone
<1>7. ASSUME NEW d \in decisions, Answered(n, d)
      PROVE  /\ UNCHANGED <<taskSeq, command, quitting, live, taskCtx, calls>> /\ at[n] = "parked" /\ at' = [at EXCEPT ![n] = "works"]
  BY <1>7 DEF Answered
<1>8. ASSUME \E d \in decisions : Answered(n, d)
      PROVE  /\ UNCHANGED <<taskSeq, command, quitting, live, taskCtx, calls>> /\ at' \in [Runs -> RunStates]
             /\ \A m \in Runs \ {n} : at'[m] = at[m] /\ calls'[m] = calls[m]
             /\ at[n] \in {"none", "over"} => at'[n] = at[n]
  BY <1>0, <1>7, <1>8 DEF RunStates
<1>9. CASE (\E c \in 1 .. MaxCalls : onAborted(<<n, c>>)) \/ (\E k \in 1 .. MaxEvents : onEvent(n, k))
  BY <1>0, <1>9 DEF onAborted, onEvent
<1> QED BY <1>0, <1>1, <1>2, <1>3, <1>4, <1>5, <1>6, <1>8, <1>9 DEF Quiet

LEMMA QuietModelIs ==
  ASSUME TerminalTypes, QuietModel, ~beginTask
  PROVE  /\ UNCHANGED <<taskSeq, at, calls>> /\ taskCtx' \in {taskCtx, None} /\ command' \in BOOLEAN /\ (command' => command)
         /\ live' \in [Runs -> BOOLEAN] /\ \A m \in Runs : live'[m] => live[m] /\ (~command' /\ command => ~live'[m])
         /\ quitting' \/ ~command' \/ (live' = live /\ quitting' = quitting)
         /\ running' = running \/ (running \in {"no", "skill"} /\ running' \in {"no", "skill"})
<1> USE DEF modelVars, runVars, cmdVars
<1>0. live \in [Runs -> BOOLEAN] /\ taskCtx \in {None, taskSeq} /\ command \in BOOLEAN
  BY DEF TerminalTypes
<1>1. CASE \E d \in decisions : abortDecision(d)
  BY <1>0, <1>1 DEF abortDecision
<1>2. CASE runSkill \/ skillDone \/ onClosed
  BY <1>0, <1>2 DEF runSkill, skillDone, onClosed
<1>3. CASE Quit
  <2>1. live' \in [Runs -> BOOLEAN] /\ \A m \in Runs : live'[m] => live[m]
    BY <1>0, <1>3 DEF Quit, Cancelled
  <2> QED BY <1>0, <1>3, <2>1 DEF Quit
<1>4. CASE Interrupt
  BY <1>0, <1>4 DEF Interrupt
<1> QED BY <1>1, <1>2, <1>3, <1>4 DEF QuietModel

LEMMA BeginIs ==
  ASSUME TerminalTypes, beginTask
  PROVE  /\ taskSeq + 1 \in Runs /\ taskSeq' = taskSeq + 1 /\ taskCtx' = taskSeq + 1 /\ running = "no" /\ running' = "task"
         /\ UNCHANGED <<approval, quitting, calls, command, inbox, decisions>> /\ approval = <<>>
         /\ live' \in [Runs -> BOOLEAN] /\ live'[taskSeq + 1] = command
         /\ \A m \in Runs : m # taskSeq + 1 => (live'[m] => live[m])
         /\ at' = [at EXCEPT ![taskSeq + 1] = "works"]
<1>0. live \in [Runs -> BOOLEAN] /\ command \in BOOLEAN /\ Cancelled(taskCtx) \in [Runs -> BOOLEAN]
      /\ \A m \in Runs : Cancelled(taskCtx)[m] => live[m]
  BY DEF TerminalTypes, Cancelled
<1>1. live' = [Cancelled(taskCtx) EXCEPT ![taskSeq + 1] = command] /\ taskSeq + 1 \in Runs
  BY DEF beginTask
<1>2. live' \in [Runs -> BOOLEAN] /\ live'[taskSeq + 1] = command
      /\ \A m \in Runs : m # taskSeq + 1 => (live'[m] => live[m])
  BY <1>0, <1>1
<1> QED BY <1>1, <1>2 DEF beginTask, mayBegin

LEMMA TerminalTypesStep == ASSUME TerminalTypes, TerminalNext PROVE TerminalTypes'
<1> USE TerminalAssumption
<1>0. /\ approval \in (Runs \X Nat) \cup {<<>>} /\ IsFiniteSet(Pendings) /\ Pendings \subseteq {"pending"} \X Runs \X Nat
      /\ listeners \in Nat /\ calls \in [Runs -> Nat] /\ at \in [Runs -> RunStates]
      /\ taskSeq \in 0 .. MaxRuns /\ taskCtx \in {None, taskSeq} /\ running \in {"no", "task", "skill"} /\ command \in BOOLEAN
      /\ live \in [Runs -> BOOLEAN]
  BY DEF TerminalTypes
<1>1. ASSUME Fewer
      PROVE  /\ approval' \in (Runs \X Nat) \cup {<<>>} /\ IsFiniteSet(Pendings') /\ Pendings' \subseteq {"pending"} \X Runs \X Nat
             /\ listeners' \in Nat
  BY <1>0, <1>1 DEF Fewer
<1>2. ASSUME NEW n \in Runs, Quiet(n) PROVE TerminalTypes'
  <2>1. running' \in {"no", "task", "skill"}
    BY <1>0, <1>2 DEF Quiet, Wants, Emit, Return, Command, waitStream, watchTaskCancel, onCancelled, onDone, Answered,
                      onAborted, onEvent, modelVars
  <2> QED BY <1>0, <1>1, <1>2, <2>1, QuietRunIsFewer, QuietRunIs DEF TerminalTypes
<1>3. CASE QuietModel /\ ~beginTask
  BY <1>0, <1>1, <1>3, QuietModelIsFewer, QuietModelIs DEF TerminalTypes
<1>4. CASE beginTask
  <2>1. Fewer
    BY <1>4, QuietModelIsFewer DEF QuietModel
  <2>2. at' \in [Runs -> RunStates]
    BY <1>0, <1>4, BeginIs DEF RunStates
  <2>3. taskSeq' \in 0 .. MaxRuns
    BY <1>0, <1>4, BeginIs DEF Runs
  <2> QED BY <1>0, <1>1, <1>4, <2>1, <2>2, <2>3, BeginIs DEF TerminalTypes
<1>5. CASE Asks
  <2>1. UNCHANGED <<taskSeq, running, taskCtx, quitting, live, calls, command>>
    BY <1>5, AsksIs
  <2>2. ASSUME NEW n \in Runs, at' = [at EXCEPT ![n] = "parked"],
               Pendings' = Pendings \cup {<<"pending", n, calls[n]>>},
               listeners' = listeners - 1 /\ listeners > 0 /\ UNCHANGED <<approval, decisions>>
        PROVE  TerminalTypes'
    <3>1. IsFiniteSet(Pendings') /\ Pendings' \subseteq {"pending"} \X Runs \X Nat
      <4>1. <<"pending", n, calls[n]>> \in {"pending"} \X Runs \X Nat
        BY <1>0
      <4>2. \A m : IsFiniteSet(Pendings \cup {m})
        BY <1>0, FS_AddElement
      <4> QED BY <1>0, <2>2, <4>1, <4>2
    <3>2. at' \in [Runs -> RunStates]
      BY <1>0, <2>2 DEF RunStates
    <3> QED BY <1>0, <2>1, <2>2, <3>1, <3>2 DEF TerminalTypes
  <2>3. ASSUME NEW n \in Runs, NEW c \in Nat, Pendings' = Pendings \ {<<"pending", n, c>>},
               approval' = <<n, c>> /\ UNCHANGED <<at, listeners, decisions>>
        PROVE  TerminalTypes'
    <3>1. IsFiniteSet(Pendings') /\ Pendings' \subseteq {"pending"} \X Runs \X Nat
      BY <1>0, <2>3, FS_RemoveElement, FS_Subset
    <3> QED BY <1>0, <2>1, <2>3, <3>1 DEF TerminalTypes
  <2>4. ASSUME approval' = <<>> /\ listeners' = listeners + 1 /\ Pendings' = Pendings /\ UNCHANGED at
        PROVE  TerminalTypes'
    BY <1>0, <2>1, <2>4 DEF TerminalTypes
  <2> QED BY <1>5, <2>2, <2>3, <2>4, AsksIs
<1> QED BY <1>2, <1>3, <1>4, <1>5, TerminalCases

LEMMA OneListenerStep == ASSUME TerminalTypes, OneListener, TerminalNext PROVE OneListener'
<1>0. /\ IsFiniteSet(Pendings) /\ listeners \in Nat /\ Cardinality(Pendings) \in Nat
      /\ listeners + Cardinality(Pendings) + Shown <= 1
  BY FS_CardinalityType DEF TerminalTypes, OneListener
<1>1. CASE Fewer
  <2>1. Shown' <= Shown /\ Shown \in {0, 1} /\ Shown' \in {0, 1}
    BY <1>1 DEF Fewer, Shown
  <2>2. listeners' = listeners /\ Pendings' = Pendings
    BY <1>1 DEF Fewer
  <2> QED BY <1>0, <2>1, <2>2 DEF OneListener
<1>2. CASE Asks
  <2>1. ASSUME NEW n \in Runs, Pendings' = Pendings \cup {<<"pending", n, calls[n]>>},
               listeners' = listeners - 1 /\ listeners > 0 /\ UNCHANGED <<approval, decisions>>
        PROVE  OneListener'
    <3>1. Shown' = Shown /\ Shown \in {0, 1}
      BY <2>1 DEF Shown
    <3>2. Cardinality(Pendings') \in Nat /\ Cardinality(Pendings') <= Cardinality(Pendings) + 1
      <4>1. ASSUME NEW m
            PROVE  /\ Cardinality(Pendings \cup {m}) \in Nat
                   /\ Cardinality(Pendings \cup {m}) <= Cardinality(Pendings) + 1
        <5>1. CASE m \in Pendings
          <6>1. Pendings \cup {m} = Pendings
            BY <5>1
          <6>2. Cardinality(Pendings \cup {m}) = Cardinality(Pendings)
            BY <6>1
          <6> HIDE <6>1
          <6> QED BY <1>0, <6>2
        <5>2. CASE m \notin Pendings
          <6>1. Cardinality(Pendings \cup {m}) = Cardinality(Pendings) + 1
            BY <1>0, <5>2, FS_AddElement
          <6> QED BY <1>0, <6>1
        <5> QED BY <5>1, <5>2
      <4> QED BY <2>1, <4>1
    <3> QED BY <1>0, <2>1, <3>1, <3>2 DEF OneListener
  <2>2. ASSUME NEW n \in Runs, NEW c \in Nat, <<"pending", n, c>> \in Pendings,
               Pendings' = Pendings \ {<<"pending", n, c>>}, approval' = <<n, c>> /\ UNCHANGED <<at, listeners, decisions>>
        PROVE  OneListener'
    <3>1. Shown' = 1 /\ Shown \in {0, 1}
      BY <2>2 DEF Shown
    <3>2. Cardinality(Pendings') = Cardinality(Pendings) - 1
      BY <1>0, <2>2, FS_RemoveElement
    <3> QED BY <1>0, <2>2, <3>1, <3>2 DEF OneListener
  <2>3. ASSUME approval # <<>>, approval' = <<>> /\ listeners' = listeners + 1 /\ Pendings' = Pendings
        PROVE  OneListener'
    <3>1. Shown = 1 /\ Shown' = 0
      BY <2>3 DEF Shown
    <3> QED BY <1>0, <2>3, <3>1 DEF OneListener
  <2> QED BY <1>2, <2>1, <2>2, <2>3, AsksIs
<1> QED BY <1>1, <1>2, TerminalCases, QuietRunIsFewer, QuietModelIsFewer

\* A message of the end of a run comes from the run, once, and is handled once.
LEMMA CurrentRunStep == ASSUME TerminalTypes, CurrentRun, TerminalNext PROVE CurrentRun'
<1> USE TerminalAssumption DEF modelVars, runVars, cmdVars
<1>0. at \in [Runs -> RunStates] /\ running \in {"no", "task", "skill"} /\ taskSeq \in 0 .. MaxRuns
  BY DEF TerminalTypes
<1>1. ASSUME NEW n \in Runs, Quiet(n), ~Return(n), ~onDone(n) PROVE CurrentRun'
  <2>1. running' = running
    BY <1>1 DEF Quiet, Wants, Emit, Command, waitStream, watchTaskCancel, onCancelled, Answered, onAborted, onEvent
  <2>2. \A m \in Runs : <<"done", m>> \in inbox' => <<"done", m>> \in inbox
    <3>1. CASE Wants(n) \/ Emit(n) \/ onCancelled(n)
      BY <3>1 DEF Wants, Emit, onCancelled, Take
    <3>2. CASE waitStream(n)
      <4>1. inbox' = inbox \/ inbox' = inbox \cup {<<"event", n, Head(stream[n])>>}
        BY <3>2 DEF waitStream
      <4> QED BY <4>1
    <3>3. CASE watchTaskCancel(n)
      BY <3>3 DEF watchTaskCancel
    <3>4. CASE \E d \in decisions : Answered(n, d)
      BY <3>4 DEF Answered
    <3>5. CASE (\E c \in 1 .. MaxCalls : onAborted(<<n, c>>)) \/ (\E k \in 1 .. MaxEvents : onEvent(n, k))
      BY <3>5 DEF onAborted, onEvent, Take
    <3> QED BY <1>1, <3>1, <3>2, <3>3, <3>4, <3>5 DEF Quiet, Command
  <2>3. \A m \in Runs : at[m] \in {"none", "over"} => at'[m] = at[m]
    BY <1>1, QuietRunIs
  <2>4. taskSeq' = taskSeq
    BY <1>1, QuietRunIs
  <2> QED BY <2>1, <2>2, <2>3, <2>4 DEF CurrentRun
<1>2. ASSUME NEW n \in Runs, Return(n) PROVE CurrentRun'
  <2>1. at[n] \in {"works", "asks", "parked"} /\ at' = [at EXCEPT ![n] = "over"]
        /\ inbox' = inbox \cup {<<"done", n>>} /\ UNCHANGED <<taskSeq, running>>
    BY <1>2 DEF Return, Resolve
  <2>2. n = taskSeq /\ running = "task"
    BY <2>1, <1>0 DEF CurrentRun
  <2>3. at'[n] = "over" /\ \A m \in Runs \ {n} : at'[m] = at[m]
    BY <1>0, <2>1
  <2>4. \A m \in Runs : <<"done", m>> \in inbox' => m = n \/ <<"done", m>> \in inbox
    BY <2>1
  <2> QED BY <2>1, <2>2, <2>3, <2>4 DEF CurrentRun
<1>3. ASSUME NEW n \in Runs, onDone(n) PROVE CurrentRun'
  <2>1. <<"done", n>> \in inbox /\ inbox' = inbox \ {<<"done", n>>} /\ running' = "no" /\ UNCHANGED <<at, taskSeq>>
    BY <1>3 DEF onDone, Take
  <2>2. n = taskSeq /\ at[n] = "over"
    BY <2>1 DEF CurrentRun
  <2>3. \A m \in Runs : at[m] \in {"none", "over"} /\ <<"done", m>> \notin inbox'
    BY <2>1, <2>2 DEF CurrentRun
  <2> QED BY <2>1, <2>3 DEF CurrentRun
<1>4. CASE QuietModel /\ ~beginTask
  <2>1. \A m \in Runs : <<"done", m>> \in inbox' => <<"done", m>> \in inbox
    BY <1>4 DEF QuietModel, abortDecision, runSkill, skillDone, Quit, onClosed, Interrupt
  <2>2. running' # "task" => running # "task"
    BY <1>4, QuietModelIs
  <2> QED BY <1>4, <2>1, <2>2, QuietModelIs DEF CurrentRun
<1>5. CASE beginTask
  <2>1. \A m \in Runs : at[m] \in {"none", "over"} /\ <<"done", m>> \notin inbox
    BY <1>5, BeginIs DEF CurrentRun
  <2>2. taskSeq' = taskSeq + 1 /\ running' = "task" /\ inbox' = inbox /\ at' = [at EXCEPT ![taskSeq + 1] = "works"]
    BY <1>5, BeginIs
  <2> QED BY <1>0, <2>1, <2>2 DEF CurrentRun
<1>6. CASE Asks
  <2>1. UNCHANGED <<taskSeq, running>>
    BY <1>6, AsksIs
  <2>2. ASSUME NEW n \in Runs, at[n] = "asks" /\ at' = [at EXCEPT ![n] = "parked"]
        PROVE  \A m \in Runs : at[m] \in {"none", "over"} => at'[m] = at[m]
    BY <1>0, <2>2
  <2>3. \A m \in Runs : at[m] \in {"none", "over"} => at'[m] = at[m]
    BY <1>6, <2>2, AsksIs
  <2>4. \A m \in Runs : <<"done", m>> \in inbox' => <<"done", m>> \in inbox
    <3>1. ASSUME NEW n \in Runs, inbox' = inbox \cup {<<"pending", n, calls[n]>>}
          PROVE  \A m \in Runs : <<"done", m>> \in inbox' => <<"done", m>> \in inbox
      BY <3>1
    <3>2. ASSUME NEW n \in Runs, NEW c \in Nat, inbox' = inbox \ {<<"pending", n, c>>}
          PROVE  \A m \in Runs : <<"done", m>> \in inbox' => <<"done", m>> \in inbox
      BY <3>2
    <3> QED BY <1>6, <3>1, <3>2, AsksIs
  <2> QED BY <2>1, <2>3, <2>4 DEF CurrentRun
<1> QED BY <1>1, <1>2, <1>3, <1>4, <1>5, <1>6, TerminalCases

LEMMA LiveRunsStep == ASSUME TerminalTypes, CurrentRun, LiveRuns, TerminalNext PROVE LiveRuns'
<1> USE TerminalAssumption DEF modelVars, runVars, cmdVars
<1>0. /\ at \in [Runs -> RunStates] /\ live \in [Runs -> BOOLEAN] /\ taskSeq \in 0 .. MaxRuns
      /\ taskCtx \in {None, taskSeq} /\ ~quitting
  BY TerminalCases DEF TerminalTypes
<1>1. ASSUME NEW n \in Runs, Quiet(n) PROVE LiveRuns'
  <2>1. UNCHANGED <<command, quitting>> /\ (\A m \in Runs : live'[m] => live[m])
        /\ \A m \in Runs : at'[m] \notin {"none", "over"} => at[m] \notin {"none", "over"}
    BY <1>1, QuietRunIs
  <2>2. CASE live' = live
    BY <2>1, <2>2 DEF LiveRuns
  <2>3. CASE onDone(n)
    <3>1. n = taskSeq /\ at[n] = "over" /\ at' = at /\ live' = Cancelled(taskCtx)
      BY <2>3 DEF onDone, Take, CurrentRun
    <3>2. \A m \in Runs : at'[m] \in {"none", "over"}
      BY <3>1 DEF CurrentRun
    <3> QED BY <2>1, <3>2 DEF LiveRuns
  <2> QED BY <1>1, <2>2, <2>3 DEF Quiet, Wants, Emit, Return, Command, waitStream, watchTaskCancel, onCancelled, Answered,
                                   onAborted, onEvent
<1>2. CASE QuietModel /\ ~beginTask
  BY <1>0, <1>2, QuietModelIs DEF LiveRuns
<1>3. CASE beginTask
  <2>1. \A m \in Runs : m # taskSeq + 1 => at'[m] \in {"none", "over"}
    BY <1>0, <1>3, BeginIs DEF CurrentRun
  <2> QED BY <1>3, <2>1, BeginIs DEF LiveRuns
<1>4. CASE Asks
  <2>1. UNCHANGED <<quitting, live, command>>
    BY <1>4, AsksIs
  <2>2. ASSUME NEW n \in Runs, at[n] = "asks" /\ at' = [at EXCEPT ![n] = "parked"]
        PROVE  \A m \in Runs : at'[m] \notin {"none", "over"} => at[m] \notin {"none", "over"}
    BY <1>0, <2>2
  <2>3. \A m \in Runs : at'[m] \notin {"none", "over"} => at[m] \notin {"none", "over"}
    BY <1>4, <2>2, AsksIs
  <2> QED BY <2>1, <2>3 DEF LiveRuns
<1> QED BY <1>1, <1>2, <1>3, <1>4, TerminalCases

\* Questions that are fewer are no new ones.
LEMMA FewerIs ==
  ASSUME Fewer
  PROVE  /\ Questions' \subseteq Questions /\ decisions' \subseteq decisions /\ Pendings' = Pendings
         /\ approval' # <<>> => approval' = approval /\ approval # <<>>
<1>1. approval' \in {approval, <<>>} /\ Pendings' = Pendings /\ decisions' \subseteq decisions
  BY DEF Fewer
<1> QED BY <1>1 DEF Questions

LEMMA OneQuestionStep ==
  ASSUME TerminalTypes, OneListener, CurrentRun, LiveRuns, OneQuestion, TerminalNext PROVE OneQuestion'
<1> USE TerminalAssumption DEF modelVars, runVars, cmdVars
<1>0. /\ at \in [Runs -> RunStates] /\ live \in [Runs -> BOOLEAN] /\ taskSeq \in 0 .. MaxRuns
      /\ Pendings \subseteq {"pending"} \X Runs \X Nat /\ ~quitting
      /\ approval \in (Runs \X Nat) \cup {<<>>} /\ calls \in [Runs -> Nat]
  BY TerminalCases DEF TerminalTypes
\* The runs under way are one.
<1>a. \A m, n \in Runs : at[m] \notin {"none", "over"} /\ at[n] \notin {"none", "over"} => m = n
  BY DEF CurrentRun
<1>1. ASSUME Fewer, \A m \in Runs : at'[m] = "asks" => at[m] = "asks" \/ Questions = {},
             \A m \in Runs : at'[m] = "parked" => at[m] = "parked" /\ calls'[m] = calls[m],
             command' => command,
             command' /\ Questions' # {} => \A m \in Runs : at[m] = "parked" => at'[m] = "parked"
      PROVE  OneQuestion'
  <2>1. /\ Questions' \subseteq Questions /\ decisions' \subseteq decisions /\ Pendings' = Pendings
        /\ approval' # <<>> => approval # <<>>
    BY <1>1, FewerIs
  <2>2. \A n \in Runs : at'[n] = "asks" => Questions' = {}
    BY <1>1, <2>1 DEF OneQuestion
  <2>3. command' /\ Questions' # {} => \E n \in Runs : at'[n] = "parked"
    BY <1>1, <2>1 DEF OneQuestion
  <2>4. ASSUME NEW n \in Runs, at'[n] = "parked"
        PROVE  /\ Questions' \subseteq {<<n, calls'[n]>>}
               /\ approval' # <<>> => Pendings' = {} /\ decisions' = {}
               /\ Pendings' # {} => decisions' = {}
               /\ \A d, e \in decisions' : d = e
    <3>1. /\ Questions \subseteq {<<n, calls[n]>>} /\ calls'[n] = calls[n]
          /\ approval # <<>> => Pendings = {} /\ decisions = {}
          /\ Pendings # {} => decisions = {}
          /\ \A d, e \in decisions : d = e
      BY <1>1, <2>4 DEF OneQuestion
    <3> QED BY <2>1, <3>1
  <2> QED BY <2>2, <2>3, <2>4 DEF OneQuestion
<1>2. ASSUME NEW n \in Runs, Wants(n) PROVE OneQuestion'
  <2>1. at[n] = "works" /\ live[n] /\ UNCHANGED command
        /\ \E s \in {"emits", "asks"} : at' = [at EXCEPT ![n] = s]
    BY <1>2 DEF Wants
  <2>2. \A m \in Runs : at[m] # "parked"
    BY <1>a, <2>1
  <2>3. Questions = {}
    BY <2>1, <2>2 DEF LiveRuns, OneQuestion
  <2>4. Fewer
    BY <1>2, QuietRunIsFewer DEF Quiet
  <2>5. \A m \in Runs : at'[m] # "parked"
    BY <1>0, <2>1, <2>2
  <2> QED BY <1>1, <2>1, <2>2, <2>3, <2>4, <2>5
<1>3. ASSUME NEW n \in Runs, Return(n) PROVE OneQuestion'
  <2>1. at' = [at EXCEPT ![n] = "over"] /\ UNCHANGED <<command, calls, live>>
        /\ (at[n] = "works" \/ (at[n] \in {"asks", "parked"} /\ ~live[n]))
    BY <1>3 DEF Return, Resolve
  <2>2. Fewer
    BY <1>3, QuietRunIsFewer DEF Quiet
  <2>3. at[n] = "parked" => ~command
    BY <1>0, <2>1 DEF LiveRuns
  <2>4. at'[n] = "over" /\ \A m \in Runs \ {n} : at'[m] = at[m]
    BY <1>0, <2>1
  <2> QED BY <1>1, <2>1, <2>2, <2>3, <2>4
<1>4. ASSUME NEW n \in Runs, NEW d \in decisions, Answered(n, d) PROVE OneQuestion'
  <2>1. at[n] = "parked" /\ at' = [at EXCEPT ![n] = "works"] /\ decisions' = decisions \ {d}
        /\ UNCHANGED <<command, calls, approval, inbox>>
    BY <1>4 DEF Answered
  <2>2. decisions' = {} /\ Pendings = {} /\ approval = <<>>
    BY <2>1 DEF OneQuestion
  <2>3. Pendings' = {} /\ approval' = <<>>
    BY <2>1, <2>2 DEF Pendings
  <2>4. Questions' = {}
    BY <2>2, <2>3 DEF Questions
  <2>5. \A m \in Runs : at'[m] # "parked"
    BY <1>0, <1>a, <2>1
  <2> QED BY <2>4, <2>5 DEF OneQuestion
<1>5. ASSUME NEW n \in Runs, Quiet(n), ~Wants(n), ~Return(n), ~(\E d \in decisions : Answered(n, d)) PROVE OneQuestion'
  <2>1. at' = at \/ (at[n] = "emits" /\ at' = [at EXCEPT ![n] = "works"])
    BY <1>5 DEF Quiet, Emit, Command, waitStream, watchTaskCancel, onCancelled, onDone, onAborted, onEvent
  <2>2. calls' = calls
    BY <1>5 DEF Quiet, Emit, Command, waitStream, watchTaskCancel, onCancelled, onDone, onAborted, onEvent
  <2>3. UNCHANGED command
    BY <1>5, QuietRunIs
  <2>4. \A m \in Runs : (at'[m] = "asks" => at[m] = "asks") /\ (at'[m] = "parked" <=> at[m] = "parked")
    BY <1>0, <2>1
  <2> QED BY <1>1, <1>5, <2>2, <2>3, <2>4, QuietRunIsFewer
<1>6. CASE QuietModel /\ ~beginTask
  BY <1>1, <1>6, QuietModelIs, QuietModelIsFewer
<1>7. CASE beginTask
  <2>1. Fewer
    BY <1>7, QuietModelIsFewer DEF QuietModel
  <2>2. \A m \in Runs : at[m] \in {"none", "over"}
    BY <1>7, BeginIs DEF CurrentRun
  <2>3. \A m \in Runs : at'[m] \notin {"asks", "parked"}
    BY <1>0, <1>7, <2>2, BeginIs
  <2> QED BY <1>1, <1>7, <2>1, <2>2, <2>3, BeginIs
<1>8. ASSUME NEW n \in Runs, at[n] = "asks" /\ at' = [at EXCEPT ![n] = "parked"],
             Pendings' = Pendings \cup {<<"pending", n, calls[n]>>}, UNCHANGED <<approval, decisions, calls, command>>
      PROVE  OneQuestion'
  <2>1. decisions = {} /\ Pendings = {} /\ approval = <<>>
    <3>1. Questions = {}
      BY <1>8 DEF OneQuestion
    <3>2. \A d \in decisions : d[3] \in Questions
      BY DEF Questions
    <3>3. \A m \in Pendings : <<m[2], m[3]>> \in Questions
      BY DEF Questions
    <3>4. approval # <<>> => approval \in Questions
      BY DEF Questions
    <3> QED BY <3>1, <3>2, <3>3, <3>4
  <2>2. Pendings' = {<<"pending", n, calls[n]>>} /\ decisions' = {} /\ approval' = <<>>
    BY <1>8, <2>1
  <2>3. Questions' = {<<n, calls[n]>>}
    BY <2>2 DEF Questions
  <2>4. \A m \in Runs : at'[m] # "asks" /\ (at'[m] = "parked" <=> m = n)
    BY <1>0, <1>8, <1>a
  <2> QED BY <1>8, <2>2, <2>3, <2>4 DEF OneQuestion
<1>9. ASSUME NEW n \in Runs, NEW c \in Nat, <<"pending", n, c>> \in Pendings, Pendings' = Pendings \ {<<"pending", n, c>>},
             approval' = <<n, c>> /\ UNCHANGED <<at, listeners, decisions, calls, command>>
      PROVE  OneQuestion'
  <2>1. <<n, c>> \in Questions
    <3>1. <<"pending", n, c>>[2] = n /\ <<"pending", n, c>>[3] = c
      OBVIOUS
    <3> QED BY <1>9, <3>1 DEF Questions
  <2>2. Questions' \subseteq Questions
    BY <1>9, <2>1 DEF Questions
  <2>3. ASSUME NEW m \in Runs, at[m] = "parked"
        PROVE  Pendings' = {} /\ decisions' = {} /\ Questions \subseteq {<<m, calls[m]>>}
    <3>1. Questions \subseteq {<<m, calls[m]>>} /\ decisions = {}
      BY <1>9, <2>3 DEF OneQuestion
    <3>2. ASSUME NEW p \in Pendings PROVE p = <<"pending", n, c>>
      <4>1. p = <<"pending", p[2], p[3]>>
        BY <1>0
      <4>2. <<p[2], p[3]>> \in Questions
        BY DEF Questions
      <4>3. <<p[2], p[3]>> = <<m, calls[m]>> /\ <<n, c>> = <<m, calls[m]>>
        BY <2>1, <3>1, <4>2
      <4> QED BY <4>1, <4>3
    <3> QED BY <1>9, <3>1, <3>2
  <2>4. \A m \in Runs : at'[m] = "asks" => Questions' = {}
    BY <1>9, <2>2 DEF OneQuestion
  <2>5. command' /\ Questions' # {} => \E m \in Runs : at'[m] = "parked"
    BY <1>9, <2>2 DEF OneQuestion
  <2> QED BY <1>9, <2>2, <2>3, <2>4, <2>5 DEF OneQuestion
<1>10. ASSUME approval # <<>>, approval' = <<>>, Pendings' = Pendings, UNCHANGED <<at, calls, command>>,
              NEW allow \in BOOLEAN, decisions' = decisions \cup {<<taskCtx, allow, approval>>}
       PROVE  OneQuestion'
  <2>1. Questions' = Questions
    <3>1. {d[3] : d \in decisions'} = {d[3] : d \in decisions} \cup {approval}
      <4>1. <<taskCtx, allow, approval>>[3] = approval
        OBVIOUS
      <4>2. \A x, S : {d[3] : d \in S \cup {x}} = {d[3] : d \in S} \cup {x[3]}
        OBVIOUS
      <4> QED BY <1>10, <4>1, <4>2
    <3>2. {m \in {approval'} : m # <<>>} = {} /\ ({approval} \ {<<>>}) = {approval} /\ ({approval'} \ {<<>>}) = {}
      BY <1>10
    <3> QED BY <1>10, <3>1, <3>2 DEF Questions
  <2>2. ASSUME NEW n \in Runs, at'[n] = "parked"
        PROVE  Pendings' = {} /\ \A d, e \in decisions' : d = e
    BY <1>10, <2>2 DEF OneQuestion
  <2> QED BY <1>10, <2>1, <2>2 DEF OneQuestion
<1>11. CASE Asks
  <2>1. UNCHANGED <<calls, command>>
    BY <1>11, AsksIs
  <2> QED BY <1>8, <1>9, <1>10, <1>11, <2>1, AsksIs
<1> QED BY <1>2, <1>3, <1>4, <1>5, <1>6, <1>7, <1>11, TerminalCases

LEMMA TerminalStep == TerminalInv /\ [TerminalNext]_terminalVars => TerminalInv'
<1> SUFFICES ASSUME TerminalInv, [TerminalNext]_terminalVars PROVE TerminalInv'
  OBVIOUS
<1>1. CASE TerminalNext
  BY <1>1, TerminalTypesStep, OneListenerStep, CurrentRunStep, LiveRunsStep, OneQuestionStep DEF TerminalInv
<1>2. CASE UNCHANGED terminalVars
  <2> USE <1>2 DEF terminalVars, modelVars, runVars, cmdVars
  <2>1. TerminalTypes' /\ OneListener'
    BY DEF TerminalInv, TerminalTypes, Pendings, OneListener, Shown
  <2>2. CurrentRun' /\ LiveRuns'
    BY DEF TerminalInv, CurrentRun, LiveRuns
  <2>3. OneQuestion'
    BY DEF TerminalInv, OneQuestion, Questions, Pendings
  <2> QED BY <2>1, <2>2, <2>3 DEF TerminalInv
<1> QED BY <1>1, <1>2

LEMMA TerminalImplies ==
  ASSUME TerminalInv
  PROVE  /\ TerminalTypeOK /\ PromptIsLive
         /\ TerminalNext => \A n \in Runs : (at[n] = "parked" /\ at'[n] = "works") =>
              \E d \in decisions \ decisions' : d[3] = <<n, calls[n]>>
<1> USE DEF TerminalInv
<1>0. at \in [Runs -> RunStates] /\ approval \in (Runs \X Nat) \cup {<<>>} /\ taskSeq \in 0 .. MaxRuns
  BY DEF TerminalTypes
<1>1. TerminalTypeOK
  BY DEF TerminalTypes, OneListener, Shown, Pendings, TerminalTypeOK
<1>2. PromptIsLive
  <2> SUFFICES ASSUME approval # <<>>, live[approval[1]]
               PROVE  at[approval[1]] = "parked" /\ calls[approval[1]] = approval[2]
    BY DEF PromptIsLive
  <2>1. approval \in Runs \X Nat /\ approval \in Questions
    BY <1>0 DEF Questions
  <2>2. command
    BY <2>1 DEF LiveRuns
  <2>3. PICK n \in Runs : at[n] = "parked"
    BY <2>1, <2>2 DEF OneQuestion
  <2>4. approval = <<n, calls[n]>>
    BY <2>1, <2>3 DEF OneQuestion
  <2> QED BY <2>3, <2>4
<1>3. ASSUME TerminalNext, NEW n \in Runs, at[n] = "parked", at'[n] = "works"
      PROVE  \E d \in decisions \ decisions' : d[3] = <<n, calls[n]>>
  <2> USE DEF modelVars, runVars, cmdVars
  <2>1. ASSUME NEW m \in Runs, NEW d \in decisions, Answered(m, d)
        PROVE  \E e \in decisions \ decisions' : e[3] = <<n, calls[n]>>
    <3>1. d \notin decisions' /\ d[3] \in Questions
      BY <2>1 DEF Answered, Questions
    <3> QED BY <1>3, <2>1, <3>1 DEF OneQuestion
  <2>2. ASSUME NEW m \in Runs, Quiet(m), ~(\E d \in decisions : Answered(m, d)) PROVE FALSE
    <3>1. \/ at' = at \/ (at[m] \in {"works", "emits"} /\ at' = [at EXCEPT ![m] = at'[m]])
          \/ at' = [at EXCEPT ![m] = "over"]
      <4>1. CASE Wants(m)
        <5>1. at[m] = "works" /\ \E s \in {"emits", "asks"} : at' = [at EXCEPT ![m] = s]
          BY <4>1 DEF Wants
        <5> QED BY <1>0, <5>1
      <4>2. CASE Emit(m)
        BY <1>0, <4>2 DEF Emit
      <4>3. CASE Return(m)
        BY <4>3 DEF Return
      <4>4. CASE ~Wants(m) /\ ~Emit(m) /\ ~Return(m)
        BY <2>2, <4>4 DEF Quiet, Command, waitStream, watchTaskCancel, onCancelled, onDone, onAborted, onEvent
      <4> QED BY <4>1, <4>2, <4>3, <4>4
    <3> QED BY <1>0, <1>3, <3>1
  <2>3. CASE QuietModel /\ ~beginTask
    BY <1>3, <2>3, QuietModelIs
  <2>4. CASE beginTask
    <3>1. \A m \in Runs : at[m] \in {"none", "over"}
      BY <2>4, BeginIs DEF CurrentRun
    <3> QED BY <1>3, <3>1
  <2>5. CASE Asks
    <3>1. at' = at \/ \E m \in Runs : at[m] = "asks" /\ at' = [at EXCEPT ![m] = "parked"]
      BY <2>5, AsksIs
    <3> QED BY <1>0, <1>3, <3>1
  <2> QED BY <1>3, <2>1, <2>2, <2>3, <2>4, <2>5, TerminalCases
<1> QED BY <1>1, <1>2, <1>3

(* The decision approvalGate.Resolve takes is the one the human made about the *)
(* very call it asked for, of this run and of no other, in whatever order the  *)
(* messages of Update and its commands arrive; and a prompt on the screen is   *)
(* one its run is parked on, as long as the run's context stands.              *)
THEOREM TerminalIsSafe == TerminalSpec => TerminalSafe
<1>1. TerminalSpec => TerminalInit /\ [][TerminalNext]_terminalVars
  BY DEF TerminalSpec
<1>2. TerminalInit /\ [][TerminalNext]_terminalVars => []TerminalInv
  BY TerminalInitSafe, TerminalStep, PTL
<1>3. TerminalInv => TerminalTypeOK /\ PromptIsLive
  BY TerminalImplies
<1>4. TerminalInv /\ [TerminalNext]_terminalVars
        => [\A n \in Runs : (at[n] = "parked" /\ at'[n] = "works") =>
             \E d \in decisions \ decisions' : d[3] = <<n, calls[n]>>]_terminalVars
  BY TerminalImplies
<1> QED BY <1>1, <1>2, <1>3, <1>4, PTL DEF TerminalSafe, AnswerIsForTheQuestion
=============================================================================
