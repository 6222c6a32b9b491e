------------------------------- MODULE Gateway -------------------------------
(* The chat gateway (internal/gateway and its Telegram adapter): the adapter   *)
(* fetches messages, one worker makes a task of each, and the poller sends the *)
(* answers back in chunks.  Either process may crash, every call between the   *)
(* gateway, the core and Telegram may fail, and one that fails may have taken  *)
(* effect.  A hashed chat id is its chat, updates without text are left out,   *)
(* and so is the clock of the backoff: a retry may come with any later pass.   *)
EXTENDS Naturals, Sequences, FiniteSets

CONSTANTS
  ImChats,
  MaxMessages,   \* bound: messages sent to the bot, its update ids
  MaxTaskSeq,    \* bound: ids minted in one life
  MaxSessions,   \* bound: sessions created
  Retries,       \* cfg.Delivery.Retries
  Chunks,        \* chunks of an answer
  InboundCap,    \* the inbound channel's capacity, 64 in the code
  MaxStops,      \* bound: crashes and restarts of the gateway and of the core
  NoTask, Untracked

Messages == 1 .. MaxMessages
TaskIds == ImChats \X (1 .. MaxTaskSeq)

ASSUME GatewayAssumption ==
  /\ Retries \in Nat \ {0} /\ Chunks \in Nat \ {0} /\ InboundCap \in Nat \ {0}
  /\ MaxMessages \in Nat /\ MaxTaskSeq \in Nat
  /\ Untracked \notin [msg : Messages, attempts : Nat] /\ NoTask \notin TaskIds

VARIABLES
  chatOf,      \* the chat each message comes from
  arrived,     \* messages at Telegram so far
  confirmed,   \* those it has forgotten: an offset above them was asked for
  offset,      \* Adapter.offset - 1
  batch,       \* updates fetched and not yet handed on
  inbound,     \* the channel to the worker
  worker,      \* the message in hand, its session, and the step
  mintSeq,     \* GatewayRunner.seq
  binding,     \* channel_bindings: chat -> session, 0 for none
  madeSessions,\* sessions of the core
  tracker,     \* DeliveryTracker.tasks: id -> message answered and attempts
  poll,        \* the task under delivery and its next chunk
  taskOf,      \* core: id -> message, session and status of the task
  liveIds,     \* core: ids its scheduler knows
  resultOf,    \* core: id -> the message that the latest run row answers, 0 for no answer
  shown,       \* ghost: message -> what its chat was shown for it, chunk by chunk
  settled,     \* ghost: messages answered, given up with a log line, or without an answer
  lost,        \* ghost: confirmed messages that a crash took
  submissions, \* ghost: message -> times it was submitted
  stops
telegramVars == <<chatOf, arrived, confirmed>>
intakeVars == <<offset, batch, inbound, worker, mintSeq>>
coreVars == <<madeSessions, taskOf, liveIds, resultOf>>
gatewayGhosts == <<shown, settled, lost, submissions, stops>>
gatewayVars == <<telegramVars, intakeVars, binding, tracker, poll, coreVars, gatewayGhosts>>

NoInbound == [step |-> "idle", msg |-> 0, session |-> 0, id |-> NoTask]
NoPoll == [id |-> NoTask, chunk |-> 0]
NoCoreTask == [msg |-> 0, session |-> 0, status |-> "none"]

GatewayInit ==
  /\ chatOf \in [Messages -> ImChats] /\ arrived = 0 /\ confirmed = 0 /\ offset = 0
  /\ batch = <<>> /\ inbound = <<>> /\ worker = NoInbound /\ mintSeq = 0
  /\ binding = [c \in ImChats |-> 0] /\ madeSessions = 0
  /\ tracker = [t \in TaskIds |-> Untracked] /\ poll = NoPoll
  /\ taskOf = [t \in TaskIds |-> NoCoreTask] /\ liveIds = {} /\ resultOf = [t \in TaskIds |-> 0]
  /\ shown = [n \in Messages |-> <<>>] /\ settled = {} /\ lost = {}
  /\ submissions = [n \in Messages |-> 0] /\ stops = 0

(***************************************************************************)
(* The adapter.                                                            *)
(***************************************************************************)
Arrive ==
  /\ arrived < MaxMessages /\ arrived' = arrived + 1
  /\ UNCHANGED <<chatOf, confirmed, intakeVars, binding, tracker, poll, coreVars, gatewayGhosts>>

\* getUpdates confirms what is below its offset; its answer may be lost.
getUpdates ==
  LET from == IF offset > confirmed THEN offset ELSE confirmed IN
  /\ batch = <<>> /\ arrived > from /\ confirmed' = from
  /\ batch' \in {<<>>, [i \in 1 .. (arrived - from) |-> from + i]}
  /\ UNCHANGED <<chatOf, arrived, offset, inbound, worker, mintSeq, binding, tracker, poll, coreVars, gatewayGhosts>>

PassOn ==
  /\ batch # <<>> /\ Len(inbound) < InboundCap
  /\ offset' = Head(batch) /\ batch' = Tail(batch) /\ inbound' = Append(inbound, Head(batch))
  /\ UNCHANGED <<telegramVars, worker, mintSeq, binding, tracker, poll, coreVars, gatewayGhosts>>

(***************************************************************************)
(* HandleInbound, on the one worker: any error ends it with a log line.    *)
(***************************************************************************)
Drop == worker' = NoInbound /\ settled' = settled \cup {worker.msg}
At(step) == worker' = [worker EXCEPT !.step = step]

\* A slip of HandleInbound: a binding that cannot be read is taken for none.
Bug_BoundTo(c) == {binding[c], 0}

BoundTo(c) == {binding[c]}

ReceiveInbound ==
  LET n == Head(inbound) IN
  /\ worker = NoInbound /\ inbound # <<>> /\ inbound' = Tail(inbound)
  /\ \/ \E s \in BoundTo(chatOf[n]) :
          worker' = [NoInbound EXCEPT !.msg = n, !.session = s, !.step = IF s = 0 THEN "ensure" ELSE "submit"]
        /\ UNCHANGED settled
     \/ worker' = NoInbound /\ settled' = settled \cup {n}
  /\ UNCHANGED <<telegramVars, offset, batch, mintSeq, binding, tracker, poll, coreVars, shown, lost, submissions, stops>>

EnsureSession ==
  LET s == madeSessions + 1 IN
  /\ worker.step = "ensure"
  /\ \/ madeSessions < MaxSessions /\ madeSessions' = s
        /\ \/ worker' = [worker EXCEPT !.session = s, !.step = "bind"] /\ UNCHANGED settled
           \/ Drop
     \/ Drop /\ UNCHANGED madeSessions
  /\ UNCHANGED <<telegramVars, offset, batch, inbound, mintSeq, binding, tracker, poll, taskOf, liveIds, resultOf,
                 shown, lost, submissions, stops>>

Bind ==
  /\ worker.step = "bind"
  /\ \/ binding' = [binding EXCEPT ![chatOf[worker.msg]] = worker.session] /\ At("submit") /\ UNCHANGED settled
     \/ Drop /\ UNCHANGED binding
  /\ UNCHANGED <<telegramVars, offset, batch, inbound, mintSeq, tracker, poll, coreVars, shown, lost, submissions, stops>>

mintTaskID == <<chatOf[worker.msg], mintSeq + 1>>

\* The core refuses an id its scheduler knows; otherwise the task is there,
\* whether its answer arrives or not.
SubmitTask ==
  LET id == mintTaskID
      n == worker.msg
  IN
  /\ worker.step = "submit" /\ mintSeq < MaxTaskSeq /\ mintSeq' = mintSeq + 1
  /\ \/ /\ id \notin liveIds /\ liveIds' = liveIds \cup {id}
        /\ taskOf' = [taskOf EXCEPT ![id] = [msg |-> n, session |-> worker.session, status |-> "pending"]]
        /\ submissions' = [submissions EXCEPT ![n] = @ + 1]
        /\ \/ worker' = [worker EXCEPT !.id = id, !.step = "track"] /\ UNCHANGED settled
           \/ Drop
     \/ Drop /\ UNCHANGED <<taskOf, liveIds, submissions>>
  /\ UNCHANGED <<telegramVars, offset, batch, inbound, binding, tracker, poll, madeSessions, resultOf, shown, lost, stops>>

Track(id, n) == [tracker EXCEPT ![id] = [msg |-> n, attempts |-> 0]]

StartTracking ==
  /\ worker.step = "track" /\ worker' = NoInbound /\ tracker' = Track(worker.id, worker.msg)
  /\ UNCHANGED <<telegramVars, offset, batch, inbound, mintSeq, binding, poll, coreVars, gatewayGhosts>>

(***************************************************************************)
(* The core: how a task ends, what the result endpoint answers.            *)
(***************************************************************************)
\* A run that completes leaves its answer in its row; one that fails or waits
\* for approval leaves a row without, and a task refused before its run began
\* (the plugin gate, a row that cannot be written) leaves none.
EndTask(id, status) ==
  /\ taskOf[id].status = "pending" /\ id \in liveIds /\ taskOf' = [taskOf EXCEPT ![id].status = status]
  /\ \/ resultOf' = [resultOf EXCEPT ![id] = IF status = "done" THEN taskOf[id].msg ELSE 0]
     \/ status = "failed" /\ UNCHANGED resultOf
  /\ UNCHANGED <<telegramVars, intakeVars, binding, tracker, poll, madeSessions, liveIds, gatewayGhosts>>

ResumeTask(id) ==
  /\ taskOf[id].status = "suspended" /\ taskOf' = [taskOf EXCEPT ![id].status = "pending"]
  /\ UNCHANGED <<telegramVars, intakeVars, binding, tracker, poll, madeSessions, liveIds, resultOf, gatewayGhosts>>

\* The scheduler forgets all but the suspended tasks; the rows keep their status.
CoreRestart ==
  /\ stops < MaxStops /\ stops' = stops + 1 /\ liveIds # {}
  /\ liveIds' = {id \in liveIds : taskOf[id].status = "suspended"}
  /\ UNCHANGED <<telegramVars, intakeVars, binding, tracker, poll, madeSessions, taskOf, resultOf,
                 shown, settled, lost, submissions>>

(***************************************************************************)
(* PollOnce, one tracked task at a time.                                   *)
(***************************************************************************)
Final == {"done", "failed", "suspended"}

Took(id) == tracker' = [tracker EXCEPT ![id] = Untracked] /\ settled' = settled \cup {tracker[id].msg}

\* A slip of PollOnce: a task without an answer is left for the next pass.
Bug_NothingToSend(id) == UNCHANGED <<tracker, settled>>

NothingToSend(id) == Took(id)

firstChunk(attempts) == 1

\* The task's answer, when it has come to an end; without one it is not tracked
\* any longer.  An error, a status not terminal or unknown leave it for later.
TaskResult(id) ==
  /\ poll = NoPoll /\ tracker[id] # Untracked /\ taskOf[id].status \in Final
  /\ IF resultOf[id] # 0
     THEN poll' = [id |-> id, chunk |-> firstChunk(tracker[id].attempts)] /\ UNCHANGED <<tracker, settled>>
     ELSE NothingToSend(id) /\ UNCHANGED poll
  /\ UNCHANGED <<telegramVars, intakeVars, binding, coreVars, shown, lost, submissions, stops>>

GivenUp(attempts) == attempts + 1 >= Retries

\* Route's next chunk: a failure ends this attempt, and the next begins anew.
Send ==
  LET id == poll.id
      n == tracker[id].msg
      sent == [shown EXCEPT ![n] = Append(@, <<resultOf[id], poll.chunk>>)]
      failed == IF GivenUp(tracker[id].attempts) THEN Took(id)
                ELSE tracker' = [tracker EXCEPT ![id].attempts = @ + 1] /\ UNCHANGED settled
  IN
  /\ poll # NoPoll
  /\ \/ /\ shown' = sent
        /\ IF poll.chunk = Chunks THEN poll' = NoPoll /\ Took(id)
           ELSE poll' = [poll EXCEPT !.chunk = @ + 1] /\ UNCHANGED <<tracker, settled>>
     \/ shown' \in {shown, sent} /\ poll' = NoPoll /\ failed
  /\ UNCHANGED <<telegramVars, intakeVars, binding, coreVars, lost, submissions, stops>>

(***************************************************************************)
(* Crash and restart of the gateway.                                       *)
(***************************************************************************)
InMemory ==
  {batch[i] : i \in DOMAIN batch} \cup {inbound[i] : i \in DOMAIN inbound} \cup ({worker.msg} \ {0})
    \cup {tracker[t].msg : t \in {u \in TaskIds : tracker[u] # Untracked}}

GatewayCrash ==
  /\ stops < MaxStops /\ stops' = stops + 1
  /\ offset' = 0 /\ batch' = <<>> /\ inbound' = <<>> /\ worker' = NoInbound /\ mintSeq' = 0
  /\ tracker' = [t \in TaskIds |-> Untracked] /\ poll' = NoPoll
  /\ lost' = lost \cup {n \in InMemory : n <= confirmed}
  /\ UNCHANGED <<telegramVars, binding, coreVars, shown, settled, submissions>>

GatewayNext ==
  \/ Arrive \/ getUpdates \/ PassOn \/ ReceiveInbound \/ EnsureSession \/ Bind \/ SubmitTask \/ StartTracking
  \/ Send \/ CoreRestart \/ GatewayCrash
  \/ \E id \in TaskIds :
       TaskResult(id) \/ ResumeTask(id) \/ \E status \in Final : EndTask(id, status)

\* The poller passes over every tracked task again and again; a Send ends.
GatewayFairness == WF_gatewayVars(Send) /\ \A id \in TaskIds : WF_gatewayVars(TaskResult(id))
GatewaySpec == GatewayInit /\ [][GatewayNext]_gatewayVars /\ GatewayFairness

(***************************************************************************)
(* Properties.                                                             *)
(***************************************************************************)
\* The parts agree: what is being delivered is tracked and answered, the offset
\* is behind what arrived.
GatewayTypeOK ==
  /\ confirmed <= arrived /\ offset <= arrived /\ Len(inbound) <= InboundCap
  /\ poll # NoPoll => tracker[poll.id] # Untracked /\ resultOf[poll.id] # 0
  /\ \A id \in TaskIds : tracker[id] # Untracked => tracker[id].attempts < Retries

\* No message disappears on the way from the chat and back: one that Telegram no
\* longer keeps, or the adapter would not fetch again, is in the gateway's hands,
\* or answered, or was given up with a log line, unless a crash took it.
Accounted == \A n \in 1 .. (IF offset > confirmed THEN offset ELSE confirmed) :
  n \in InMemory \cup settled \cup lost

\* A chat stays one conversation: its tasks all run in the session it is bound
\* to, whatever failed or crashed, and no other chat's tasks do.
OneSession == \A id \in TaskIds : taskOf[id] # NoCoreTask =>
  /\ taskOf[id].session = binding[id[1]]
  /\ \A c \in ImChats \ {id[1]} : binding[c] # taskOf[id].session

\* An answer is sent at most Retries times, chunk after chunk, for each time its
\* message was submitted: a chunk is never the first without those before it.
BoundedRetries == \A n \in Messages :
  /\ Cardinality({i \in DOMAIN shown[n] : shown[n][i][2] = 1}) <= Retries * submissions[n]
  /\ \A i \in DOMAIN shown[n] : shown[n][i][2] > 1 => i > 1 /\ shown[n][i - 1][2] = shown[n][i][2] - 1

\* A task that has come to an end, and stays so, is answered or given up.
AnsweredOrGivenUp == \A id \in TaskIds :
  (tracker[id] # Untracked /\ taskOf[id].status \in Final)
    ~> (tracker[id] = Untracked \/ taskOf[id].status \notin Final)

\* No id that the gateway mints is one the core knows already.
NeverCollides == worker.step = "submit" => mintTaskID \notin liveIds

(* No message of a chat is lost between Telegram and the core, a chat stays one
   session, and an answer is sent a bounded number of times and in order,
   through failed calls, refused submissions and crashes. *)
GatewaySafe ==
  /\ [](GatewayTypeOK /\ Accounted /\ OneSession /\ BoundedRetries)
===============================================================================
