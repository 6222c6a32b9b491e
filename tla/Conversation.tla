----------------------------- MODULE Conversation -----------------------------
(***************************************************************************)
(* The exchange one task has with its model (internal/runtime: runToolLoop,    *)
(* messages.go, compaction.go, loaded.go, checkpoint.go): history, rounds of    *)
(* tool calls and their answers, the pinned block of loaded capabilities, the   *)
(* brakes on a loop, compaction, suspension and resumption.  Texts are left     *)
(* out: a message is its role and what it stands for.                           *)
(***************************************************************************)
EXTENDS Naturals, Sequences, FiniteSets

CONSTANTS
  Asks,        \* what a model may ask for: name -> sequence of [tool, loads]
  HistorySet,  \* transcripts of the session a task may start with
  PluginCalls, \* tools the plugin's tool "plug" calls
  Known,       \* capabilities of the catalog
  MaxLoaded,   \* how many definitions the block has room for
  WarnStreak, AbortStreak, WarnCount, AbortCount, ToolLoopCap, FailWarn,
  PreserveTail, MaxCompactions, MaxToolRounds,
  MaxSuspends  \* bound

Tools == {Asks[a][i].tool : a \in DOMAIN Asks, i \in 1 .. 2}
Answer == "answer"
Responses == DOMAIN Asks \cup {Answer}

Msg(role, ask, no, shows) == [role |-> role, ask |-> ask, no |-> no, shows |-> shows]
User(what) == Msg("user", what, 0, <<>>)

\* A provider takes no answer without its call and no call without its answers.
Whole(m) ==
  \A i \in DOMAIN m :
    /\ m[i].role = "tool" =>
         /\ m[i].no \in 1 .. 2 /\ m[i].ask # Answer
         /\ i > m[i].no /\ m[i - m[i].no].role = "assistant" /\ m[i - m[i].no].ask = m[i].ask
    /\ (m[i].role = "assistant" /\ m[i].ask # Answer) =>
         \A k \in 1 .. 2 : i + k <= Len(m) /\ m[i + k].role = "tool" /\ m[i + k].no = k

ASSUME ConversationAssumption ==
  /\ Answer \notin DOMAIN Asks /\ PluginCalls \subseteq Tools
  /\ \A a \in DOMAIN Asks : Len(Asks[a]) = 2 /\ \A i \in 1 .. 2 : Asks[a][i].loads \in Seq(STRING)
  /\ \A h \in HistorySet : /\ h \in Seq([role : {"user", "assistant", "tool"}, ask : STRING, no : Nat, shows : {<<>>}])
                          /\ Whole(h)
  /\ AbortCount \in Nat \ {0} /\ ToolLoopCap \in Nat \ {0} /\ MaxToolRounds \in Nat
  /\ MaxLoaded \in Nat \ {0} /\ PreserveTail \in Nat \ {0}

VARIABLES
  msgs, taskStart,  \* the messages; how many of them are not this task's own
  lastLoaded,       \* the block as last shown
  loaded,           \* the block, least recently loaded first
  round, resp, stop,
  seen, named, failures,  \* the brakes' counters, of one leg of the run
  compactions,      \* done; the tokens spent have passed the threshold
  phase,            \* "gate", "guards", "compact", "closing", "done", "failed", "suspended"
  cut,              \* what the brakes said of the last round
  checkpoint, suspends,
  streak, made, used  \* the last streak counted; rounds made since the task began; calls run in this leg

guardVars == <<seen, named, failures>>
convVars == <<msgs, taskStart, lastLoaded, loaded, round, resp, stop, guardVars,
              compactions, phase, cut, checkpoint, suspends, streak, made, used>>

\* appendHistory comes before anything of the task's own, and the request ends
\* with the task's input.
appendCurrentInput(h) == IF h = <<>> THEN <<>> ELSE <<User("input")>>

ConversationInit ==
  /\ \E h \in HistorySet :
       /\ msgs = <<Msg("base", "", 0, <<>>)>> \o h \o appendCurrentInput(h)
       /\ taskStart = 1 + Len(h)
  /\ lastLoaded = <<>> /\ loaded = <<>> /\ round = 0 /\ resp \in Responses /\ stop = ""
  /\ seen = [a \in DOMAIN Asks |-> 0] /\ named = [t \in Tools |-> 0] /\ failures = [t \in Tools |-> 0]
  /\ compactions = 0 /\ phase = "gate" /\ cut = "none"
  /\ checkpoint = <<>> /\ suspends = 0 /\ streak = 0 /\ made = <<>> /\ used = [t \in Tools |-> 0]

-----------------------------------------------------------------------------
(* The brakes.                                                             *)

\* The task's own requests; repeatedCallStreak looks back over them.
OwnAsks == {i \in taskStart + 1 .. Len(msgs) : msgs[i].role = "assistant" /\ msgs[i].ask # Answer}
repeatedCallStreak(a) == 1 + Cardinality({i \in OwnAsks : \A j \in OwnAsks : j >= i => msgs[j].ask = a})

\* The names of one round's calls, and what a plugin reached by one of them adds.
Record(a, extra) ==
  [t \in Tools |-> named[t] + Cardinality({i \in 1 .. 2 : Asks[a][i].tool = t}) + (IF t \in extra THEN 1 ELSE 0)]

\* The cap is looked at as the model's own calls are counted; a plugin that finds
\* the allowance used up is refused.
CapHit(a) == \E i \in 1 .. 2 : Record(a, {})[Asks[a][i].tool] >= ToolLoopCap
Refused(a, extra) == {t \in extra : Record(a, {t})[t] > ToolLoopCap}

Cut(a) ==
  IF CapHit(a) THEN "cap"
  ELSE IF repeatedCallStreak(a) >= AbortStreak \/ seen[a] + 1 >= AbortCount THEN "repeat"
  ELSE IF repeatedCallStreak(a) >= WarnStreak \/ seen[a] + 1 >= WarnCount THEN "warn"
  ELSE "none"

-----------------------------------------------------------------------------
(* The pinned block.                                                       *)

\* Each goes to the end of the block, out of its old place, and what is too much
\* goes at the front: the latest stay.
Latest(s) == {i \in DOMAIN s : \A j \in i + 1 .. Len(s) : s[j] # s[i]}
appendLoaded(block, names) ==
  LET s == block \o names
      kept == {i \in Latest(s) : Cardinality({j \in Latest(s) : j > i}) < MaxLoaded}
  IN [k \in 1 .. Cardinality(kept) |-> s[CHOOSE i \in kept : Cardinality({j \in kept : j <= i}) = k]]

\* An unknown one ends its call with a failure; what came before it stays loaded.
dispatchLoadCapabilities(block, names) ==
  LET good == {i \in DOMAIN names : \A j \in 1 .. i : names[j] \in Known}
  IN appendLoaded(block, SubSeq(names, 1, Cardinality(good)))
Loads(a) == dispatchLoadCapabilities(dispatchLoadCapabilities(loaded, Asks[a][1].loads), Asks[a][2].loads)

\* Shown again as soon as its definitions, or their order, are others.
syncLoaded(block) ==
  IF block = <<>> \/ block = lastLoaded THEN <<>> ELSE <<Msg("block", "", 0, block)>>

-----------------------------------------------------------------------------
(* The loop.                                                               *)

\* One round: the model's turn, its calls with what a plugin behind one of them
\* calls, their answers, a warning about a tool that keeps failing, the block.
Round ==
  \E bad \in {{}, {1}}, extra \in {{}} \cup {{t} : t \in PluginCalls} :
    LET a == resp
        calls == Asks[a]
        spent == extra \ Refused(a, extra)
        fails == [t \in Tools |-> failures[t] + Cardinality({i \in bad : calls[i].tool = t})]
        warned == {t \in Tools : failures[t] < FailWarn /\ fails[t] >= FailWarn}
        block == Loads(a)
    IN /\ phase = "gate" /\ resp # Answer /\ round < MaxToolRounds
       /\ extra # {} => \E i \in 1 .. 2 : calls[i].tool = "plug"
       /\ streak' = repeatedCallStreak(a) /\ cut' = Cut(a)
       /\ seen' = [seen EXCEPT ![a] = @ + 1] /\ named' = Record(a, extra) /\ failures' = fails
       /\ used' = [t \in Tools |-> used[t] + Cardinality({i \in 1 .. 2 : calls[i].tool = t}) + (IF t \in spent THEN 1 ELSE 0)]
       /\ made' = Append(made, a)
       /\ loaded' = block /\ lastLoaded' = (IF block = <<>> THEN lastLoaded ELSE block)
       /\ msgs' = msgs \o <<Msg("assistant", a, 0, <<>>), Msg("tool", a, 1, <<>>), Msg("tool", a, 2, <<>>)>>
                       \o (IF warned = {} THEN <<>> ELSE <<User("failing")>>) \o syncLoaded(block)
       /\ phase' = "guards"
       /\ UNCHANGED <<taskStart, round, resp, stop, compactions, checkpoint, suspends>>

\* The brakes, then the next request.
GoOn ==
  /\ phase = "guards" /\ cut \in {"none", "warn"}
  /\ msgs' = msgs \o (IF cut = "warn" THEN <<User("repeating")>> ELSE <<>>)
  /\ resp' \in Responses /\ round' = round + 1 /\ phase' = "compact"
  /\ UNCHANGED <<taskStart, lastLoaded, loaded, stop, guardVars, compactions, cut, checkpoint, suspends, streak, made, used>>
Break ==
  /\ phase = "guards" /\ cut \in {"cap", "repeat"}
  /\ stop' = cut /\ phase' = "closing"
  /\ UNCHANGED <<msgs, taskStart, lastLoaded, loaded, round, resp, guardVars, compactions, cut, checkpoint, suspends, streak, made, used>>

\* Where the kept tail begins: never at an answer whose call would be lost.
\* A slip: the tail begins where it falls.
Bug_compactionSplit(m) ==
  LET from == Len(m) - PreserveTail + 1 IN IF Len(m) < 4 \/ from <= 2 THEN 0 ELSE from
compactionSplit(m) ==
  LET from == Len(m) - PreserveTail + 1
      at == {i \in 2 .. from : m[i].role # "tool" /\ \A j \in i + 1 .. from : m[j].role = "tool"}
  IN IF Len(m) < 4 \/ at = {} \/ at = {2} THEN 0 ELSE CHOOSE i \in at : TRUE

Boundary(from) == IF taskStart + 1 >= from THEN 2 + (taskStart + 1 - from) ELSE 2

\* Whether the tokens spent pass the threshold is left open, and a summary that
\* fails is only logged.
compactConversation ==
  LET from == compactionSplit(msgs)
  IN /\ phase = "compact" /\ phase' = "gate"
     /\ \/ compactions < MaxCompactions /\ from # 0
           /\ msgs' = <<msgs[1], Msg("summary", "", 0, <<>>)>> \o SubSeq(msgs, from, Len(msgs))
           /\ taskStart' = Boundary(from)
           /\ compactions' = compactions + 1
        \/ UNCHANGED <<msgs, taskStart, compactions>>
     /\ UNCHANGED <<lastLoaded, loaded, round, resp, stop, guardVars, cut, checkpoint, suspends, streak, made, used>>

\* The calls asked for when the budget is gone are never made.
Exhausted ==
  /\ phase = "gate" /\ resp # Answer /\ round >= MaxToolRounds
  /\ stop' = "max_rounds" /\ phase' = "closing"
  /\ UNCHANGED <<msgs, taskStart, lastLoaded, loaded, round, resp, guardVars, compactions, cut, checkpoint, suspends, streak, made, used>>

\* A last request without tools, after an instruction to answer.
generateFinalStep ==
  /\ phase = "closing"
  /\ msgs' = Append(msgs, User("closing")) /\ resp' = Answer /\ phase' = "done"
  /\ UNCHANGED <<taskStart, lastLoaded, loaded, round, stop, guardVars, compactions, cut, checkpoint, suspends, streak, made, used>>
Completed ==
  /\ phase = "gate" /\ resp = Answer /\ stop' = "completed" /\ phase' = "done"
  /\ UNCHANGED <<msgs, taskStart, lastLoaded, loaded, round, resp, guardVars, compactions, cut, checkpoint, suspends, streak, made, used>>

\* A request, an event or a flush may fail anywhere.
Fails ==
  /\ phase \in {"gate", "guards", "closing"} /\ phase' = "failed"
  /\ UNCHANGED <<msgs, taskStart, lastLoaded, loaded, round, resp, stop, guardVars, compactions, cut, checkpoint, suspends, streak, made, used>>

\* checkSuspend, and the leg that goes on from its checkpoint: the counters of
\* the brakes and of compaction begin anew.
checkSuspend ==
  /\ phase = "gate" /\ resp # Answer /\ round < MaxToolRounds /\ suspends < MaxSuspends
  /\ checkpoint' = [msgs |-> msgs, taskStart |-> taskStart, loaded |-> loaded, round |-> round, calls |-> resp]
  /\ suspends' = suspends + 1 /\ phase' = "suspended"
  /\ UNCHANGED <<msgs, taskStart, lastLoaded, loaded, round, resp, stop, guardVars, compactions, cut, streak, made, used>>

ResumedRound == checkpoint.round
restoreConversation ==
  /\ phase = "suspended" /\ phase' = "gate"
  /\ msgs' = checkpoint.msgs /\ taskStart' = checkpoint.taskStart /\ lastLoaded' = <<>>
  /\ loaded' = checkpoint.loaded /\ round' = ResumedRound /\ resp' = checkpoint.calls
  /\ seen' = [a \in DOMAIN Asks |-> 0] /\ named' = [t \in Tools |-> 0] /\ failures' = [t \in Tools |-> 0]
  /\ used' = [t \in Tools |-> 0] /\ compactions' = 0 /\ cut' = "none"
  /\ UNCHANGED <<stop, checkpoint, suspends, streak, made>>

ConversationNext ==
  \/ Round \/ GoOn \/ Break \/ compactConversation \/ Exhausted \/ generateFinalStep \/ Completed \/ Fails
  \/ checkSuspend \/ restoreConversation
ConversationSpec == ConversationInit /\ [][ConversationNext]_convVars

-----------------------------------------------------------------------------
(* Properties.                                                             *)

\* The task's own messages begin within the exchange, and the counters stay in
\* their bounds.
ConversationTypeOK ==
  /\ taskStart \in 1 .. Len(msgs) /\ round \in 0 .. MaxToolRounds /\ Len(loaded) <= MaxLoaded
  /\ lastLoaded \in Seq(Known) /\ stop \in {"", "cap", "repeat", "max_rounds", "completed"}

\* Neither compaction, nor a warning, nor a resumption separates a call from its
\* answers.
Paired == Whole(msgs)

\* No request ends with an answer of the past, which a provider would go on
\* writing (appendCurrentInput).
EndsWithItsTask == msgs[Len(msgs)].role # "assistant"

\* The streak of a repeated request counts rounds of this task only, and no more
\* than there were, over compaction and resumption (taskStart).
Trailing(a) == Cardinality({i \in DOMAIN made : \A j \in i .. Len(made) : made[j] = a})
StreakIsOwn == made # <<>> => streak <= Trailing(made[Len(made)])

\* A leg goes on only while no tool has used up its allowance, whoever spent it,
\* and no request has come too often.
BrakesHold ==
  phase = "compact" =>
    /\ \A a \in DOMAIN Asks : seen[a] < AbortCount
    /\ \A t \in Tools : used[t] <= ToolLoopCap

\* The round budget is the task's, however often it was suspended.
RoundsBounded == Len(made) <= MaxToolRounds

\* The block the model sees last, if it has not been summarised away, lists what
\* is loaded: it is never left with a definition that was dropped (loaded.go).
ShownIsLoaded ==
  phase \in {"guards", "compact", "gate"} =>
    LET shown == {i \in DOMAIN msgs : msgs[i].role = "block"}
    IN shown # {} => msgs[CHOOSE i \in shown : \A j \in shown : j <= i].shows = loaded

(* The exchange stays one a provider accepts and the model can be right about:
   calls paired with answers, the task's input last, the brakes counted over
   this task's own rounds, and the loaded list as shown, through compaction,
   warnings, suspensions and resumptions. *)
ConversationSafe ==
  /\ [](ConversationTypeOK /\ Paired /\ EndsWithItsTask /\ StreakIsOwn /\
       BrakesHold /\ RoundsBounded /\ ShownIsLoaded)
===============================================================================
