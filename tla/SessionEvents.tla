---------------------------- MODULE SessionEvents ----------------------------
(***************************************************************************)
(* The event log of one session as the database keeps it                   *)
(* (internal/storage/session_events.go) and what is read out of it: the    *)
(* plan of a crash recovery, the conversation's turns (project_turns.go)   *)
(* and the transcript sent to a model (project_transcript.go).             *)
(*                                                                         *)
(* An event carries what these readers tell apart.  "task" is in the       *)
(* payload of the two kinds of message only: for the other kinds it is a   *)
(* ghost that says whose event it is, as "by" says who wrote it.           *)
(***************************************************************************)
EXTENDS Integers, FiniteSets, Sequences, SequencesExt

CONSTANTS
  Tasks,   \* tasks of the session
  Ids      \* call ids within one response

ASSUME IdsAssumption == "none" \notin Ids /\ "none" \notin Tasks

VARIABLE log   \* session_events, by seq

Types == {"turn/start", "turn/end", "step/start", "step/end",
          "user", "assistant", "call", "result"}

Events == [type : Types, seq : Int, turn : Int, step : Int, task : Tasks,
           id : Ids \cup {"none"}, calls : Seq(Ids), usage : Nat,
           by : {"run", "recovery"}, owner : Tasks \cup {"none"}]

\* What a turn or a step begins and ends with.
StartOf(what) == IF what = "turn" THEN "turn/start" ELSE "step/start"
EndOf(what) == IF what = "turn" THEN "turn/end" ELSE "step/end"

Message(e) == e.type \in {"user", "assistant"}
ToolEvent(e) == e.type \in {"call", "result"}

Indices(l, type) == {i \in DOMAIN l : l[i].type = type}

\* The key a result is paired with its call by.
Key(e) == <<e.turn, e.step, e.id>>

-----------------------------------------------------------------------------
(* Writing.                                                                *)

\* nextSeqTx: the log continues after its highest seq.
NextSeq(l) == IF l = <<>> THEN 0 ELSE l[Len(l)].seq + 1

\* The task a search hit is shown under: a message's own, and for a tool event
\* that of the latest message before it, in the batch or in the database.
Owner(l, i) ==
  LET before == {j \in DOMAIN l : j < i /\ Message(l[j])}
  IN IF before = {} THEN "none" ELSE l[CHOOSE j \in before : \A k \in before : k <= j].task

\* indexSessionEvents
Indexed(l, batch) ==
  LET whole == l \o batch
  IN [i \in DOMAIN batch |->
       [batch[i] EXCEPT !.owner = CASE Message(batch[i]) -> batch[i].task
                                    [] ToolEvent(batch[i]) -> Owner(whole, Len(l) + i)
                                    [] OTHER -> "none"]]

\* What appendLocked refuses: a batch that does not continue the log or is not
\* contiguous in itself.
Accepted(l, batch) ==
  /\ batch # <<>> => batch[1].seq = NextSeq(l)
  /\ \A i \in 2 .. Len(batch) : batch[i].seq = batch[i - 1].seq + 1

\* Append: the batch and its search rows in one transaction.
AppendBatch(batch) == Accepted(log, batch) /\ log' = log \o Indexed(log, batch)

-----------------------------------------------------------------------------
(* Recovery: Load reads, plans and appends under the session's write lock. *)

\* planRecovery, the bookkeeping of one call id: a call opens it, whichever call
\* was open before, and a result closes one.
Unanswered(l, id) ==
  LET count[i \in 0 .. Len(l)] ==
        IF i = 0 THEN 0
        ELSE IF l[i].type = "call" /\ l[i].id = id THEN count[i - 1] + 1
        ELSE IF l[i].type = "result" /\ l[i].id = id /\ count[i - 1] > 0 THEN count[i - 1] - 1
        ELSE count[i - 1]
  IN count[Len(l)]

LastOf(S) == CHOOSE i \in S : \A j \in S : j <= i

\* The calls a result is made up for: the last event of their id is a call.
Pending(l) ==
  {i \in Indices(l, "call") : ~\E j \in DOMAIN l : j > i /\ ToolEvent(l[j]) /\ l[j].id = l[i].id}

\* In the order their ids first occurred.
FirstOf(l, id) == CHOOSE i \in Indices(l, "call") :
                    l[i].id = id /\ \A j \in Indices(l, "call") : l[j].id = id => i <= j
InOrder(l, S) == CHOOSE s \in SetToSeqs(S) :
  \A j, k \in DOMAIN s : j < k => FirstOf(l, l[s[j]].id) < FirstOf(l, l[s[k]].id)

\* stepOpen and turnOpen: what was last, a start or an end.
LeftOpen(l, what) ==
  \E i \in Indices(l, StartOf(what)) : ~\E j \in Indices(l, EndOf(what)) : j > i

\* An end before which nothing is open.
StrayEnd(l, what) ==
  \E i \in Indices(l, EndOf(what)) : ~LeftOpen(SubSeq(l, 1, i - 1), what)

\* Logs Load gives up on.
Refused(l) ==
  \/ StrayEnd(l, "turn") \/ StrayEnd(l, "step")
  \/ \E i \in Pending(l) : Unanswered(l, l[i].id) >= 2

\* synthesizeClosers: a result for each, the end of the step, the end of the turn.
Closers(l) ==
  LET last == LastOf(Indices(l, "turn/start"))
      made == [l[last] EXCEPT !.by = "recovery", !.owner = "none"]
      calls == InOrder(l, Pending(l))
      step == LastOf(Indices(l, "step/start"))
  IN [k \in DOMAIN calls |->
       [l[calls[k]] EXCEPT !.type = "result", !.by = "recovery", !.owner = "none"]]
     \o (IF LeftOpen(l, "step")
         THEN <<[l[step] EXCEPT !.type = "step/end", !.by = "recovery"]>> ELSE <<>>)
     \o (IF LeftOpen(l, "turn") THEN <<[made EXCEPT !.type = "turn/end"]>> ELSE <<>>)

Numbered(first, batch) == [i \in DOMAIN batch |-> [batch[i] EXCEPT !.seq = first + i - 1]]

\* Load, of a log that needs mending; any other it only reads.
Load ==
  /\ ~Refused(log) /\ Closers(log) # <<>>
  /\ AppendBatch(Numbered(NextSeq(log), Closers(log)))

-----------------------------------------------------------------------------
(* Reading.                                                                *)

\* collectToolResults and collectToolCallArguments: one of each per key.
OneOfEach(l, type) ==
  \A i, j \in Indices(l, type) : Key(l[i]) = Key(l[j]) => i = j

Announces(e, id) == id \in Range(e.calls)

\* An announced call that was answered has its arguments on record.
ArgumentsRecorded(l) ==
  \A i \in Indices(l, "assistant"), r \in Indices(l, "result") :
    /\ Announces(l[i], l[r].id) /\ l[i].turn = l[r].turn /\ l[i].step = l[r].step
    => \E c \in Indices(l, "call") : Key(l[c]) = Key(l[r])

\* projectTranscript reports an error for any other log.
Transcribable(l) ==
  /\ OneOfEach(l, "result") /\ OneOfEach(l, "call")
  /\ \A i \in Indices(l, "assistant") : IsInjective(l[i].calls)
  /\ ArgumentsRecorded(l)

\* projectTranscript: the results that reach the model, each behind the message
\* that announced its call.
Transcribed(l) ==
  {r \in Indices(l, "result") :
     \E i \in Indices(l, "assistant") :
       Announces(l[i], l[r].id) /\ l[i].turn = l[r].turn /\ l[i].step = l[r].step}

\* projectTurns folds the messages of a task into one turn a role: its tokens are
\* the sum, its text the latest.
Tokens(l, task) ==
  LET sum[i \in 0 .. Len(l)] ==
        IF i = 0 THEN 0
        ELSE sum[i - 1] + (IF l[i].type = "assistant" /\ l[i].task = task THEN l[i].usage ELSE 0)
  IN sum[Len(l)]
=============================================================================
