------------------------------ MODULE TaskLedger ------------------------------
(***************************************************************************)
(* One task of the workspace's task ledger (internal/taskledger): an       *)
(* append-only event log, an owner index that decides claims, and the       *)
(* Markdown projection, shared by processes that exclude each other with a *)
(* lock file.  A lock nobody touched for two minutes is taken for one left *)
(* by a dead process; whoever releases or reclaims removes whatever file   *)
(* has the name at that moment.                                            *)
(***************************************************************************)
EXTENDS Integers, Sequences

CONSTANTS
  Writers,    \* processes that share the workspace
  Claimants,  \* who may own the task
  NoOwner,
  Unlocked,   \* no lock file
  Lost,       \* no owner index: a ledger older than the index
  LedgerEvents,  \* the events callers ask for, a request may be repeated
  OldLogs,    \* the logs a ledger may already hold
  MaxLines,   \* BOUND on the log
  MaxMishaps  \* BOUND on processes that die and locks that cannot be removed

ASSUME LedgerAssumption ==
  /\ NoOwner \notin Claimants
  /\ Lost \notin Claimants \cup {NoOwner} /\ Unlocked \notin Writers
  /\ LedgerEvents \subseteq [type : {"created", "claimed", "status", "message"},
                         owner : Claimants \cup {NoOwner}, status : {"planned", "done", ""}, key : Nat]
  /\ OldLogs \subseteq Seq(LedgerEvents) /\ MaxLines \in Nat /\ MaxMishaps \in Nat

VARIABLES
  lockFile,  \* who created it, or Unlocked
  ageing,    \* the lock file is older than the limit
  owners,    \* the owner index's entry
  eventLog,  \* the event log
  torn,      \* it holds a line that does not decode
  board,     \* how many events tasks.md was rendered from
  places,    \* where the task's own file is: the active directory, the archive
  call,      \* each process's call: its step, its event, what it read
  mishaps,   \* deaths and failed releases so far
  acknowledged,  \* ghost: requests whose caller was told of success
  placed,    \* ghost: the last rebuild that touched the task's file has ended
  robbed     \* ghost: a reclaimer has removed the lock of a process at work

ghosts == <<acknowledged, placed, robbed>>
ledgerFiles == <<owners, eventLog, torn, board, places>>
ledgerVars == <<lockFile, ageing, ledgerFiles, call, mishaps, ghosts>>

NoCall == [at |-> "idle", job |-> "append", event |-> 0, read |-> 0]

\* The steps between a lock acquired and its release.
Held == {"owners", "claim", "write", "read", "index", "file", "remove", "unlock", "fail"}

Goes(w, next) == call' = [call EXCEPT ![w].at = next]
Ends(w) == call' = [call EXCEPT ![w] = NoCall]

---------------------------------------------------------------------------
(* The projection. *)

\* A request repeated under its idempotency key counts once: the places of
\* the events that count.
dedupeEvents(s) == {i \in 1..Len(s) : \A j \in 1..i - 1 : s[j].key # s[i].key}

isTerminal(status) == status = "done"

\* One event's effect; what it may not change is listed as a conflict.
apply(task, e) ==
  CASE e.type = "created" ->
         [status |-> IF e.status = "" THEN task.status ELSE e.status,
          owner |-> IF e.owner = NoOwner THEN task.owner ELSE e.owner]
    [] e.type = "claimed" /\ task.owner \in {NoOwner, e.owner} -> [task EXCEPT !.owner = e.owner]
    [] e.type = "status" /\ e.status # "" /\ (isTerminal(task.status) => isTerminal(e.status)) ->
         [task EXCEPT !.status = e.status]
    [] OTHER -> task

BuildProjection(s) ==
  LET upTo[i \in 0..Len(s)] ==
        IF i = 0 THEN [status |-> "planned", owner |-> NoOwner]
        ELSE IF i \in dedupeEvents(s) THEN apply(upTo[i - 1], s[i]) ELSE upTo[i - 1]
  IN upTo[Len(s)]

\* Who the log says the first claimant is: claims only, not a creator's owner,
\* and each line for itself.
ownersFromEvents(s) ==
  LET claims == {i \in 1..Len(s) : s[i].type = "claimed" /\ s[i].owner # NoOwner}
  IN IF claims = {} THEN NoOwner ELSE s[CHOOSE i \in claims : \A j \in claims : i <= j].owner

LedgerInit ==
  /\ lockFile = Unlocked /\ ageing = FALSE
  /\ eventLog \in OldLogs /\ owners \in {Lost} \cup ({NoOwner} \cap {ownersFromEvents(eventLog)})
  /\ torn = FALSE /\ board = 0 /\ places = {}
  /\ call = [w \in Writers |-> NoCall] /\ mishaps = 0
  /\ acknowledged = {} /\ placed = FALSE /\ robbed = FALSE

---------------------------------------------------------------------------
(* The lock file. *)

\* A tool's call, a result from the terminal, or a bare rebuild.
BeginCall(w) ==
  /\ call[w].at = "idle"
  /\ \/ /\ Len(eventLog) < MaxLines
        /\ \E r \in LedgerEvents : call' = [call EXCEPT ![w] = [NoCall EXCEPT !.at = "create", !.event = r]]
     \/ call' = [call EXCEPT ![w] = [NoCall EXCEPT !.at = "create", !.job = "rebuild"]]
  /\ UNCHANGED <<lockFile, ageing, ledgerFiles, mishaps, ghosts>>

FirstStep(c) == IF c.job # "append" THEN "read" ELSE IF c.event.type = "claimed" THEN "owners" ELSE "write"

createLockFile(w, otherwise) ==
  /\ IF lockFile = Unlocked
     THEN lockFile' = w /\ ageing' = FALSE /\ Goes(w, FirstStep(call[w]))
     ELSE otherwise /\ UNCHANGED <<lockFile, ageing>>
  /\ UNCHANGED <<ledgerFiles, mishaps, ghosts>>

FirstAttempt(w)  == call[w].at = "create" /\ createLockFile(w, Goes(w, "stat"))
SecondAttempt(w) == call[w].at = "again" /\ createLockFile(w, Ends(w))

Stale == lockFile # Unlocked /\ ageing

\* Gone: try again.  Fresh: refused.  Old: to be reclaimed.
Inspect(w) ==
  /\ call[w].at = "stat"
  /\ \/ lockFile = Unlocked /\ Goes(w, "again")
     \/ lockFile # Unlocked /\ ~Stale /\ Ends(w)
     \/ Stale /\ Goes(w, "reclaim")
  /\ UNCHANGED <<lockFile, ageing, ledgerFiles, mishaps, ghosts>>

RemoveFile == lockFile' = Unlocked /\ ageing' = FALSE

\* Whatever file has the name by now.
Reclaim(w) ==
  /\ call[w].at = "reclaim"
  /\ RemoveFile /\ Goes(w, "again")
  /\ robbed' = (robbed \/ (lockFile # Unlocked /\ call[lockFile].at \in Held))
  /\ UNCHANGED <<ledgerFiles, mishaps, acknowledged, placed>>

\* The lock cannot be had: the context is over, or a file operation fails.
StandDown(w) ==
  /\ call[w].at \in {"create", "stat", "again", "reclaim"} /\ Ends(w)
  /\ UNCHANGED <<lockFile, ageing, ledgerFiles, mishaps, ghosts>>

\* Release.  An append's call goes on to the rebuild that every caller asks
\* for next; a rebuild's call is over.
Unlock(w) ==
  /\ call[w].at \in {"unlock", "fail"}
  /\ RemoveFile
  /\ IF call[w].at = "unlock" /\ call[w].job = "append"
     THEN call' = [call EXCEPT ![w] = [@ EXCEPT !.at = "create", !.job = "follow"]] /\ UNCHANGED acknowledged
     ELSE /\ Ends(w)
          /\ acknowledged' = IF call[w].at = "unlock" /\ call[w].job = "follow" THEN acknowledged \cup {call[w].event} ELSE acknowledged
  /\ UNCHANGED <<ledgerFiles, mishaps, placed, robbed>>

\* The lock file cannot be removed: the call has failed, whatever it wrote.
ReleaseFails(w) ==
  /\ mishaps < MaxMishaps /\ call[w].at \in {"unlock", "fail"}
  /\ mishaps' = mishaps + 1 /\ Ends(w)
  /\ UNCHANGED <<lockFile, ageing, ledgerFiles, ghosts>>

\* Under the lock a file cannot be read, written or removed, or the context is
\* over: the call stops where it is, with what it has done so far.
Fails(w) ==
  /\ call[w].at \in Held \ {"unlock", "fail"} /\ Goes(w, "fail")
  /\ UNCHANGED <<lockFile, ageing, ledgerFiles, mishaps, ghosts>>

---------------------------------------------------------------------------
(* Append. *)

readOwners == IF owners = Lost THEN ownersFromEvents(eventLog) ELSE owners

\* checkClaim, up to its decision.
Decide(w) ==
  /\ call[w].at = "owners"
  /\ Goes(w, IF \/ owners = Lost /\ torn
                \/ call[w].event.owner = NoOwner
                \/ readOwners \notin {NoOwner, call[w].event.owner}
             THEN "fail" ELSE "claim")
  /\ UNCHANGED <<lockFile, ageing, ledgerFiles, mishaps, ghosts>>

writeOwners(w) ==
  /\ call[w].at = "claim"
  /\ owners' = call[w].event.owner /\ Goes(w, "write")
  /\ UNCHANGED <<lockFile, ageing, eventLog, torn, board, places, mishaps, ghosts>>

\* The event's line; a disk that fills up may leave half of it, and the next
\* line is written behind that half.
WriteEvent(w) ==
  /\ call[w].at = "write"
  /\ \/ /\ Len(eventLog) < MaxLines
        /\ eventLog' = IF torn THEN eventLog ELSE Append(eventLog, call[w].event)
        /\ Goes(w, "unlock") /\ UNCHANGED torn
     \/ /\ torn' = TRUE /\ Goes(w, "fail") /\ UNCHANGED eventLog
  /\ UNCHANGED <<lockFile, ageing, owners, board, places, mishaps, ghosts>>

---------------------------------------------------------------------------
(* Rebuild. *)

\* A slip of readEventFile: a line that does not decode is passed over.
Bug_ReadEvents(w) ==
  /\ call[w].at = "read"
  /\ call' = [call EXCEPT ![w].at = "index", ![w].read = Len(eventLog)]
  /\ UNCHANGED <<lockFile, ageing, ledgerFiles, mishaps, ghosts>>

ReadEvents(w) ==
  /\ call[w].at = "read"
  /\ call' = [call EXCEPT ![w].at = IF torn THEN "fail" ELSE "index", ![w].read = Len(eventLog)]
  /\ UNCHANGED <<lockFile, ageing, ledgerFiles, mishaps, ghosts>>

WriteIndex(w) ==
  /\ call[w].at = "index"
  /\ board' = call[w].read /\ Goes(w, IF call[w].read = 0 THEN "unlock" ELSE "file")
  /\ placed' = (placed /\ call[w].read = 0)
  /\ UNCHANGED <<lockFile, ageing, owners, eventLog, torn, places, mishaps, acknowledged, robbed>>

Seen(w) == BuildProjection(SubSeq(eventLog, 1, call[w].read))
PlaceOf(task) == IF isTerminal(task.status) THEN "archive" ELSE "active"
Home(w) == PlaceOf(Seen(w))

WriteTask(w) ==
  /\ call[w].at = "file"
  /\ places' = places \cup {Home(w)} /\ Goes(w, "remove")
  /\ UNCHANGED <<lockFile, ageing, owners, eventLog, torn, board, mishaps, ghosts>>

RemoveOther(w) ==
  /\ call[w].at = "remove"
  /\ places' = places \cap {Home(w)} /\ placed' = TRUE /\ Goes(w, "unlock")
  /\ UNCHANGED <<lockFile, ageing, owners, eventLog, torn, board, mishaps, acknowledged, robbed>>

---------------------------------------------------------------------------

\* A process dies at work; its lock file stays.  Elsewhere it has given up.
Killed(w) ==
  /\ mishaps < MaxMishaps /\ call[w].at \in Held
  /\ mishaps' = mishaps + 1 /\ Ends(w)
  /\ UNCHANGED <<lockFile, ageing, ledgerFiles, ghosts>>

\* Two minutes pass over a lock file whose holder is gone: a live one is done
\* by then.
Age ==
  /\ lockFile # Unlocked /\ ~ageing /\ call[lockFile].at \notin Held
  /\ ageing' = TRUE
  /\ UNCHANGED <<lockFile, ledgerFiles, call, mishaps, ghosts>>

LedgerNext ==
  \/ \E w \in Writers :
       \/ BeginCall(w) \/ FirstAttempt(w) \/ Inspect(w) \/ Reclaim(w) \/ SecondAttempt(w) \/ Unlock(w)
       \/ StandDown(w) \/ ReleaseFails(w) \/ Fails(w)
       \/ Decide(w) \/ writeOwners(w) \/ WriteEvent(w)
       \/ ReadEvents(w) \/ WriteIndex(w) \/ WriteTask(w) \/ RemoveOther(w)
       \/ Killed(w)
  \/ Age

LedgerSpec == LedgerInit /\ [][LedgerNext]_ledgerVars

---------------------------------------------------------------------------

\* Types; without a mishap the lock file is that of a process at work.
LedgerTypeOK ==
  /\ lockFile \in Writers \cup {Unlocked} /\ ageing \in BOOLEAN /\ torn \in BOOLEAN
  /\ mishaps = 0 /\ lockFile # Unlocked => call[lockFile].at \in Held
  /\ owners \in Claimants \cup {NoOwner, Lost} /\ board \in 0..Len(eventLog)
  /\ places \subseteq {"active", "archive"} /\ acknowledged \subseteq LedgerEvents

\* The lock file excludes, through locks left by the dead and reclaimed: two
\* processes are between acquiring it and releasing it only once a reclaimer
\* has removed, by its name, another file than the one it had found too old,
\* and that takes a lock that was left behind.
OneHolderOfLock ==
  /\ ~robbed => \A v, w \in Writers : call[v].at \in Held /\ call[w].at \in Held => v = w
  /\ robbed => mishaps > 0

\* A claim is accepted only for the owner the log already names: of two
\* agents that race for the task one is refused, whatever died or failed in
\* between and even when the owner index had to be rebuilt.
ClaimsAgree ==
  [][~robbed /\ Len(eventLog') > Len(eventLog) /\ eventLog'[Len(eventLog')].type = "claimed"
       => ownersFromEvents(eventLog) \in {NoOwner, eventLog'[Len(eventLog')].owner}]_ledgerVars

\* What a caller was told has happened is on tasks.md, rendered from the log,
\* whoever has written and rendered since.
ToldIsShown == ~robbed => \A r \in acknowledged : \E i \in 1..board : eventLog[i] = r

\* From the end of a rebuild until the next one touches it, the task's file is
\* in the one place that its status on the board asks for; a rebuild that stops
\* half-way reports no success, and the next one that ends repairs it.
FileInItsPlace == ~robbed =>
  /\ placed => places = {PlaceOf(BuildProjection(SubSeq(eventLog, 1, board)))}
  /\ \A w \in Writers : call[w].at = "unlock" /\ call[w].job # "append" /\ board > 0 => placed

\* A finished task does not come back to the list by a late status, or by a
\* request that is repeated; only a creation under a key of its own does it.
FinishedStays ==
  [][eventLog' # eventLog /\ isTerminal(BuildProjection(eventLog).status) =>
       \/ isTerminal(BuildProjection(eventLog').status)
       \/ LET last == eventLog'[Len(eventLog')]
          IN last.type = "created" /\ \A i \in 1..Len(eventLog) : eventLog[i].key # last.key]_ledgerVars

(* The ledger's lock file excludes, a claim has one winner, what a caller was
   told is on the board, and a finished task stays finished in the place its
   status asks for, through stale locks, deaths, failing files and a rebuilt
   index. *)
LedgerSafe ==
  /\ [](LedgerTypeOK /\ OneHolderOfLock /\ ToldIsShown /\ FileInItsPlace)
  /\ ClaimsAgree
  /\ FinishedStays
===============================================================================
