----------------------------- MODULE TrustList -----------------------------
(***************************************************************************)
(* The plugin trust list's cache (internal/plugin/trustlist): three files  *)
(* that several processes refresh and read.  A list is published with a    *)
(* serial and revokes keys; a later list may leave a revocation out, so    *)
(* every key seen revoked is recorded in a file of its own.                *)
(*                                                                         *)
(* Each rename and each read is a step; readers take no lock.  A signature *)
(* stands for the document it signs.                                       *)
(***************************************************************************)
EXTENDS Integers, FiniteSets

CONSTANTS
  Procs,      \* processes over one cache directory
  Keys,
  Docs,       \* lists the trust list's root has signed
  Serial,     \* of each list
  RevokedIn,  \* keys it revokes
  KeysIn,     \* keys it registers
  LocalKeys,  \* keys of the local keyring
  Missing,    \* no such file
  Damaged,    \* a file that does not read
  Unknown,    \* no telling which keys are revoked
  Free, Left  \* no lock file; one whose writer is gone

ASSUME TrustAssumption ==
  /\ Serial \in [Docs -> Nat] /\ LocalKeys \subseteq Keys
  /\ RevokedIn \in [Docs -> SUBSET Keys] /\ KeysIn \in [Docs -> SUBSET Keys \ {{}}]
  /\ Missing # Damaged /\ Unknown \notin {Missing, Damaged} /\ Docs \cap {Missing, Damaged} = {}
  /\ \A K \in SUBSET Keys : K \notin {Missing, Damaged, Unknown}
  /\ Free # Left /\ Procs \cap {Free, Left} = {}

VARIABLES
  list, sig,  \* trustlist.json, trustlist.sig
  record,     \* revoked-ever.json
  lock,       \* .lock
  where,      \* where each process is
  does,       \* what it is doing
  seen,       \* what it has read of the three files
  fetched,    \* the list it has fetched
  union,      \* the revocations it will record, and report
  result,     \* what its caller was given
  before,     \* the record as its operation began, or as its refresh succeeded
  announced,  \* keys some caller was told are revoked, for all that is on disk
  hurt        \* a write ended half-way, or a file was damaged

files == <<list, sig, record, lock>>
locals == <<where, does, seen, fetched, union, result, before>>
trustVars == <<files, locals, announced, hurt>>

Lists == Docs \cup {Missing, Damaged}
IsRecord(r) == r \in {Missing, Damaged, Unknown} \/ r \subseteq Keys
Fresh == [list |-> Missing, sig |-> Missing, rev |-> Missing]

\* A Trust: the keys of its keyring, none when it is unavailable, and its
\* revocations.
NoTrust == [doc |-> Missing, keys |-> {}, revs |-> Unknown, ok |-> FALSE]

TrustInit ==
  /\ list = Missing /\ sig = Missing /\ record = Missing /\ lock = Free
  /\ where = [p \in Procs |-> "idle"] /\ does = [p \in Procs |-> "nothing"]
  /\ seen = [p \in Procs |-> Fresh] /\ fetched = [p \in Procs |-> Missing]
  /\ union = [p \in Procs |-> {}] /\ result = [p \in Procs |-> NoTrust]
  /\ before = [p \in Procs |-> {}] /\ announced = {} /\ hurt = FALSE

\* The record of revocations parses.
Readable == record \notin {Missing, Damaged}
OnDisk == IF Readable THEN record ELSE {}

(***************************************************************************)
(* What a caller is given.                                                 *)
(***************************************************************************)
unavailable(revs) == [doc |-> Missing, keys |-> {}, revs |-> revs, ok |-> FALSE]

\* No list is configured: nothing is revoked.
WithoutList == [unavailable({}) EXCEPT !.ok = TRUE]

mergeFrom(revs, d) == revs \cup RevokedIn[d]
assembleKeyring(d, revs) == KeysIn[d] \ revs

\* A keyring all of whose keys are revoked does not parse.
assemble(d, revs) ==
  LET all == mergeFrom(revs, d)
  IN IF assembleKeyring(d, all) = {} THEN unavailable(revs)
     ELSE [doc |-> d, keys |-> assembleKeyring(d, all), revs |-> all, ok |-> TRUE]

HandOver(p, trust, known) ==
  /\ where' = [where EXCEPT ![p] = "given"] /\ does' = [does EXCEPT ![p] = "nothing"]
  /\ result' = [result EXCEPT ![p] = trust]
  /\ announced' = IF known = Unknown THEN announced ELSE announced \cup known
  /\ seen' = [seen EXCEPT ![p] = Fresh]
  /\ fetched' = [fetched EXCEPT ![p] = Missing]
  /\ union' = [union EXCEPT ![p] = {}]

Give(p, trust) == HandOver(p, trust, trust.revs)

\* The state a refresh falls back on: that of the cache as it read it, with
\* nothing revoked where it found neither a list nor a record.
Known(s) == IF s.rev = Missing THEN {} ELSE s.rev
Fallback(s) == IF s.list \in Docs THEN assemble(s.list, Known(s)) ELSE unavailable(Known(s))

\* That state shares its set of revocations with what the refresh merges into: a
\* refresh that fails to save a list tells of its revocations all the same, on
\* record or not.
FailWith(p) ==
  LET given == Fallback(seen[p]) IN
  IF seen[p].rev = Missing THEN Give(p, given)
  ELSE HandOver(p, [given EXCEPT !.revs = mergeFrom(@, fetched[p])], given.revs)

Stay(p, next) ==
  where' = [where EXCEPT ![p] = next] /\ UNCHANGED <<does, result, announced>>

(***************************************************************************)
(* cache.read, file by file.                                               *)
(***************************************************************************)
\* Current, Refresh, or a start without a url (RecordedRevocationCount).
Begin(p, op) ==
  /\ where[p] \in {"idle", "given"}
  /\ does' = [does EXCEPT ![p] = op]
  /\ where' = [where EXCEPT ![p] = IF op = "start" THEN "count" ELSE "list"]
  /\ before' = [before EXCEPT ![p] = OnDisk]
  /\ result' = [result EXCEPT ![p] = NoTrust]
  /\ UNCHANGED <<files, seen, fetched, union, announced, hurt>>

Start(p) == Begin(p, "start")
RefreshRound(p) == Begin(p, "refresh")
ReadTrust(p) == Begin(p, "current")

readList(p) ==
  /\ where[p] = "list"
  /\ seen' = [seen EXCEPT ![p].list = list]
  /\ Stay(p, IF list = Missing THEN "record" ELSE "sig")
  /\ UNCHANGED <<files, fetched, union, before, hurt>>

VerifyDocument(l, s) == s = l /\ s \in Docs

readSig(p) ==
  /\ where[p] = "sig"
  /\ seen' = [seen EXCEPT ![p].sig = sig]
  /\ Stay(p, IF VerifyDocument(seen[p].list, sig) THEN "record" ELSE "again")
  /\ UNCHANGED <<files, fetched, union, before, hurt>>

\* With a usable cache Current is done, and Refresh goes on.
AfterRead(p, s) ==
  IF does[p] = "refresh"
    THEN /\ seen' = [seen EXCEPT ![p] = s] /\ Stay(p, "fetch") /\ UNCHANGED <<fetched, union>>
    ELSE Give(p, Fallback(s))

\* The record counts with a list and without; without either, nothing has
\* been revoked.
readRecord(p) ==
  /\ where[p] = "record"
  /\ \/ /\ Readable \/ (record = Missing /\ seen[p].list = Missing)
        /\ AfterRead(p, [seen[p] EXCEPT !.rev = record])
     \/ /\ record = Damaged \/ (record = Missing /\ seen[p].list # Missing)
        /\ Stay(p, "again") /\ UNCHANGED <<seen, fetched, union>>
  /\ UNCHANGED <<files, before, hurt>>

\* knownRevocations over a cache that is unusable; Refresh stops here.
knownRevocations(p) ==
  /\ where[p] = "again"
  /\ Give(p, unavailable(IF Readable THEN record ELSE Unknown))
  /\ UNCHANGED <<files, before, hurt>>

(***************************************************************************)
(* Refresh.                                                                *)
(***************************************************************************)
accepts(d, s) == s.list = Missing \/ Serial[d] > Serial[s.list]

\* The network fails, or answers with a list: one that was seen before, one
\* that a mirror kept, a new one.
fetchBytes == Docs \cup {Missing}

Refresh(p) ==
  /\ where[p] = "fetch"
  /\ \E d \in fetchBytes :
       IF VerifyDocument(d, d) /\ accepts(d, seen[p])
         THEN /\ fetched' = [fetched EXCEPT ![p] = d]
              /\ union' = [union EXCEPT ![p] = mergeFrom(Known(seen[p]), d)]
              /\ Stay(p, "lock") /\ UNCHANGED seen
         ELSE Give(p, Fallback(seen[p]))
  /\ UNCHANGED <<files, before, hurt>>

lockCache(p) ==
  /\ where[p] = "lock"
  /\ \/ /\ lock = Free
        /\ lock' = p /\ Stay(p, "merge") /\ UNCHANGED <<seen, fetched, union>>
     \/ /\ lock # Free                                  \* longer than lockWait
        /\ FailWith(p) /\ UNCHANGED lock
  /\ UNCHANGED <<list, sig, record, before, hurt>>

mergeWithRecordedRevocations(p) ==
  /\ where[p] = "merge"
  /\ union' = [union EXCEPT ![p] = IF record = Damaged THEN @ ELSE @ \cup OnDisk]
  /\ Stay(p, IF record = Damaged THEN "fail" ELSE "putRecord")
  /\ UNCHANGED <<files, seen, fetched, before, hurt>>

\* Three renames, the record first and the list last.
write(p) ==
  /\ \/ /\ where[p] = "putRecord" /\ Stay(p, "putSig")
        /\ record' = union[p] /\ UNCHANGED <<sig, list>>
     \/ /\ where[p] = "putSig" /\ Stay(p, "putList")
        /\ sig' = fetched[p] /\ UNCHANGED <<record, list>>
     \/ /\ where[p] = "putList" /\ Stay(p, "unlock")
        /\ list' = fetched[p] /\ UNCHANGED <<record, sig>>
  /\ UNCHANGED <<lock, seen, fetched, union, before, hurt>>

writeFails(p) ==
  /\ where[p] \in {"putRecord", "putSig", "putList"} /\ Stay(p, "fail")
  /\ hurt' = (hurt \/ where[p] = "putList")
  /\ UNCHANGED <<files, seen, fetched, union, before>>

\* The lock file goes, or it does not and the refresh counts as failed.
unlock(p) ==
  /\ where[p] \in {"unlock", "fail"}
  /\ \/ /\ where[p] = "unlock"
        /\ lock' = Free /\ Give(p, assemble(fetched[p], union[p]))
        /\ before' = [before EXCEPT ![p] = OnDisk]
     \/ /\ where[p] = "fail"
        /\ lock' = Free /\ FailWith(p) /\ UNCHANGED before
     \/ lock' = Left /\ FailWith(p) /\ UNCHANGED before
  /\ UNCHANGED <<list, sig, record, hurt>>

(***************************************************************************)
(* A start with the url cleared (refuseOrphanedRevocations): it goes ahead *)
(* only where nothing was ever revoked.  Reported as the trust it is given.*)
(***************************************************************************)
RecordedRevocationCount(p) ==
  /\ where[p] = "count"
  /\ \/ /\ record = Missing                             \* then look for a list
        /\ Stay(p, "countList") /\ UNCHANGED <<seen, fetched, union>>
     \/ record = {} /\ Give(p, WithoutList)
     \/ record \notin {Missing, {}} /\ Give(p, NoTrust)
  /\ UNCHANGED <<files, before, hurt>>

countList(p) ==
  /\ where[p] = "countList"
  /\ Give(p, IF list = Missing THEN WithoutList ELSE NoTrust)
  /\ UNCHANGED <<files, before, hurt>>

(***************************************************************************)
(* Crashes, the operator, and the disk.                                    *)
(***************************************************************************)
Crash(p) ==
  /\ where[p] \notin {"idle", "given"}
  /\ where' = [where EXCEPT ![p] = "idle"]
  /\ seen' = [seen EXCEPT ![p] = Fresh] /\ fetched' = [fetched EXCEPT ![p] = Missing]
  /\ union' = [union EXCEPT ![p] = {}]
  /\ does' = [does EXCEPT ![p] = "nothing"] /\ before' = [before EXCEPT ![p] = {}]
  /\ lock' = IF lock = p THEN Left ELSE lock
  /\ hurt' = (hurt \/ where[p] = "putList")
  /\ UNCHANGED <<list, sig, record, result, announced>>

ClearLock ==
  /\ lock = Left /\ lock' = Free
  /\ UNCHANGED <<list, sig, record, locals, announced, hurt>>

\* A list or its signature is lost or damaged; the record does not read.
Damage ==
  /\ ~hurt /\ hurt' = TRUE
  /\ \/ list # Missing /\ list' \in {Missing, Damaged} /\ UNCHANGED <<sig, record>>
     \/ sig # Missing /\ sig' \in {Missing, Damaged} /\ UNCHANGED <<list, record>>
     \/ record # Missing /\ record' = Damaged /\ UNCHANGED <<list, sig>>
  /\ UNCHANGED <<lock, locals, announced>>

TrustStep(p) ==
  \/ readList(p) \/ readSig(p) \/ readRecord(p) \/ knownRevocations(p)
  \/ Refresh(p) \/ lockCache(p) \/ mergeWithRecordedRevocations(p)
  \/ write(p) \/ writeFails(p) \/ unlock(p)
  \/ RecordedRevocationCount(p) \/ countList(p)

TrustNext ==
  \/ \E p \in Procs : TrustStep(p) \/ Crash(p) \/ Start(p) \/ RefreshRound(p) \/ ReadTrust(p)
  \/ ClearLock \/ Damage

TrustSpec == TrustInit /\ [][TrustNext]_trustVars

(***************************************************************************)
(* Merge with the local keyring, as every mount does: no keyring when the  *)
(* record is unknown, and none when all keys are revoked.                  *)
(***************************************************************************)
\* A slip of Merge: an unknown record is no record.
Bug_Merge(t) == (LocalKeys \cup t.keys) \ (IF t.revs = Unknown THEN {} ELSE t.revs)

Merge(t) == IF t.revs = Unknown THEN {} ELSE (LocalKeys \cup t.keys) \ t.revs

(***************************************************************************)
(* Properties.                                                             *)
(***************************************************************************)
Locked == {"merge", "putRecord", "putSig", "putList", "unlock", "fail"}

\* Types; a lock file named for a process is one whose process is at work.
TrustTypeOK ==
  /\ list \in Lists /\ sig \in Lists /\ IsRecord(record)
  /\ lock \in Procs \cup {Free, Left} /\ hurt \in BOOLEAN /\ announced \subseteq Keys
  /\ lock \in Procs => where[lock] \in Locked
  /\ \A p \in Procs :
       /\ result[p].doc \in Docs \cup {Missing} /\ result[p].keys \subseteq Keys /\ IsRecord(result[p].revs)
       /\ seen[p].list \in Lists /\ seen[p].sig \in Lists /\ IsRecord(seen[p].rev)
       /\ fetched[p] \in Docs \cup {Missing} /\ union[p] \subseteq Keys /\ before[p] \subseteq Keys

\* Whoever holds the lock, only one process writes: two signatures and lists
\* never cross.
OneWriter == Cardinality({p \in Procs : where[p] \in {"merge", "putRecord", "putSig", "putList"}}) <= 1

\* The record of revocations never shrinks, whoever writes it from whatever
\* it had read before.
NeverForgotten == [][Readable => record' = Damaged \/ record \subseteq record']_trustVars

\* A list comes after its revocations: whatever list is on disk, the record
\* has the keys it revokes.
RecordedBeforeListed == list \in Docs /\ record # Damaged => RevokedIn[list] \subseteq OnDisk

\* What a caller is told is revoked stays revoked for every later caller: it
\* is in the record.  Only what the list of a refresh that failed to save it
\* adds to the answer need not be: the next caller may not hear of it.
AnnouncedIsRecorded == record # Damaged => announced \subseteq OnDisk

\* A caller who is told the revocations is told all that were on disk when its
\* operation began, with a list, without, or with a bad one; a refresh that
\* succeeds reports all that are on disk then.
ToldAll == \A p \in Procs :
  where[p] = "given" /\ result[p].revs # Unknown => before[p] \subseteq result[p].revs

\* A mount never accepts a key that was on record as revoked before it looked,
\* nor does a start with no list at all.
RevokedNotAccepted == \A p \in Procs :
  where[p] = "given" => Merge(result[p]) \cap before[p] = {}

\* A list and a signature that do not match are a write under way, or the
\* trace of one that did not end: the lock keeps writes apart.
TornOnlyInAWrite ==
  list # sig /\ ~hurt => \E p \in Procs : where[p] = "putList"

(* One process writes the trust list at a time, a revocation is recorded before
   its list is on disk or announced from there and is never forgotten, and no key known to be
   revoked is accepted, through crashes, torn writes and refreshes. *)
TrustSafe ==
  /\ [](TrustTypeOK /\ OneWriter /\ RecordedBeforeListed /\
       AnnouncedIsRecorded /\ ToldAll /\ RevokedNotAccepted /\
       TornOnlyInAWrite)
  /\ NeverForgotten
===============================================================================
