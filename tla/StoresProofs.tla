----------------------------- MODULE StoresProofs -----------------------------
(***************************************************************************)
(* What processes and requests share is safe: the package cache, the trust *)
(* list, the session rows, a plugin's instance pool and the task ledger,   *)
(* for any number of users, processes, lists, keys, sessions, requests,    *)
(* calls and slots.                                                        *)
(***************************************************************************)
EXTENDS PackageCache, TrustList, SessionRows, PluginPool, TaskLedger,
        FiniteSetTheorems, NaturalsInduction, WellFoundedInduction, TLAPS

-----------------------------------------------------------------------------
(* The package cache. Whoever changes the entry holds the digest's lock, so a *)
(* step inside knows the entry the step before it left.                       *)

Stages == Inside \cup {"out", "fetch", "unpack", "lock", "lockToRemove", "got", "look"}

CacheTypes ==
  /\ entry \in {"none", "half", "whole"} /\ digestLock \in Users \cup {Open, Abandoned}
  /\ staging \subseteq Users /\ strays \subseteq Users /\ cleared \subseteq Users /\ cut \in BOOLEAN
  /\ stage \in [Users -> Stages]

\* The lock is its holder's, inside and only there.
HolderInside == \A u \in Users : stage[u] \in Inside <=> digestLock = u

KnownEntry == \A u \in Users :
  /\ stage[u] = "unlock" => entry = "whole"
  /\ stage[u] \in {"replace", "deleteRest"} => entry # "whole"

CacheInv == CacheTypes /\ HolderInside /\ KnownEntry /\ HalfIsARemoval /\ HandedOutWhole

CacheSteps(u) ==
  \/ Has(u) \/ Fetch(u) \/ Unpack(u) \/ lockDigestDir(u)
  \/ commit(u) \/ commitOver(u) \/ replace(u) \/ unlockDigest(u)
  \/ Load(u) \/ EvictUntrusted(u) \/ Ask(u) \/ look(u) \/ RemovePackage(u) \/ releaseDigest(u) \/ Die(u)

\* What a user's step may write: its own stage, the lock it takes or gives
\* back, and the entry only inside.
LEMMA UserWrites ==
  ASSUME CacheTypes, HolderInside, NEW u \in Users, CacheSteps(u)
  PROVE  /\ \E x \in Stages : stage' = [stage EXCEPT ![u] = x]
         /\ digestLock' \in Users \cup {Open, Abandoned}
         /\ stage'[u] \in Inside <=> digestLock' = u
         /\ digestLock' # digestLock => (digestLock = Open /\ digestLock' = u) \/ (digestLock = u /\ digestLock' \in {Open, Abandoned})
         /\ entry' # entry => stage[u] \in Inside
         /\ entry' \in {"none", "half", "whole"}
         /\ staging' \subseteq Users /\ strays' \subseteq Users /\ cleared' \subseteq Users /\ cut' \in BOOLEAN
<1> USE CacheAssumption DEF CacheTypes, HolderInside, Go, Found, Stages, Inside
<1>1. CASE Has(u)
  BY <1>1 DEF Has
<1>2. CASE Fetch(u)
  BY <1>2 DEF Fetch
<1>3. CASE Unpack(u)
  BY <1>3 DEF Unpack
<1>4. CASE lockDigestDir(u)
  BY <1>4 DEF lockDigestDir
<1>5. CASE commit(u)
  BY <1>5 DEF commit
<1>6. CASE commitOver(u)
  BY <1>6 DEF commitOver
<1>7. CASE replace(u)
  BY <1>7 DEF replace
<1>8. CASE unlockDigest(u)
  BY <1>8 DEF unlockDigest
<1>9. CASE Load(u) \/ EvictUntrusted(u) \/ Ask(u) \/ look(u)
  BY <1>9 DEF Load, EvictUntrusted, Ask, look
<1>10. CASE RemovePackage(u)
  BY <1>10 DEF RemovePackage
<1>11. CASE releaseDigest(u)
  BY <1>11 DEF releaseDigest
<1>12. CASE Die(u)
  BY <1>12 DEF Die
<1> QED
  BY <1>1, <1>2, <1>3, <1>4, <1>5, <1>6, <1>7, <1>8, <1>9, <1>10, <1>11, <1>12 DEF CacheSteps

\* What it makes of the entry, and of who was given it.
LEMMA EntrySteps ==
  ASSUME CacheInv, NEW u \in Users, CacheSteps(u)
  PROVE  /\ stage'[u] = "unlock" => entry' = "whole"
         /\ stage'[u] \in {"replace", "deleteRest"} => entry' # "whole"
         /\ stage'[u] = "got" => entry' = "whole"
         /\ cleared \subseteq cleared' \cup {u}
         /\ entry' = "whole" \/ entry' = entry \/ (stage[u] = "delete" /\ cleared' = Users)
              \/ (entry # "whole" /\ entry' = "none")
         /\ entry' = "half" => (entry = "half" /\ stage[u] # "deleteRest") \/ stage'[u] = "deleteRest" \/ cut'
         /\ cut => cut'
<1> USE CacheAssumption DEF CacheInv, CacheTypes, HolderInside, KnownEntry, Go, Found, Stages, Inside, isCompletePackage
<1>1. CASE Has(u)
  BY <1>1 DEF Has
<1>2. CASE Fetch(u)
  BY <1>2 DEF Fetch
<1>3. CASE Unpack(u)
  BY <1>3 DEF Unpack
<1>4. CASE lockDigestDir(u)
  BY <1>4 DEF lockDigestDir
<1>5. CASE commit(u)
  BY <1>5 DEF commit
<1>6. CASE commitOver(u)
  BY <1>6 DEF commitOver
<1>7. CASE replace(u)
  BY <1>7 DEF replace
<1>8. CASE unlockDigest(u)
  BY <1>8 DEF unlockDigest
<1>9. CASE Load(u) \/ EvictUntrusted(u) \/ Ask(u) \/ look(u)
  BY <1>9 DEF Load, EvictUntrusted, Ask, look
<1>10. CASE RemovePackage(u)
  BY <1>10 DEF RemovePackage
<1>11. CASE releaseDigest(u)
  BY <1>11 DEF releaseDigest
<1>12. CASE Die(u)
  BY <1>12 DEF Die
<1> QED
  BY <1>1, <1>2, <1>3, <1>4, <1>5, <1>6, <1>7, <1>8, <1>9, <1>10, <1>11, <1>12 DEF CacheSteps

LEMMA CacheStepInv == CacheInv /\ [CacheNext]_cacheVars => CacheInv'
<1> SUFFICES ASSUME CacheInv, [CacheNext]_cacheVars PROVE CacheInv'
  OBVIOUS
<1> USE CacheAssumption DEF CacheInv, CacheTypes
<1>1. CASE \E u \in Users : CacheSteps(u)
  <2>1. PICK u \in Users : CacheSteps(u)
    BY <1>1
  <2>2. PICK x \in Stages : stage' = [stage EXCEPT ![u] = x]
    BY <2>1, UserWrites
  <2>3. CacheTypes'
    BY <2>1, <2>2, UserWrites
  <2>4. ASSUME NEW w \in Users, w # u PROVE stage'[w] = stage[w] /\ (digestLock' = w <=> digestLock = w)
    BY <2>1, <2>2, <2>4, UserWrites
  <2>5. HolderInside'
    BY <2>1, <2>4, UserWrites DEF HolderInside
  <2>6. KnownEntry'
    <3>1. ASSUME NEW w \in Users, w # u, stage[w] \in Inside PROVE entry' = entry
      BY <2>1, <3>1, UserWrites DEF HolderInside
    <3> QED
      BY <2>1, <2>4, <3>1, EntrySteps DEF KnownEntry, Inside
  <2>7. HandedOutWhole'
    BY <2>1, <2>4, EntrySteps DEF HandedOutWhole
  <2>8. HalfIsARemoval'
    BY <2>1, <2>4, EntrySteps DEF HalfIsARemoval
  <2> QED
    BY <2>3, <2>5, <2>6, <2>7, <2>8
<1>2. CASE DropLock \/ RemoveStaleStaging
  BY <1>2 DEF DropLock, RemoveStaleStaging, HolderInside, KnownEntry, HalfIsARemoval, HandedOutWhole
<1>3. CASE UNCHANGED cacheVars
  BY <1>3 DEF cacheVars, HolderInside, KnownEntry, HalfIsARemoval, HandedOutWhole
<1> QED
  BY <1>1, <1>2, <1>3 DEF CacheNext, CacheSteps

(* The package cache is safe, for any number of processes over one root, dying *)
(* anywhere, with renames, removals and lock files that fail: half a package   *)
(* is a removal under way or one that stopped, never the trace of an install,  *)
(* and a directory that an install or a look has handed out is the whole       *)
(* package until somebody begins to remove it.                                 *)
THEOREM CacheIsSafe == CacheSpec => CacheSafe
<1>1. CacheInit => CacheInv
  BY CacheAssumption DEF CacheInit, CacheInv, CacheTypes, HolderInside, KnownEntry, HalfIsARemoval, HandedOutWhole, Stages, Inside
<1>2. CacheInv /\ [CacheNext]_cacheVars => CacheInv'
  BY CacheStepInv
<1>3. CacheInv => CacheTypeOK /\ HalfIsARemoval /\ HandedOutWhole
  BY DEF CacheInv, CacheTypes, HolderInside, CacheTypeOK, Stages
<1> QED
  BY <1>1, <1>2, <1>3, PTL DEF CacheSpec, CacheSafe

-----------------------------------------------------------------------------
(* The trust list. What has once been recorded as revoked stays recorded: it  *)
(* is in the file, unless that is damaged, and in what a writer is about to   *)
(* put in its place.                                                          *)

Recorded(S) ==
  /\ record # Damaged => S \subseteq OnDisk
  /\ \A p \in Procs : where[p] = "putRecord" => S \subseteq union[p]

TrustWays == {"idle", "given", "count", "countList", "list", "sig", "record", "again", "fetch", "lock"} \cup Locked
Doings == {"nothing", "start", "refresh", "current"}
Records == {Missing, Damaged, Unknown} \cup SUBSET Keys
Views == [list : Lists, sig : Lists, rev : Records]
Trusts == [doc : Docs \cup {Missing}, keys : SUBSET Keys, revs : {Unknown} \cup SUBSET Keys, ok : BOOLEAN]

TrustTypes ==
  /\ list \in Lists /\ sig \in Lists /\ record \in {Missing, Damaged} \cup SUBSET Keys
  /\ lock \in Procs \cup {Free, Left} /\ hurt \in BOOLEAN /\ announced \subseteq Keys
  /\ where \in [Procs -> TrustWays] /\ does \in [Procs -> Doings]
  /\ seen \in [Procs -> Views] /\ fetched \in [Procs -> Docs \cup {Missing}]
  /\ union \in [Procs -> SUBSET Keys] /\ before \in [Procs -> SUBSET Keys]
  /\ result \in [Procs -> Trusts]

\* The lock is its holder's, from the merge to the release.
LockHeld == \A p \in Procs : where[p] \in Locked <=> lock = p

\* Where a refresh has read the record, and where it has a list to write.
HasRead == {"fetch", "lock"} \cup Locked
HasList == {"lock"} \cup Locked

\* What a process knows at each place.
Knows(p) ==
  /\ where[p] \in HasRead => /\ Known(seen[p]) \in SUBSET Keys /\ before[p] \subseteq Known(seen[p])
  /\ where[p] \in HasList => fetched[p] \in Docs /\ RevokedIn[fetched[p]] \subseteq union[p]
  /\ where[p] = "putRecord" => OnDisk \subseteq union[p]
  /\ where[p] \in {"putSig", "putList", "unlock"} => record \in {union[p], Damaged}
  /\ where[p] = "putList" /\ ~hurt => sig = fetched[p]
  /\ where[p] = "countList" => before[p] = {}

\* All that anybody has read, was told or may be given is recorded.
Kept ==
  /\ Recorded(announced)
  /\ list \in Docs => Recorded(RevokedIn[list])
  /\ \A p \in Procs :
       /\ Recorded(before[p])
       /\ seen[p].rev \in SUBSET Keys => Recorded(seen[p].rev)
       /\ seen[p].list \in Docs => Recorded(RevokedIn[seen[p].list])

TrustInv ==
  /\ TrustTypes /\ LockHeld /\ Kept /\ ToldAll /\ TornOnlyInAWrite
  /\ \A p \in Procs : Knows(p)

Begins(p) == Start(p) \/ RefreshRound(p) \/ ReadTrust(p)
ProcStep(p) == TrustStep(p) \/ Crash(p) \/ Begins(p)

\* What a process is given.
LEMMA GivesTrusts ==
  ASSUME TrustTypes, NEW p \in Procs, Knows(p)
  PROVE  /\ NoTrust \in Trusts /\ WithoutList \in Trusts
         /\ \A revs \in {Unknown} \cup SUBSET Keys : unavailable(revs) \in Trusts
         /\ where[p] \in HasRead => Fallback(seen[p]) \in Trusts
         /\ where[p] \in HasList => assemble(fetched[p], union[p]) \in Trusts
<1> USE TrustAssumption DEF TrustTypes, Trusts, Records
<1>1. \A revs \in {Unknown} \cup SUBSET Keys : unavailable(revs) \in Trusts
  BY DEF unavailable
<1>2. ASSUME NEW d \in Docs, NEW revs \in SUBSET Keys PROVE assemble(d, revs) \in Trusts
  BY <1>1 DEF assemble, assembleKeyring, mergeFrom
<1>3. NoTrust \in Trusts /\ WithoutList \in Trusts
  BY <1>1 DEF NoTrust, WithoutList, unavailable
<1>4. where[p] \in HasRead => Fallback(seen[p]) \in Trusts
  <2>1. CASE seen[p].list \in Docs
    BY <1>2, <2>1 DEF Knows, Fallback
  <2>2. CASE seen[p].list \notin Docs
    BY <1>1, <2>2 DEF Knows, Fallback
  <2> QED
    BY <2>1, <2>2
<1>5. where[p] \in HasList => assemble(fetched[p], union[p]) \in Trusts
  BY <1>2 DEF Knows
<1> QED
  BY <1>1, <1>3, <1>4, <1>5

\* A refresh that fails to save its list hands over the fallback, whose keys
\* count as announced, and perhaps revocations of that list.
LEMMA FailIs ==
  ASSUME TrustTypes, NEW p \in Procs, Knows(p), where[p] \in HasList, FailWith(p)
  PROVE  \E T \in Trusts : /\ HandOver(p, T, Fallback(seen[p]).revs)
                           /\ T.revs \in SUBSET Keys /\ Fallback(seen[p]).revs \subseteq T.revs
<1> DEFINE given == Fallback(seen[p])
<1>1. given \in Trusts
  BY GivesTrusts DEF HasRead, HasList
<1>2. given.revs \in SUBSET Keys
  <2>1. Known(seen[p]) \in SUBSET Keys
    BY DEF Knows, HasRead, HasList
  <2>2. CASE seen[p].list \in Docs
    BY <2>1, <2>2, TrustAssumption DEF Fallback, assemble, unavailable, mergeFrom
  <2>3. CASE seen[p].list \notin Docs
    BY <2>1, <2>3 DEF Fallback, unavailable
  <2> QED
    BY <2>2, <2>3
<1>3. fetched[p] \in Docs
  BY DEF Knows
<1> HIDE DEF given
<1>4. CASE seen[p].rev = Missing
  <2>1. HandOver(p, given, given.revs)
    BY <1>4 DEF FailWith, Give, given
  <2> QED
    BY <1>1, <1>2, <2>1 DEF given
<1>5. CASE seen[p].rev # Missing
  <2> DEFINE T == [given EXCEPT !.revs = mergeFrom(given.revs, fetched[p])]
  <2>1. HandOver(p, T, given.revs)
    BY <1>5, <1>1 DEF FailWith, given, Trusts
  <2>2. mergeFrom(given.revs, fetched[p]) \in SUBSET Keys /\ given.revs \subseteq mergeFrom(given.revs, fetched[p])
    BY <1>2, <1>3, TrustAssumption DEF mergeFrom
  <2>3. T \in Trusts /\ T.revs = mergeFrom(given.revs, fetched[p])
    BY <1>1, <2>2 DEF Trusts
  <2> QED
    BY <2>1, <2>2, <2>3 DEF given
<1> QED
  BY <1>4, <1>5

LEMMA GiveTypes ==
  ASSUME TrustTypes, NEW p \in Procs, NEW T \in Trusts, NEW K \in {Unknown} \cup SUBSET Keys, HandOver(p, T, K)
  PROVE  /\ where' \in [Procs -> TrustWays] /\ does' \in [Procs -> Doings] /\ seen' \in [Procs -> Views]
         /\ fetched' \in [Procs -> Docs \cup {Missing}] /\ union' \in [Procs -> SUBSET Keys]
         /\ result' \in [Procs -> Trusts] /\ announced' \subseteq Keys
<1> USE DEF TrustTypes, HandOver
<1>1. where' \in [Procs -> TrustWays] /\ does' \in [Procs -> Doings]
  BY DEF TrustWays, Doings
<1>2. seen' \in [Procs -> Views]
  BY DEF Views, Fresh, Lists, Records
<1>3. fetched' \in [Procs -> Docs \cup {Missing}] /\ union' \in [Procs -> SUBSET Keys]
  OBVIOUS
<1>4. result' \in [Procs -> Trusts]
  OBVIOUS
<1>5. announced' \subseteq Keys
  OBVIOUS
<1> QED
  BY <1>1, <1>2, <1>3, <1>4, <1>5

\* A step of a process leaves the others' books alone.
LEMMA OwnBooks ==
  ASSUME TrustTypes, NEW p \in Procs, ProcStep(p), NEW q \in Procs, q # p
  PROVE  /\ where'[q] = where[q] /\ seen'[q] = seen[q] /\ fetched'[q] = fetched[q]
         /\ union'[q] = union[q] /\ before'[q] = before[q] /\ result'[q] = result[q]
<1> USE DEF TrustTypes, Give, HandOver, FailWith, Stay
<1>1. CASE readList(p) \/ readSig(p) \/ knownRevocations(p) \/ Refresh(p)
  BY <1>1 DEF readList, readSig, knownRevocations, Refresh
<1>2. CASE readRecord(p)
  BY <1>2 DEF readRecord, AfterRead
<1>3. CASE lockCache(p) \/ mergeWithRecordedRevocations(p) \/ write(p) \/ writeFails(p)
  BY <1>3 DEF lockCache, mergeWithRecordedRevocations, write, writeFails
<1>4. CASE unlock(p) \/ RecordedRevocationCount(p) \/ countList(p)
  BY <1>4 DEF unlock, RecordedRevocationCount, countList
<1>5. CASE Crash(p)
  BY <1>5 DEF Crash
<1>6. CASE Begins(p)
  BY <1>6 DEF Begins, Start, RefreshRound, ReadTrust, Begin
<1> QED
  BY <1>1, <1>2, <1>3, <1>4, <1>5, <1>6 DEF ProcStep, TrustStep

LEMMA TrustTypesStep ==
  ASSUME TrustTypes, NEW p \in Procs, Knows(p), ProcStep(p)
  PROVE  TrustTypes'
<1> USE TrustAssumption DEF Stay
<1>a. ASSUME NEW x \in TrustWays PROVE [where EXCEPT ![p] = x] \in [Procs -> TrustWays]
  BY DEF TrustTypes
<1>b. OnDisk \subseteq Keys /\ (Readable => record \in SUBSET Keys)
  BY DEF OnDisk, Readable, TrustTypes
<1>c. /\ NoTrust \in Trusts /\ WithoutList \in Trusts
      /\ \A revs \in {Unknown} \cup SUBSET Keys : unavailable(revs) \in Trusts
      /\ where[p] \in HasRead => Fallback(seen[p]) \in Trusts
      /\ where[p] \in HasList => assemble(fetched[p], union[p]) \in Trusts
  BY GivesTrusts
<1>d. ASSUME NEW T \in Trusts, Give(p, T)
      PROVE  \E K \in {Unknown} \cup SUBSET Keys : HandOver(p, T, K)
  BY <1>d DEF Give, Trusts
<1>e. ASSUME where[p] \in HasList, FailWith(p)
      PROVE  \E T \in Trusts, K \in {Unknown} \cup SUBSET Keys : HandOver(p, T, K)
  BY <1>e, FailIs
<1>1. CASE readList(p) \/ readSig(p)
  <2>1. seen' \in [Procs -> Views]
    BY <1>1 DEF readList, readSig, TrustTypes, Views
  <2>2. where' \in [Procs -> TrustWays]
    BY <1>1 DEF readList, readSig, TrustTypes, TrustWays
  <2> QED
    BY <1>1, <2>1, <2>2 DEF readList, readSig, TrustTypes, files
<1>2. CASE knownRevocations(p)
  <2>1. PICK T \in Trusts, K \in {Unknown} \cup SUBSET Keys : HandOver(p, T, K)
    BY <1>2, <1>b, <1>c, <1>d DEF knownRevocations
  <2> QED
    BY <1>2, <2>1, GiveTypes DEF knownRevocations, TrustTypes, files
<1>3. CASE Refresh(p)
  <2>1. PICK d \in fetchBytes :
       IF VerifyDocument(d, d) /\ accepts(d, seen[p])
         THEN /\ fetched' = [fetched EXCEPT ![p] = d]
              /\ union' = [union EXCEPT ![p] = mergeFrom(Known(seen[p]), d)]
              /\ Stay(p, "lock") /\ UNCHANGED seen
         ELSE Give(p, Fallback(seen[p]))
    BY <1>3 DEF Refresh
  <2>2. CASE VerifyDocument(d, d) /\ accepts(d, seen[p])
    <3>1. d \in Docs /\ mergeFrom(Known(seen[p]), d) \in SUBSET Keys
      BY <1>3, <2>2 DEF Refresh, VerifyDocument, Knows, HasRead, mergeFrom
    <3>2. fetched' \in [Procs -> Docs \cup {Missing}] /\ union' \in [Procs -> SUBSET Keys]
      BY <2>1, <2>2, <3>1 DEF TrustTypes
    <3>3. where' \in [Procs -> TrustWays]
      BY <2>1, <2>2, <1>a DEF TrustWays
    <3> QED
      BY <1>3, <2>1, <2>2, <3>2, <3>3 DEF Refresh, TrustTypes, files
  <2>3. CASE ~(VerifyDocument(d, d) /\ accepts(d, seen[p]))
    <3>1. PICK T \in Trusts, K \in {Unknown} \cup SUBSET Keys : HandOver(p, T, K)
      BY <1>3, <1>c, <1>d, <2>1, <2>3 DEF Refresh, HasRead
    <3> QED
      BY <1>3, <3>1, GiveTypes DEF Refresh, TrustTypes, files
  <2> QED
    BY <2>2, <2>3
<1>4. CASE readRecord(p)
  <2>1. CASE UNCHANGED <<seen, fetched, union>> /\ Stay(p, "again")
    <3>1. where' \in [Procs -> TrustWays]
      BY <2>1, <1>a DEF TrustWays
    <3> QED
      BY <1>4, <2>1, <3>1 DEF readRecord, TrustTypes, files
  <2>2. ASSUME NEW r \in {Missing} \cup SUBSET Keys, AfterRead(p, [seen[p] EXCEPT !.rev = r]) PROVE TrustTypes'
    <3> DEFINE s == [seen[p] EXCEPT !.rev = r]
    <3>1. s \in Views /\ s.rev = r /\ Known(s) \in SUBSET Keys
      BY DEF TrustTypes, Views, Records, Known
    <3>2. CASE does[p] = "refresh"
      <4>1. where' \in [Procs -> TrustWays] /\ seen' \in [Procs -> Views]
        BY <2>2, <3>1, <3>2, <1>a DEF AfterRead, TrustWays, TrustTypes
      <4> QED
        BY <1>4, <2>2, <3>2, <4>1 DEF AfterRead, readRecord, TrustTypes, files
    <3>3. CASE does[p] # "refresh"
      <4>1. ASSUME NEW d \in Docs, NEW revs \in SUBSET Keys PROVE assemble(d, revs) \in Trusts
        BY <1>c DEF assemble, assembleKeyring, mergeFrom, Trusts
      <4>2. Fallback(s) \in Trusts
        BY <1>c, <3>1, <4>1 DEF Fallback
      <4>3. Give(p, Fallback(s))
        BY <2>2, <3>3 DEF AfterRead
      <4>4. PICK T \in Trusts, K \in {Unknown} \cup SUBSET Keys : HandOver(p, T, K)
        BY <1>d, <4>2, <4>3
      <4> QED
        BY <1>4, <4>4, GiveTypes DEF readRecord, TrustTypes, files
    <3> QED
      BY <3>2, <3>3
  <2> QED
    BY <1>4, <1>b, <2>1, <2>2 DEF readRecord
<1>5. CASE lockCache(p)
  <2>1. CASE lock = Free /\ lock' = p /\ Stay(p, "merge") /\ UNCHANGED <<seen, fetched, union>>
    <3>1. where' \in [Procs -> TrustWays]
      BY <2>1, <1>a DEF TrustWays, Locked
    <3> QED
      BY <1>5, <2>1, <3>1 DEF lockCache, TrustTypes
  <2>2. CASE FailWith(p) /\ UNCHANGED lock
    <3>1. PICK T \in Trusts, K \in {Unknown} \cup SUBSET Keys : HandOver(p, T, K)
      BY <1>5, <1>e, <2>2 DEF lockCache, HasList
    <3> QED
      BY <1>5, <2>2, <3>1, GiveTypes DEF lockCache, TrustTypes
  <2> QED
    BY <1>5, <2>1, <2>2 DEF lockCache
<1>6. CASE mergeWithRecordedRevocations(p)
  <2>1. where' \in [Procs -> TrustWays]
    BY <1>6, <1>a DEF mergeWithRecordedRevocations, TrustWays, Locked
  <2>2. union' \in [Procs -> SUBSET Keys]
    BY <1>6, <1>b DEF mergeWithRecordedRevocations, TrustTypes
  <2> QED
    BY <1>6, <2>1, <2>2 DEF mergeWithRecordedRevocations, TrustTypes, files
<1>7. CASE write(p) \/ writeFails(p)
  <2>1. where' \in [Procs -> TrustWays]
    BY <1>7, <1>a DEF write, writeFails, TrustWays, Locked
  <2>2. list' \in Lists /\ sig' \in Lists /\ record' \in {Missing, Damaged} \cup SUBSET Keys
    BY <1>7 DEF write, writeFails, TrustTypes, Lists, files
  <2>3. hurt' \in BOOLEAN
    BY <1>7 DEF write, writeFails, TrustTypes
  <2> QED
    BY <1>7, <2>1, <2>2, <2>3 DEF write, writeFails, TrustTypes, files
<1>8. CASE unlock(p)
  <2>1. PICK T \in Trusts, K \in {Unknown} \cup SUBSET Keys : HandOver(p, T, K)
    <3>1. where[p] \in HasList
      BY <1>8 DEF unlock, HasList, Locked
    <3>2. CASE FailWith(p)
      BY <1>e, <3>1, <3>2
    <3>3. CASE Give(p, assemble(fetched[p], union[p]))
      BY <1>c, <1>d, <3>1, <3>3
    <3> QED
      BY <1>8, <3>2, <3>3 DEF unlock
  <2>2. lock' \in Procs \cup {Free, Left} /\ before' \in [Procs -> SUBSET Keys]
    BY <1>8, <1>b DEF unlock, TrustTypes
  <2> QED
    BY <1>8, <2>1, <2>2, GiveTypes DEF unlock, TrustTypes
<1>9. CASE RecordedRevocationCount(p) \/ countList(p)
  <2>1. CASE Stay(p, "countList") /\ UNCHANGED <<seen, fetched, union>>
    <3>1. where' \in [Procs -> TrustWays]
      BY <2>1, <1>a DEF TrustWays
    <3> QED
      BY <1>9, <2>1, <3>1 DEF RecordedRevocationCount, countList, TrustTypes, files
  <2>2. CASE \E T \in Trusts, K \in {Unknown} \cup SUBSET Keys : HandOver(p, T, K)
    BY <1>9, <2>2, GiveTypes DEF RecordedRevocationCount, countList, TrustTypes, files
  <2> QED
    BY <1>9, <1>c, <1>d, <2>1, <2>2 DEF RecordedRevocationCount, countList
<1>10. CASE Crash(p)
  <2>1. where' \in [Procs -> TrustWays] /\ does' \in [Procs -> Doings]
    BY <1>10 DEF Crash, TrustTypes, TrustWays, Doings
  <2>2. seen' \in [Procs -> Views]
    BY <1>10 DEF Crash, TrustTypes, Views, Fresh, Lists, Records
  <2> QED
    BY <1>10, <2>1, <2>2 DEF Crash, TrustTypes
<1>11. CASE Begins(p)
  <2>1. where' \in [Procs -> TrustWays] /\ does' \in [Procs -> Doings]
    BY <1>11 DEF Begins, Start, RefreshRound, ReadTrust, Begin, TrustTypes, TrustWays, Doings
  <2>2. before' \in [Procs -> SUBSET Keys] /\ result' \in [Procs -> Trusts]
    BY <1>11, <1>b, <1>c DEF Begins, Start, RefreshRound, ReadTrust, Begin, TrustTypes
  <2> QED
    BY <1>11, <2>1, <2>2 DEF Begins, Start, RefreshRound, ReadTrust, Begin, TrustTypes, files
<1> QED
  BY <1>1, <1>2, <1>3, <1>4, <1>5, <1>6, <1>7, <1>8, <1>9, <1>10, <1>11 DEF ProcStep, TrustStep

LEMMA LockHeldStep ==
  ASSUME TrustTypes, LockHeld, NEW p \in Procs, ProcStep(p)
  PROVE  LockHeld'
<1> USE TrustAssumption DEF TrustTypes
<1>1. /\ where'[p] \in Locked <=> lock' = p
      /\ lock' # lock => (lock = Free /\ lock' = p) \/ (lock = p /\ lock' \in {Free, Left})
  <2> USE DEF LockHeld, Locked, Give, HandOver, FailWith, Stay
  <2>1. CASE readList(p) \/ readSig(p) \/ knownRevocations(p) \/ Refresh(p)
    BY <2>1 DEF readList, readSig, knownRevocations, Refresh, files
  <2>2. CASE readRecord(p)
    BY <2>2 DEF readRecord, AfterRead, files
  <2>3. CASE lockCache(p)
    BY <2>3 DEF lockCache
  <2>4. CASE mergeWithRecordedRevocations(p) \/ write(p) \/ writeFails(p)
    BY <2>4 DEF mergeWithRecordedRevocations, write, writeFails, files
  <2>5. CASE unlock(p)
    BY <2>5 DEF unlock
  <2>6. CASE RecordedRevocationCount(p) \/ countList(p)
    BY <2>6 DEF RecordedRevocationCount, countList, files
  <2>7. CASE Crash(p)
    BY <2>7 DEF Crash
  <2>8. CASE Begins(p)
    BY <2>8 DEF Begins, Start, RefreshRound, ReadTrust, Begin, files
  <2> QED
    BY <2>1, <2>2, <2>3, <2>4, <2>5, <2>6, <2>7, <2>8 DEF ProcStep, TrustStep
<1>2. ASSUME NEW q \in Procs, q # p PROVE where'[q] \in Locked <=> lock' = q
  <2>1. where'[q] = where[q] /\ (where[q] \in Locked <=> lock = q)
    BY <1>2, OwnBooks DEF LockHeld
  <2> QED
    BY <1>1, <1>2, <2>1
<1> QED
  BY <1>1, <1>2 DEF LockHeld

\* What was recorded stays recorded: only a holder of the lock writes the
\* record, and it has merged.
RecordedNext(S) ==
  /\ record' # Damaged => S \subseteq OnDisk'
  /\ \A p \in Procs : where'[p] = "putRecord" => S \subseteq union'[p]

\* How the record changes, and who is about to change it.
LEMMA RecordSteps ==
  ASSUME TrustTypes, LockHeld, NEW p \in Procs, Knows(p), ProcStep(p)
  PROVE  /\ record' = record \/ (where[p] = "putRecord" /\ record' = union[p] /\ where'[p] = "putSig")
         /\ where'[p] = "putRecord" => where[p] = "merge" /\ record # Damaged /\ union'[p] = union[p] \cup OnDisk
<1> USE DEF TrustTypes, Give, HandOver, FailWith, Stay
<1>1. CASE readList(p) \/ readSig(p) \/ knownRevocations(p) \/ Refresh(p)
  BY <1>1 DEF readList, readSig, knownRevocations, Refresh, files
<1>2. CASE readRecord(p)
  BY <1>2 DEF readRecord, AfterRead, files
<1>3. CASE lockCache(p) \/ writeFails(p)
  BY <1>3 DEF lockCache, writeFails, files
<1>4. CASE mergeWithRecordedRevocations(p)
  BY <1>4 DEF mergeWithRecordedRevocations, files
<1>5. CASE write(p)
  BY <1>5 DEF write
<1>6. CASE unlock(p) \/ RecordedRevocationCount(p) \/ countList(p)
  BY <1>6 DEF unlock, RecordedRevocationCount, countList, files
<1>7. CASE Crash(p)
  BY <1>7 DEF Crash
<1>8. CASE Begins(p)
  BY <1>8 DEF Begins, Start, RefreshRound, ReadTrust, Begin, files
<1> QED
  BY <1>1, <1>2, <1>3, <1>4, <1>5, <1>6, <1>7, <1>8 DEF ProcStep, TrustStep

LEMMA RecordedStays ==
  ASSUME TrustTypes, LockHeld, \A q \in Procs : Knows(q), NEW p \in Procs, ProcStep(p), NEW S, Recorded(S)
  PROVE  RecordedNext(S)
<1>1. /\ record' = record \/ (where[p] = "putRecord" /\ record' = union[p] /\ where'[p] = "putSig")
      /\ where'[p] = "putRecord" => where[p] = "merge" /\ record # Damaged /\ union'[p] = union[p] \cup OnDisk
  BY RecordSteps
<1>2. \A q \in Procs : q # p => where'[q] = where[q] /\ union'[q] = union[q]
  BY OwnBooks
<1>3. union[p] \in SUBSET Keys /\ Missing # Damaged
  BY TrustAssumption DEF TrustTypes
<1>4. record' # Damaged => S \subseteq OnDisk'
  <2>1. CASE record' = record
    BY <2>1 DEF Recorded, OnDisk, Readable
  <2>2. CASE where[p] = "putRecord" /\ record' = union[p]
    <3>1. S \subseteq union[p] /\ record' \notin {Missing, Damaged}
      BY <1>3, <2>2, TrustAssumption DEF Recorded
    <3> QED
      BY <2>2, <3>1 DEF OnDisk, Readable
  <2> QED
    BY <1>1, <2>1, <2>2
<1>5. ASSUME NEW q \in Procs, where'[q] = "putRecord" PROVE S \subseteq union'[q]
  BY <1>1, <1>2, <1>5 DEF Recorded
<1> QED
  BY <1>4, <1>5 DEF RecordedNext

\* Who else may write the files: the one that has the lock.
LEMMA FileSteps ==
  ASSUME TrustTypes, NEW p \in Procs, ProcStep(p)
  PROVE  /\ record' # record \/ sig' # sig \/ list' # list => where[p] \in Locked
         /\ hurt => hurt'
         /\ list' # list => where[p] = "putList" /\ list' = fetched[p] /\ sig' = sig /\ where'[p] = "unlock"
         /\ sig' # sig => where[p] = "putSig" /\ sig' = fetched[p] /\ list' = list /\ where'[p] = "putList"
         /\ where[p] = "putList" => list' = fetched[p] \/ hurt'
<1> USE DEF TrustTypes, Give, HandOver, FailWith, Stay, Locked
<1>1. CASE readList(p) \/ readSig(p) \/ knownRevocations(p) \/ Refresh(p)
  BY <1>1 DEF readList, readSig, knownRevocations, Refresh, files
<1>2. CASE readRecord(p)
  BY <1>2 DEF readRecord, AfterRead, files
<1>3. CASE lockCache(p) \/ writeFails(p) \/ mergeWithRecordedRevocations(p)
  BY <1>3 DEF lockCache, writeFails, mergeWithRecordedRevocations, files
<1>4. CASE write(p)
  BY <1>4 DEF write
<1>5. CASE unlock(p) \/ RecordedRevocationCount(p) \/ countList(p)
  BY <1>5 DEF unlock, RecordedRevocationCount, countList, files
<1>6. CASE Crash(p)
  BY <1>6 DEF Crash
<1>7. CASE Begins(p)
  BY <1>7 DEF Begins, Start, RefreshRound, ReadTrust, Begin, files
<1> QED
  BY <1>1, <1>2, <1>3, <1>4, <1>5, <1>6, <1>7 DEF ProcStep, TrustStep

LEMMA OthersKnow ==
  ASSUME TrustTypes, LockHeld, NEW p \in Procs, ProcStep(p), NEW q \in Procs, q # p, Knows(q)
  PROVE  Knows(q)'
<1>1. /\ where'[q] = where[q] /\ seen'[q] = seen[q] /\ fetched'[q] = fetched[q]
      /\ union'[q] = union[q] /\ before'[q] = before[q]
  BY OwnBooks
<1>2. hurt => hurt'
  BY FileSteps
<1>3. where[q] \in Locked => record' = record /\ sig' = sig
  BY FileSteps DEF LockHeld
<1>4. where[q] \in Locked => OnDisk' = OnDisk
  BY <1>3 DEF OnDisk, Readable
<1> QED
  BY <1>1, <1>2, <1>3, <1>4 DEF Knows, Locked

LEMMA OwnKnowledge ==
  ASSUME TrustTypes, Kept, NEW p \in Procs, Knows(p), ProcStep(p)
  PROVE  Knows(p)'
<1> USE TrustAssumption DEF TrustTypes, Give, HandOver, FailWith, Stay
<1>a. Recorded(before[p])
  BY DEF Kept
<1>1. CASE readList(p) \/ readSig(p) \/ knownRevocations(p)
  <2>1. where'[p] \in {"record", "sig", "again", "given"}
    BY <1>1 DEF readList, readSig, knownRevocations
  <2> QED
    BY <2>1 DEF Knows, HasRead, HasList, Locked
<1>2. CASE Refresh(p)
  <2>1. CASE where'[p] = "given"
    BY <2>1 DEF Knows, HasRead, HasList, Locked
  <2>2. CASE where'[p] # "given"
    <3>1. PICK d \in fetchBytes :
         /\ VerifyDocument(d, d)
         /\ fetched' = [fetched EXCEPT ![p] = d]
         /\ union' = [union EXCEPT ![p] = mergeFrom(Known(seen[p]), d)]
         /\ where' = [where EXCEPT ![p] = "lock"] /\ UNCHANGED <<seen, before>>
      BY <1>2, <2>2 DEF Refresh
    <3>2. where'[p] = "lock" /\ fetched'[p] = d /\ d \in Docs /\ union'[p] = Known(seen[p]) \cup RevokedIn[d]
      BY <3>1 DEF VerifyDocument, mergeFrom
    <3>3. where[p] = "fetch"
      BY <1>2 DEF Refresh
    <3> QED
      BY <3>1, <3>2, <3>3 DEF Knows, HasRead, HasList, Locked
  <2> QED
    BY <2>1, <2>2
<1>3. CASE readRecord(p)
  <2>1. CASE where'[p] \in {"again", "given"}
    BY <2>1 DEF Knows, HasRead, HasList, Locked
  <2>2. CASE where'[p] \notin {"again", "given"}
    <3>1. /\ Readable \/ record = Missing
          /\ AfterRead(p, [seen[p] EXCEPT !.rev = record])
      BY <1>3, <2>2 DEF readRecord
    <3>2. does[p] = "refresh"
      BY <2>2, <3>1 DEF AfterRead
    <3>3. seen'[p] = [seen[p] EXCEPT !.rev = record] /\ where'[p] = "fetch" /\ before' = before
      BY <1>3, <3>1, <3>2 DEF AfterRead, readRecord
    <3>4. seen'[p].rev = record
      BY <3>3 DEF Views
    <3>5. record # Damaged /\ Known(seen[p])' = OnDisk /\ OnDisk \in SUBSET Keys
      BY <3>1, <3>4 DEF Known, OnDisk, Readable
    <3>6. before[p] \subseteq OnDisk
      BY <1>a, <3>5 DEF Recorded
    <3> QED
      BY <3>3, <3>5, <3>6 DEF Knows, HasRead, HasList, Locked
  <2> QED
    BY <2>1, <2>2
<1>4. CASE lockCache(p)
  BY <1>4 DEF lockCache, Knows, HasRead, HasList, Locked
<1>5. CASE mergeWithRecordedRevocations(p)
  <2>1. where[p] = "merge" /\ union'[p] = IF record = Damaged THEN union[p] ELSE union[p] \cup OnDisk
    BY <1>5 DEF mergeWithRecordedRevocations
  <2>2. UNCHANGED <<files, seen, fetched, before, hurt>> /\ where'[p] = (IF record = Damaged THEN "fail" ELSE "putRecord")
    BY <1>5 DEF mergeWithRecordedRevocations
  <2>3. OnDisk' = OnDisk
    BY <2>2 DEF files, OnDisk, Readable
  <2> QED
    BY <2>1, <2>2, <2>3 DEF Knows, HasRead, HasList, Locked
<1>6. CASE write(p) \/ writeFails(p)
  BY <1>6 DEF write, writeFails, files, Knows, HasRead, HasList, Locked
<1>7. CASE unlock(p)
  <2>1. where'[p] = "given"
    BY <1>7 DEF unlock
  <2> QED
    BY <2>1 DEF Knows, HasRead, HasList, Locked
<1>8. CASE RecordedRevocationCount(p) \/ countList(p)
  <2>1. CASE where'[p] = "given"
    BY <2>1 DEF Knows, HasRead, HasList, Locked
  <2>2. CASE where'[p] # "given"
    <3>1. record = Missing /\ where'[p] = "countList" /\ before' = before
      BY <1>8, <2>2 DEF RecordedRevocationCount, countList
    <3>2. before[p] = {}
      BY <1>a, <3>1 DEF Recorded, OnDisk, Readable
    <3> QED
      BY <3>1, <3>2 DEF Knows, HasRead, HasList, Locked
  <2> QED
    BY <2>1, <2>2
<1>9. CASE Crash(p)
  <2>1. where'[p] = "idle"
    BY <1>9 DEF Crash
  <2> QED
    BY <2>1 DEF Knows, HasRead, HasList, Locked
<1>10. CASE Begins(p)
  <2>1. where'[p] \in {"count", "list"}
    BY <1>10 DEF Begins, Start, RefreshRound, ReadTrust, Begin
  <2> QED
    BY <2>1 DEF Knows, HasRead, HasList, Locked
<1> QED
  BY <1>1, <1>2, <1>3, <1>4, <1>5, <1>6, <1>7, <1>8, <1>9, <1>10 DEF ProcStep, TrustStep

\* What a caller is given says all that was recorded when its operation began,
\* or says that it is not known; and it says nothing that is not recorded.
LEMMA GivenSteps ==
  ASSUME TrustInv, NEW p \in Procs, ProcStep(p)
  PROVE  /\ where'[p] = "given" =>
              \/ result'[p].revs = Unknown /\ announced' = announced
              \/ /\ result'[p].revs \in SUBSET Keys
                 /\ before'[p] \subseteq result'[p].revs
                 /\ \E K : announced' = announced \cup K /\ RecordedNext(K)
         /\ where'[p] # "given" => announced' = announced
<1> USE TrustAssumption DEF TrustTypes
<1>a. Knows(p) /\ TrustTypes /\ Recorded(before[p]) /\ (seen[p].list \in Docs => Recorded(RevokedIn[seen[p].list]))
      /\ (seen[p].rev \in SUBSET Keys => Recorded(seen[p].rev))
  BY DEF TrustInv, Kept
<1>b. \A S : Recorded(S) => RecordedNext(S)
  BY RecordedStays DEF TrustInv
<1> DEFINE Told(T) == T.revs \in SUBSET Keys /\ before[p] \subseteq T.revs /\ Recorded(T.revs)
<1>c. ASSUME NEW T, Give(p, T), before' = before, T.revs = Unknown \/ Told(T)
      PROVE  /\ where'[p] = "given"
             /\ \/ result'[p].revs = Unknown /\ announced' = announced
                \/ /\ result'[p].revs \in SUBSET Keys
                   /\ before'[p] \subseteq result'[p].revs
                   /\ \E K : announced' = announced \cup K /\ RecordedNext(K)
  <2>1. where'[p] = "given" /\ result'[p] = T
    BY <1>a, <1>c DEF Give, HandOver
  <2>2. CASE T.revs = Unknown
    BY <1>c, <2>1, <2>2 DEF Give, HandOver
  <2>3. CASE Told(T)
    <3>1. T.revs # Unknown
      BY <2>3
    <3> QED
      BY <1>a, <1>b, <1>c, <2>1, <2>3, <3>1 DEF Give, HandOver
  <2> QED
    BY <1>c, <2>2, <2>3
<1>d. ASSUME NEW s \in Views, Known(s) \in SUBSET Keys, before[p] \subseteq Known(s), Recorded(Known(s)),
             s.list \in Docs => Recorded(RevokedIn[s.list])
      PROVE  Told(Fallback(s))
  <2>1. CASE s.list \in Docs
    <3>1. Fallback(s).revs = Known(s) \/ Fallback(s).revs = Known(s) \cup RevokedIn[s.list]
      BY <2>1 DEF Fallback, assemble, unavailable, mergeFrom
    <3>2. Recorded(Known(s) \cup RevokedIn[s.list])
      BY <1>d, <2>1 DEF Recorded
    <3> QED
      BY <1>d, <2>1, <3>1, <3>2
  <2>2. CASE s.list \notin Docs
    BY <1>d, <2>2 DEF Fallback, unavailable
  <2> QED
    BY <2>1, <2>2
<1>e. where[p] \in HasRead => Told(Fallback(seen[p]))
  <2> SUFFICES ASSUME where[p] \in HasRead PROVE Told(Fallback(seen[p]))
    OBVIOUS
  <2>1. seen[p] \in Views /\ Known(seen[p]) \in SUBSET Keys /\ before[p] \subseteq Known(seen[p])
    BY <1>a DEF Knows
  <2>2. Recorded(Known(seen[p])) /\ (seen[p].list \in Docs => Recorded(RevokedIn[seen[p].list]))
    <3>1. Recorded({})
      BY DEF Recorded
    <3>2. Known(seen[p]) \in {{}, seen[p].rev}
      BY DEF Known
    <3> QED
      BY <1>a, <2>1, <3>1, <3>2
  <2> HIDE DEF Told
  <2> QED
    BY <1>d, <2>1, <2>2
<1>f. Recorded(OnDisk) /\ Recorded({}) /\ OnDisk \in SUBSET Keys
  BY <1>a DEF TrustInv, Knows, Recorded, OnDisk, Readable
<1>g. ASSUME where[p] \in HasList, FailWith(p), before' = before
      PROVE  /\ where'[p] = "given"
             /\ result'[p].revs \in SUBSET Keys
             /\ before'[p] \subseteq result'[p].revs
             /\ \E K : announced' = announced \cup K /\ RecordedNext(K)
  <2>1. PICK T \in Trusts : /\ HandOver(p, T, Fallback(seen[p]).revs)
                            /\ T.revs \in SUBSET Keys /\ Fallback(seen[p]).revs \subseteq T.revs
    BY <1>a, <1>g, FailIs
  <2>2. where[p] \in HasRead
    BY <1>g DEF HasRead, HasList
  <2>3. Told(Fallback(seen[p]))
    BY <1>e, <2>2
  <2>4. Fallback(seen[p]).revs # Unknown
    BY <2>3
  <2>5. where'[p] = "given" /\ result'[p] = T /\ announced' = announced \cup Fallback(seen[p]).revs
    BY <1>a, <2>1, <2>4 DEF HandOver
  <2> QED
    BY <1>b, <1>g, <2>1, <2>3, <2>5
<1> HIDE DEF Told
<1>1. CASE readList(p) \/ readSig(p) \/ mergeWithRecordedRevocations(p) \/ write(p) \/ writeFails(p)
  <2>1. where'[p] # "given" /\ announced' = announced
    BY <1>1, <1>a DEF readList, readSig, mergeWithRecordedRevocations, write, writeFails, Stay
  <2> QED
    BY <2>1
<1>2. CASE knownRevocations(p)
  <2> DEFINE T == unavailable(IF Readable THEN record ELSE Unknown)
  <2>1. Give(p, T) /\ before' = before
    BY <1>2 DEF knownRevocations
  <2>2. CASE Readable
    <3>1. record = OnDisk /\ record # Damaged /\ T.revs = OnDisk
      BY <2>2 DEF Readable, OnDisk, unavailable
    <3>2. Told(T)
      BY <1>a, <1>f, <3>1 DEF Told, Recorded
    <3> QED
      BY <1>c, <2>1, <3>2
  <2>3. CASE ~Readable
    <3>1. T.revs = Unknown
      BY <2>3 DEF unavailable
    <3> QED
      BY <1>c, <2>1, <3>1
  <2> QED
    BY <2>2, <2>3
<1>3. CASE Refresh(p)
  <2>1. before' = before /\ where[p] = "fetch"
    BY <1>3 DEF Refresh
  <2>2. Give(p, Fallback(seen[p])) \/ (where'[p] # "given" /\ announced' = announced)
    BY <1>3, <1>a DEF Refresh, Stay
  <2> QED
    BY <1>c, <1>e, <2>1, <2>2 DEF HasRead, Give, HandOver
<1>4. CASE lockCache(p)
  <2>1. before' = before /\ where[p] \in HasList
    BY <1>4 DEF lockCache, HasList
  <2>2. FailWith(p) \/ (where'[p] # "given" /\ announced' = announced)
    BY <1>4, <1>a DEF lockCache, Stay
  <2> QED
    BY <1>g, <2>1, <2>2
<1>5. CASE readRecord(p)
  <2>1. before' = before /\ where[p] = "record"
    BY <1>5 DEF readRecord
  <2>2. CASE Stay(p, "again")
    BY <1>a, <2>2 DEF Stay
  <2>3. CASE (Readable \/ record = Missing) /\ AfterRead(p, [seen[p] EXCEPT !.rev = record])
    <3> DEFINE s == [seen[p] EXCEPT !.rev = record]
    <3>1. s \in Views /\ s.rev = record /\ s.list = seen[p].list
      BY <1>a DEF Views, Records
    <3>2. record # Damaged /\ Known(s) = OnDisk
      BY <2>3, <3>1 DEF Known, OnDisk, Readable
    <3>3. AfterRead(p, s)
      BY <2>3
    <3> HIDE DEF s
    <3>4. before[p] \subseteq OnDisk
      BY <1>a, <3>2 DEF Recorded
    <3>5. Told(Fallback(s))
      BY <1>a, <1>d, <1>f, <3>1, <3>2, <3>4
    <3>6. CASE does[p] = "refresh"
      BY <1>a, <3>3, <3>6 DEF AfterRead, Stay
    <3>7. CASE does[p] # "refresh"
      <4>1. Give(p, Fallback(s))
        BY <3>3, <3>7 DEF AfterRead
      <4> QED
        BY <1>c, <2>1, <3>5, <4>1
    <3> QED
      BY <3>6, <3>7
  <2> QED
    BY <1>5, <2>2, <2>3 DEF readRecord
<1>6. CASE unlock(p)
  <2>0. where[p] \in HasList
    BY <1>6 DEF unlock, HasList, Locked
  <2>1. CASE FailWith(p) /\ UNCHANGED before
    BY <1>g, <2>0, <2>1
  <2>2. CASE where[p] = "unlock" /\ Give(p, assemble(fetched[p], union[p])) /\ before' = [before EXCEPT ![p] = OnDisk]
    <3> DEFINE T == assemble(fetched[p], union[p])
    <3>1. fetched[p] \in Docs /\ RevokedIn[fetched[p]] \subseteq union[p] /\ record \in {union[p], Damaged}
      BY <1>a, <2>2 DEF Knows, HasList, Locked
    <3>2. T.revs = union[p]
      BY <3>1 DEF assemble, unavailable, mergeFrom
    <3>3. OnDisk \subseteq union[p] /\ union[p] # Unknown /\ union[p] \in SUBSET Keys
      BY <1>a, <3>1 DEF OnDisk, Readable
    <3>4. \A q \in Procs : where[q] # "putRecord"
      BY <2>2 DEF TrustInv, LockHeld, Locked
    <3>5. Recorded(union[p])
      BY <3>1, <3>3, <3>4 DEF Recorded, OnDisk, Readable
    <3>6. where'[p] = "given" /\ result'[p] = T /\ before'[p] = OnDisk
      BY <1>a, <2>2 DEF Give, HandOver
    <3>7. announced' = announced \cup T.revs
      BY <2>2, <3>2, <3>3 DEF Give, HandOver
    <3> QED
      BY <1>b, <3>2, <3>3, <3>5, <3>6, <3>7
  <2> QED
    BY <1>6, <2>1, <2>2 DEF unlock
<1>7. CASE RecordedRevocationCount(p) \/ countList(p)
  <2>1. before' = before
    BY <1>7 DEF RecordedRevocationCount, countList
  <2>2. NoTrust.revs = Unknown /\ WithoutList.revs = {}
    BY DEF NoTrust, WithoutList, unavailable
  <2>3. CASE Stay(p, "countList")
    BY <1>a, <2>3 DEF Stay
  <2>4. CASE Give(p, NoTrust)
    BY <1>c, <2>1, <2>2, <2>4
  <2>5. CASE Give(p, WithoutList) /\ before[p] = {}
    <3>1. Told(WithoutList)
      BY <1>f, <2>2, <2>5 DEF Told
    <3> QED
      BY <1>c, <2>1, <2>5, <3>1
  <2>6. CASE RecordedRevocationCount(p) /\ record = {}
    <3>1. before[p] = {}
      BY <1>a, <2>6 DEF Recorded, OnDisk
    <3> QED
      BY <1>7, <2>3, <2>4, <2>5, <2>6, <3>1 DEF RecordedRevocationCount
  <2> QED
    BY <1>7, <1>a, <2>3, <2>4, <2>5, <2>6 DEF RecordedRevocationCount, countList, Knows
<1>8. CASE Crash(p) \/ Begins(p)
  <2>1. where'[p] # "given" /\ announced' = announced
    BY <1>8, <1>a DEF Crash, Begins, Start, RefreshRound, ReadTrust, Begin
  <2> QED
    BY <2>1
<1> QED
  BY <1>1, <1>2, <1>3, <1>4, <1>5, <1>6, <1>7, <1>8 DEF ProcStep, TrustStep

\* What a process has read of the files since.
LEMMA OwnReading ==
  ASSUME TrustInv, NEW p \in Procs, ProcStep(p)
  PROVE  /\ RecordedNext(before'[p])
         /\ seen'[p].rev \in SUBSET Keys => RecordedNext(seen'[p].rev)
         /\ seen'[p].list \in Docs => RecordedNext(RevokedIn[seen'[p].list])
<1> USE TrustAssumption DEF TrustTypes
<1>a. Knows(p) /\ TrustTypes /\ Recorded(before[p]) /\ (seen[p].list \in Docs => Recorded(RevokedIn[seen[p].list]))
      /\ (seen[p].rev \in SUBSET Keys => Recorded(seen[p].rev)) /\ (list \in Docs => Recorded(RevokedIn[list]))
  BY DEF TrustInv, Kept
<1>b. \A S : Recorded(S) => RecordedNext(S)
  BY RecordedStays DEF TrustInv
<1>c. Recorded(OnDisk) /\ Recorded({})
  BY <1>a DEF TrustInv, Knows, Recorded, OnDisk, Readable
<1>d. Fresh.rev \notin SUBSET Keys /\ Fresh.list \notin Docs
  BY DEF Fresh
<1>1. before'[p] \in {before[p], OnDisk, {}}
  <2> USE <1>a DEF Give, HandOver, FailWith
  <2>1. CASE Begins(p)
    BY <2>1 DEF Begins, Start, RefreshRound, ReadTrust, Begin
  <2>2. CASE unlock(p)
    BY <2>2 DEF unlock
  <2>3. CASE Crash(p)
    BY <2>3 DEF Crash
  <2>4. CASE ~Begins(p) /\ ~unlock(p) /\ ~Crash(p)
    BY <2>4 DEF ProcStep, TrustStep, readList, readSig, readRecord, knownRevocations, Refresh, lockCache,
       mergeWithRecordedRevocations, write, writeFails, RecordedRevocationCount, countList
  <2> QED
    BY <2>1, <2>2, <2>3, <2>4
<1>2. /\ seen'[p].list \in {seen[p].list, list, Missing}
      /\ seen'[p].rev \in {seen[p].rev, Missing, {}} \/ (seen'[p].rev = record /\ Readable)
  <2> USE <1>a DEF Give, HandOver, FailWith, Stay, Fresh
  <2>1. CASE readList(p)
    BY <2>1 DEF readList, Views
  <2>2. CASE readSig(p)
    BY <2>2 DEF readSig, Views
  <2>3. CASE readRecord(p)
    <3>1. CASE UNCHANGED seen
      BY <3>1
    <3>2. ASSUME NEW r, AfterRead(p, [seen[p] EXCEPT !.rev = r]) PROVE seen'[p] = Fresh \/ (seen'[p].rev = r /\ seen'[p].list = seen[p].list)
      BY <3>2 DEF AfterRead, Views
    <3>3. CASE (Readable \/ record = Missing) /\ AfterRead(p, [seen[p] EXCEPT !.rev = record])
      <4>1. seen'[p] = Fresh \/ (seen'[p].rev = record /\ seen'[p].list = seen[p].list)
        BY <3>2, <3>3
      <4> QED
        BY <3>3, <4>1
    <3> QED
      BY <2>3, <3>1, <3>3 DEF readRecord
  <2>4. CASE ~readList(p) /\ ~readSig(p) /\ ~readRecord(p)
    <3>1. seen'[p] = seen[p] \/ seen'[p] = Fresh
      BY <2>4 DEF ProcStep, TrustStep, knownRevocations, Refresh, lockCache, mergeWithRecordedRevocations, write, writeFails,
         RecordedRevocationCount, countList, unlock, Crash, Begins, Start, RefreshRound, ReadTrust, Begin
    <3> QED
      BY <3>1
  <2> QED
    BY <2>1, <2>2, <2>3, <2>4
<1>3. RecordedNext(before'[p])
  BY <1>a, <1>b, <1>c, <1>1
<1>4. seen'[p].rev \in SUBSET Keys => RecordedNext(seen'[p].rev)
  <2>1. CASE seen'[p].rev = record /\ Readable
    <3>1. seen'[p].rev = OnDisk
      BY <2>1 DEF OnDisk
    <3> QED
      BY <1>b, <1>c, <3>1
  <2> QED
    BY <1>a, <1>b, <1>c, <1>2, <2>1
<1>5. seen'[p].list \in Docs => RecordedNext(RevokedIn[seen'[p].list])
  BY <1>a, <1>b, <1>2
<1> QED
  BY <1>3, <1>4, <1>5

LEMMA KeptStep ==
  ASSUME TrustInv, NEW p \in Procs, ProcStep(p)
  PROVE  Kept'
<1> USE TrustAssumption
<1>b. \A S : Recorded(S) => RecordedNext(S)
  BY RecordedStays DEF TrustInv
<1>1. Recorded(announced)'
  <2>1. RecordedNext(announced)
    BY <1>b DEF TrustInv, Kept
  <2>2. announced' = announced \/ \E K : announced' = announced \cup K /\ RecordedNext(K)
    BY GivenSteps
  <2> QED
    BY <2>1, <2>2 DEF Recorded, RecordedNext
<1>2. list' \in Docs => Recorded(RevokedIn[list])'
  <2>1. CASE list' = list
    <3>1. list' \in Docs => RecordedNext(RevokedIn[list'])
      BY <1>b, <2>1 DEF TrustInv, Kept
    <3> QED
      BY <3>1 DEF Recorded, RecordedNext
  <2>2. CASE list' # list
    <3>1. where[p] = "putList" /\ list' = fetched[p] /\ where'[p] = "unlock"
      BY <2>2, FileSteps DEF TrustInv
    <3>2. fetched[p] \in Docs /\ RevokedIn[fetched[p]] \subseteq union[p] /\ record \in {union[p], Damaged}
      BY <3>1 DEF TrustInv, Knows, HasList, Locked
    <3>3. \A q \in Procs : where[q] # "putRecord"
      BY <3>1 DEF TrustInv, LockHeld, Locked
    <3>4. union[p] \notin {Missing, Damaged}
      BY DEF TrustInv, TrustTypes
    <3>5. Recorded(RevokedIn[fetched[p]])
      BY <3>2, <3>3, <3>4 DEF Recorded, OnDisk, Readable
    <3>6. RecordedNext(RevokedIn[list'])
      BY <1>b, <3>1, <3>5
    <3> QED
      BY <3>6 DEF Recorded, RecordedNext
  <2> QED
    BY <2>1, <2>2
<1>3. ASSUME NEW q \in Procs
      PROVE  /\ RecordedNext(before'[q])
             /\ seen'[q].rev \in SUBSET Keys => RecordedNext(seen'[q].rev)
             /\ seen'[q].list \in Docs => RecordedNext(RevokedIn[seen'[q].list])
  <2>1. CASE q = p
    BY <2>1, OwnReading
  <2>2. CASE q # p
    <3>1. seen'[q] = seen[q] /\ before'[q] = before[q]
      BY <2>2, OwnBooks DEF TrustInv
    <3> QED
      BY <1>b, <3>1 DEF TrustInv, Kept
  <2> QED
    BY <2>1, <2>2
<1> QED
  BY <1>1, <1>2, <1>3 DEF Kept, Recorded, RecordedNext

LEMMA ProcKeepsInv ==
  ASSUME TrustInv, NEW p \in Procs, ProcStep(p)
  PROVE  TrustInv'
<1> USE DEF TrustInv
<1>1. TrustTypes' /\ LockHeld' /\ Kept'
  BY TrustTypesStep, LockHeldStep, KeptStep
<1>2. \A q \in Procs : Knows(q)'
  BY OthersKnow, OwnKnowledge
<1>3. ToldAll'
  <2> SUFFICES ASSUME NEW q \in Procs, where'[q] = "given", result'[q].revs # Unknown
               PROVE  before'[q] \subseteq result'[q].revs
    BY DEF ToldAll
  <2>1. CASE q = p
    BY <2>1, GivenSteps
  <2>2. CASE q # p
    BY <2>2, OwnBooks DEF ToldAll
  <2> QED
    BY <2>1, <2>2
<1>4. TornOnlyInAWrite'
  <2> SUFFICES ASSUME list' # sig', ~hurt' PROVE \E q \in Procs : where'[q] = "putList"
    BY DEF TornOnlyInAWrite
  <2>1. ~hurt
    BY FileSteps
  <2>2. CASE list' = list /\ sig' = sig
    <3>1. PICK q \in Procs : where[q] = "putList"
      BY <2>1, <2>2 DEF TornOnlyInAWrite
    <3>2. CASE q = p
      <4>1. list' = fetched[p] /\ sig = fetched[p]
        BY <2>1, <3>1, <3>2, FileSteps DEF Knows
      <4> QED
        BY <2>2, <4>1
    <3>3. CASE q # p
      BY <3>1, <3>3, OwnBooks
    <3> QED
      BY <3>2, <3>3
  <2>3. CASE list' # list
    <3>1. where[p] = "putList" /\ list' = fetched[p] /\ sig' = sig
      BY <2>3, FileSteps
    <3> QED
      BY <2>1, <3>1 DEF Knows
  <2>4. CASE sig' # sig
    BY <2>4, FileSteps
  <2> QED
    BY <2>2, <2>3, <2>4
<1> QED
  BY <1>1, <1>2, <1>3, <1>4

\* The operator and the disk.
LEMMA DiskKeepsInv ==
  ASSUME TrustInv, ClearLock \/ Damage
  PROVE  TrustInv'
<1> USE TrustAssumption DEF TrustInv
<1>a. UNCHANGED locals /\ announced' = announced /\ (record' = record \/ record' = Damaged)
  BY DEF ClearLock, Damage
<1>1. TrustTypes'
  <2>1. CASE ClearLock
    BY <2>1 DEF ClearLock, TrustTypes, locals
  <2>2. CASE Damage
    <3>1. list' \in Lists /\ sig' \in Lists /\ record' \in {Missing, Damaged} \cup SUBSET Keys /\ hurt' \in BOOLEAN /\ lock' = lock
      BY <2>2 DEF Damage, TrustTypes, Lists
    <3> QED
      BY <1>a, <3>1 DEF TrustTypes, locals
  <2> QED
    BY <2>1, <2>2
<1>2. LockHeld'
  BY DEF ClearLock, Damage, LockHeld, locals
<1>3. \A S : Recorded(S) => RecordedNext(S)
  <2> SUFFICES ASSUME NEW S, Recorded(S) PROVE RecordedNext(S)
    OBVIOUS
  <2>1. record' # Damaged => OnDisk' = OnDisk
    BY <1>a DEF OnDisk, Readable
  <2> QED
    BY <1>a, <2>1 DEF Recorded, RecordedNext, locals
<1>4. Kept'
  <2>1. Recorded(announced)'
    BY <1>a, <1>3 DEF Kept, Recorded, RecordedNext
  <2>2. list' = list \/ list' \notin Docs
    BY DEF ClearLock, Damage
  <2>3. list' \in Docs => RecordedNext(RevokedIn[list'])
    BY <1>3, <2>2 DEF Kept
  <2>4. ASSUME NEW q \in Procs
        PROVE  /\ RecordedNext(before'[q])
               /\ seen'[q].rev \in SUBSET Keys => RecordedNext(seen'[q].rev)
               /\ seen'[q].list \in Docs => RecordedNext(RevokedIn[seen'[q].list])
    BY <1>a, <1>3 DEF Kept, locals
  <2> QED
    BY <2>1, <2>3, <2>4 DEF Kept, Recorded, RecordedNext
<1>5. ToldAll' /\ TornOnlyInAWrite'
  BY <1>a DEF ToldAll, TornOnlyInAWrite, ClearLock, Damage, locals
<1>6. ASSUME NEW q \in Procs PROVE Knows(q)'
  <2>1. OnDisk' \subseteq OnDisk
    BY <1>a DEF OnDisk, Readable
  <2>2. hurt' \/ sig' = sig
    BY DEF ClearLock, Damage
  <2>3. hurt => hurt'
    BY DEF ClearLock, Damage
  <2>4. where'[q] = where[q] /\ seen'[q] = seen[q] /\ fetched'[q] = fetched[q] /\ union'[q] = union[q] /\ before'[q] = before[q]
    BY <1>a DEF locals
  <2> QED
    BY <1>a, <2>1, <2>2, <2>3, <2>4 DEF Knows
<1> QED
  BY <1>1, <1>2, <1>4, <1>5, <1>6

LEMMA TrustInitInv == TrustInit => TrustInv
<1> SUFFICES ASSUME TrustInit PROVE TrustInv
  OBVIOUS
<1> USE TrustAssumption DEF TrustInit
<1>1. NoTrust \in Trusts /\ Fresh \in Views /\ Fresh.rev \notin SUBSET Keys /\ Fresh.list \notin Docs
  BY DEF NoTrust, Trusts, Fresh, Views, Lists, Records
<1>2. TrustTypes
  BY <1>1 DEF TrustTypes, TrustWays, Doings, Lists
<1>3. Kept
  BY <1>1 DEF Kept, Recorded
<1>4. LockHeld /\ ToldAll /\ TornOnlyInAWrite
  BY DEF LockHeld, Locked, ToldAll, TornOnlyInAWrite
<1>5. \A p \in Procs : Knows(p)
  BY DEF Knows, HasRead, HasList, Locked
<1> QED
  BY <1>2, <1>3, <1>4, <1>5 DEF TrustInv

LEMMA TrustStepInv == TrustInv /\ [TrustNext]_trustVars => TrustInv' /\ (Readable => record' = Damaged \/ record \subseteq record')
<1> SUFFICES ASSUME TrustInv, [TrustNext]_trustVars
             PROVE  TrustInv' /\ (Readable => record' = Damaged \/ record \subseteq record')
  OBVIOUS
<1>1. CASE \E p \in Procs : ProcStep(p)
  <2>1. PICK p \in Procs : ProcStep(p)
    BY <1>1
  <2>2. TrustInv'
    BY <2>1, ProcKeepsInv
  <2>3. record' = record \/ (where[p] = "putRecord" /\ record' = union[p])
    BY <2>1, RecordSteps DEF TrustInv
  <2>4. where[p] = "putRecord" => OnDisk \subseteq union[p]
    BY DEF TrustInv, Knows
  <2> QED
    BY <2>2, <2>3, <2>4 DEF OnDisk
<1>2. CASE ClearLock \/ Damage
  BY <1>2, DiskKeepsInv DEF ClearLock, Damage
<1>3. CASE UNCHANGED trustVars
  BY <1>3 DEF trustVars, files, locals, TrustInv, TrustTypes, LockHeld, Kept, Recorded, OnDisk, Readable, ToldAll, TornOnlyInAWrite, Knows
<1> QED
  BY <1>1, <1>2, <1>3 DEF TrustNext, ProcStep, Begins

LEMMA TrustInvImplies ==
  TrustInv => /\ TrustTypeOK /\ OneWriter /\ RecordedBeforeListed /\ AnnouncedIsRecorded /\ ToldAll
              /\ RevokedNotAccepted /\ TornOnlyInAWrite
<1> SUFFICES ASSUME TrustInv
             PROVE  /\ TrustTypeOK /\ OneWriter /\ RecordedBeforeListed /\ AnnouncedIsRecorded /\ ToldAll
                    /\ RevokedNotAccepted /\ TornOnlyInAWrite
  OBVIOUS
<1> USE TrustAssumption
<1>1. TrustTypeOK
  BY DEF TrustInv, TrustTypes, LockHeld, TrustTypeOK, IsRecord, Records, Views, Trusts
<1>2. OneWriter
  <2> DEFINE W == {p \in Procs : where[p] \in {"merge", "putRecord", "putSig", "putList"}}
  <2>1. \A p, q \in W : p = q
    BY DEF TrustInv, LockHeld, Locked
  <2>2. CASE W = {}
    <3>1. Cardinality({}) = 0
      BY FS_EmptySet
    <3> HIDE DEF W
    <3>2. Cardinality(W) <= 1
      BY <2>2, <3>1
    <3> QED
      BY <3>2 DEF OneWriter, W
  <2>3. CASE W # {}
    <3>1. PICK p \in W : TRUE
      BY <2>3
    <3>2. W = {p}
      BY <2>1, <3>1
    <3>3. Cardinality({p}) = 1
      BY FS_Singleton
    <3> HIDE DEF W
    <3>4. Cardinality(W) <= 1
      BY <3>2, <3>3
    <3> QED
      BY <3>4 DEF OneWriter, W
  <2> QED
    BY <2>2, <2>3
<1>3. RecordedBeforeListed /\ AnnouncedIsRecorded
  BY DEF TrustInv, Kept, Recorded, RecordedBeforeListed, AnnouncedIsRecorded
<1>4. RevokedNotAccepted
  BY DEF TrustInv, ToldAll, RevokedNotAccepted, Merge
<1> QED
  BY <1>1, <1>2, <1>3, <1>4 DEF TrustInv

(* The trust list is safe, for any processes, lists, keys and serials, with    *)
(* renames and unlocks that fail, processes that die between two of them, and  *)
(* one file lost or damaged: one process writes at a time, a list comes after  *)
(* its revocations, a revocation once recorded or told to a caller is never    *)
(* forgotten, and no mount accepts a key revoked before it looked.             *)
THEOREM TrustIsSafe == TrustSpec => TrustSafe
<1>1. TrustInit => TrustInv
  BY TrustInitInv
<1>2. TrustInv /\ [TrustNext]_trustVars => TrustInv'
  BY TrustStepInv
<1>3. TrustInv => /\ TrustTypeOK /\ OneWriter /\ RecordedBeforeListed /\ AnnouncedIsRecorded /\ ToldAll
                  /\ RevokedNotAccepted /\ TornOnlyInAWrite
  BY TrustInvImplies
<1>4. TrustInv /\ [TrustNext]_trustVars => [Readable => record' = Damaged \/ record \subseteq record']_trustVars
  BY TrustStepInv
<1> QED
  BY <1>1, <1>2, <1>3, <1>4, PTL DEF TrustSpec, TrustSafe, NeverForgotten

-----------------------------------------------------------------------------
(* The session rows. A save is of a copy, and a copy that was overtaken makes *)
(* the session stale; for the others the row, the tasks and the state filed   *)
(* for them agree.                                                            *)

Requesters == Clients \cup {Tui}
ReqAt == {"none", "patch", "submit", "delete", "add", "clean"}
Reqs == [at : ReqAt, s : Sessions \cup {NoRow}, copy : Rows \cup {NoRow}, to : Rows \cup {NoRow}]
Turns == [at : {"rest", "read", "append", "touch"}, half : 0..2, seq : 0..MaxTurns]

RowTypes ==
  /\ row \in [Sessions -> Rows \cup {NoRow}] /\ acked \in [Sessions -> Rows \cup {NoRow}]
  /\ issued \subseteq Sessions /\ stale \subseteq Sessions
  /\ events \in [Sessions -> 0..MaxTurns] /\ filed \in [Sessions -> SUBSET Bases]
  /\ req \in [Requesters -> Reqs] /\ jobs \subseteq Sessions \X Bases
  /\ current \in Sessions \cup {NoRow} /\ turn \in Turns
  /\ cached \in [Sessions -> -1..MaxTurns] /\ recorded \in [Sessions -> Nat]

\* A request under way is about a session that was there, and its copy a row.
Loaded == \A c \in Requesters : req[c].at # "none" =>
  /\ req[c].s \in issued /\ req[c].copy \in Rows
  /\ req[c].at = "patch" => req[c].to \in Rows

\* Of a session whose id was not given out there is nothing yet.
Blank ==
  /\ \A s \in Sessions \ issued : row[s] = NoRow /\ filed[s] = {}
  /\ \A j \in jobs : j[1] \in issued
  /\ current # NoRow => current \in issued
  /\ turn.at # "rest" => current # NoRow

\* A directory that is, or was before one was set, the session's.
Placed(s, d) == s \in stale \/ row[s] = NoRow \/ d \in {Root, row[s].dir}
AllPlaced ==
  /\ \A s \in Sessions : \A d \in filed[s] : Placed(s, d)
  /\ \A j \in jobs : Placed(j[1], j[2])
  /\ \A c \in Requesters : req[c].at = "add" => Placed(req[c].s, req[c].copy.dir)

\* What was recorded is in the log, and what is being recorded will be.
InLog ==
  /\ \A s \in Sessions \ stale : recorded[s] <= events[s]
  /\ turn.at = "touch" /\ current \notin stale /\ row[current] # NoRow => turn.seq < events[current]

RowsInv == RowTypes /\ Loaded /\ Blank /\ AnsweredStands /\ AllPlaced /\ InLog /\ Remembered

LEMMA NothingFound ==
  ASSUME NEW c, NEW s, NotFound(c, s) PROVE UNCHANGED sessionVars
  BY DEF NotFound

\* The steps, by what they are about.
Creates(s) == handleCreateSession(s) \/ NewSession(s)
Gets(c) == \E s \in Sessions :
  (\E r \in Rows : GetAgentSession(c, s, "patch", r)) \/ \E op \in {"submit", "delete"} : GetAgentSession(c, s, op, NoRow)
Saves(c) == SavePatch(c) \/ touchSessionOnSubmit(c)
Deletes(c) == DeleteAgentSession(c) \/ RemoveAll(c)
Exchanges == RecentTurns \/ ReadFrom \/ appendTurnEvent \/ touchCurrentSession

LEMMA RowCases ==
  ASSUME [SessionsNext]_sessionVars
  PROVE  \/ UNCHANGED sessionVars
         \/ \E s \in Sessions : Creates(s) \/ SwitchSession(s)
         \/ \E c \in Requesters : Gets(c) \/ Saves(c) \/ AddTask(c) \/ Deletes(c)
         \/ \E j \in jobs : RunJob(j)
         \/ Exchanges
  BY NothingFound DEF SessionsNext, Creates, Gets, Saves, Deletes, Exchanges, Requesters

LEMMA RowTypesStep == RowsInv /\ [SessionsNext]_sessionVars => RowTypes'
<1> SUFFICES ASSUME RowsInv, [SessionsNext]_sessionVars PROVE RowTypes'
  OBVIOUS
<1> USE SessionsAssumption DEF RowsInv, rowVars, tuiVars
<1>1. CASE UNCHANGED sessionVars
  BY <1>1 DEF sessionVars, RowTypes
<1>2. ASSUME NEW s \in Sessions, Creates(s) \/ SwitchSession(s) PROVE RowTypes'
  <2>1. row' \in [Sessions -> Rows \cup {NoRow}] /\ acked' \in [Sessions -> Rows \cup {NoRow}] /\ issued' \subseteq Sessions
    BY <1>2 DEF Creates, handleCreateSession, NewSession, SwitchSession, SaveNew, RowTypes, Rows, Bases
  <2>2. cached' \in [Sessions -> -1..MaxTurns] /\ current' \in Sessions \cup {NoRow}
    BY <1>2 DEF Creates, handleCreateSession, NewSession, SwitchSession, InvalidateSession, RowTypes
  <2> QED
    BY <1>2, <2>1, <2>2 DEF Creates, handleCreateSession, NewSession, SwitchSession, SaveNew, RowTypes
<1>3. ASSUME NEW c \in Requesters, Gets(c) PROVE RowTypes'
  <2>1. req' \in [Requesters -> Reqs]
    BY <1>3 DEF Gets, GetAgentSession, RowTypes, Reqs, ReqAt
  <2> QED
    BY <1>3, <2>1 DEF Gets, GetAgentSession, RowTypes
<1>4. ASSUME NEW c \in Requesters, Saves(c) PROVE RowTypes'
  <2>1. /\ req[c].s \in Sessions /\ req[c].copy \in Rows /\ req[c].at # "none" /\ (req[c].at = "patch" => req[c].to \in Rows)
    BY <1>4 DEF Saves, SavePatch, touchSessionOnSubmit, Loaded, RowTypes
  <2>2. req' \in [Requesters -> Reqs]
    BY <1>4 DEF Saves, SavePatch, touchSessionOnSubmit, Answer, Step, RowTypes, Reqs, ReqAt, NoReq
  <2>3. row' \in [Sessions -> Rows \cup {NoRow}] /\ acked' \in [Sessions -> Rows \cup {NoRow}]
    BY <1>4, <2>1 DEF Saves, SavePatch, touchSessionOnSubmit, SaveAgentSession, RowTypes
  <2>4. stale' \subseteq Sessions /\ issued' = issued
    BY <1>4, <2>1 DEF Saves, SavePatch, touchSessionOnSubmit, SaveAgentSession, RowTypes
  <2>5. cached' \in [Sessions -> -1..MaxTurns] /\ UNCHANGED <<events, filed, jobs, current, turn, recorded>>
    BY <1>4 DEF Saves, SavePatch, touchSessionOnSubmit, InvalidateSession, RowTypes
  <2> QED
    BY <2>2, <2>3, <2>4, <2>5 DEF RowTypes
<1>5. ASSUME NEW c \in Requesters, AddTask(c) PROVE RowTypes'
  <2>1. req[c].s \in Sessions /\ req[c].copy \in Rows
    BY <1>5 DEF AddTask, Loaded, RowTypes
  <2>2. req' \in [Requesters -> Reqs]
    BY <1>5 DEF AddTask, Answer, RowTypes, Reqs, ReqAt, NoReq
  <2>3. jobs' \subseteq Sessions \X Bases
    BY <1>5, <2>1 DEF AddTask, RowTypes, Rows
  <2> QED
    BY <1>5, <2>2, <2>3 DEF AddTask, RowTypes
<1>6. ASSUME NEW c \in Requesters, Deletes(c) PROVE RowTypes'
  <2>1. req[c].s \in Sessions
    BY <1>6 DEF Deletes, DeleteAgentSession, RemoveAll, Loaded, RowTypes
  <2>2. req' \in [Requesters -> Reqs]
    BY <1>6 DEF Deletes, DeleteAgentSession, RemoveAll, Answer, Step, RowTypes, Reqs, ReqAt, NoReq
  <2>3. row' \in [Sessions -> Rows \cup {NoRow}] /\ acked' \in [Sessions -> Rows \cup {NoRow}]
    BY <1>6 DEF Deletes, DeleteAgentSession, RemoveAll, RowTypes
  <2>4. events' \in [Sessions -> 0..MaxTurns] /\ recorded' \in [Sessions -> Nat] /\ filed' \in [Sessions -> SUBSET Bases]
    BY <1>6 DEF Deletes, DeleteAgentSession, RemoveAll, RowTypes
  <2> QED
    BY <1>6, <2>2, <2>3, <2>4 DEF Deletes, DeleteAgentSession, RemoveAll, RowTypes
<1>7. ASSUME NEW j \in jobs, RunJob(j) PROVE RowTypes'
  <2>1. j[1] \in Sessions /\ j[2] \in Bases
    BY DEF RowTypes
  <2>2. filed' \in [Sessions -> SUBSET Bases] /\ jobs' \subseteq Sessions \X Bases /\ events' \in [Sessions -> 0..MaxTurns]
    BY <1>7, <2>1 DEF RunJob, RowTypes
  <2> QED
    BY <1>7, <2>2 DEF RunJob, RowTypes
<1>8. CASE Exchanges
  <2>1. turn' \in Turns
    <3> USE DEF RowTypes, Turns, AtRest
    <3>1. CASE RecentTurns
      BY <3>1 DEF RecentTurns
    <3>2. CASE ReadFrom
      <4>1. events[current] \in 0..MaxTurns
        BY <3>2 DEF ReadFrom, Blank
      <4>2. CASE turn' = [at |-> "rest", half |-> 0, seq |-> 0]
        BY <4>2
      <4>3. CASE turn' = [turn EXCEPT !.at = "append", !.seq = events[current]]
        <5>1. turn' = [at |-> "append", half |-> turn.half, seq |-> events[current]]
          BY <4>3
        <5> QED
          BY <4>1, <5>1
      <4> QED
        BY <3>2, <4>2, <4>3 DEF ReadFrom
    <3>3. CASE appendTurnEvent
      BY <3>3 DEF appendTurnEvent
    <3>4. CASE touchCurrentSession
      <4>1. CASE turn' = [at |-> "rest", half |-> 0, seq |-> 0]
        BY <4>1
      <4>2. CASE turn' = [turn EXCEPT !.at = "read", !.half = 2]
        <5>1. turn' = [at |-> "read", half |-> 2, seq |-> turn.seq]
          BY <4>2
        <5> QED
          BY <5>1
      <4> QED
        BY <3>4, <4>1, <4>2 DEF touchCurrentSession
    <3> QED
      BY <1>8, <3>1, <3>2, <3>3, <3>4 DEF Exchanges
  <2>2. cached' \in [Sessions -> -1..MaxTurns]
    BY <1>8 DEF Exchanges, RecentTurns, ReadFrom, appendTurnEvent, touchCurrentSession, RowTypes, Dropped, InvalidateSession, Blank
  <2>3. events' \in [Sessions -> 0..MaxTurns] /\ recorded' \in [Sessions -> Nat]
    BY <1>8 DEF Exchanges, RecentTurns, ReadFrom, appendTurnEvent, touchCurrentSession, RowTypes, Turns, Blank
  <2>4. UNCHANGED <<rowVars, filed, req, jobs, current>>
    BY <1>8 DEF Exchanges, RecentTurns, ReadFrom, appendTurnEvent, touchCurrentSession, TouchAgentSession
  <2> QED
    BY <2>1, <2>2, <2>3, <2>4 DEF RowTypes
<1> QED
  BY <1>1, <1>2, <1>3, <1>4, <1>5, <1>6, <1>7, <1>8, RowCases

\* How a row changes: it is new, it goes, it is saved from an outdated copy, or
\* it keeps a working directory that was set.
RowMoves(s) ==
  /\ stale \subseteq stale' /\ issued \subseteq issued'
  /\ \/ row'[s] = row[s]
     \/ s \notin issued /\ s \in issued'
     \/ s \in stale'
     \/ row'[s] = NoRow
     \/ row[s] # NoRow /\ row'[s] # NoRow /\ (row[s].dir # Root => row'[s].dir = row[s].dir)

LEMMA RowSteps ==
  ASSUME RowsInv, [SessionsNext]_sessionVars, NEW s \in Sessions
  PROVE  RowMoves(s)
<1> USE SessionsAssumption DEF RowsInv, rowVars, tuiVars, RowTypes, RowMoves
<1>1. CASE UNCHANGED sessionVars
  BY <1>1 DEF sessionVars
<1>2. ASSUME NEW x \in Sessions, Creates(x) \/ SwitchSession(x) PROVE RowMoves(s)
  BY <1>2 DEF Creates, handleCreateSession, NewSession, SwitchSession, SaveNew, NewId
<1>3. ASSUME NEW c \in Requesters, Gets(c) \/ AddTask(c) PROVE RowMoves(s)
  BY <1>3 DEF Gets, GetAgentSession, AddTask
<1>4. ASSUME NEW c \in Requesters, Saves(c) PROVE RowMoves(s)
  <2>1. req[c].s \in Sessions /\ req[c].copy \in Rows /\ req[c].copy # NoRow /\ (req[c].at = "patch" => req[c].to \in Rows /\ req[c].to # NoRow)
    BY <1>4 DEF Saves, SavePatch, touchSessionOnSubmit, Loaded, Rows, Bases
  <2>2. CASE SavePatch(c)
    BY <2>1, <2>2 DEF SavePatch, SaveAgentSession, mayMove
  <2>3. CASE touchSessionOnSubmit(c)
    BY <2>1, <2>3 DEF touchSessionOnSubmit, SaveAgentSession
  <2> QED
    BY <1>4, <2>2, <2>3 DEF Saves
<1>5. ASSUME NEW c \in Requesters, Deletes(c) PROVE RowMoves(s)
  BY <1>5 DEF Deletes, DeleteAgentSession, RemoveAll
<1>6. ASSUME NEW j \in jobs, RunJob(j) PROVE RowMoves(s)
  BY <1>6 DEF RunJob
<1>7. CASE Exchanges
  BY <1>7 DEF Exchanges, RecentTurns, ReadFrom, appendTurnEvent, touchCurrentSession, TouchAgentSession
<1> QED
  BY <1>1, <1>2, <1>3, <1>4, <1>5, <1>6, <1>7, RowCases

LEMMA LoadedStep == RowsInv /\ [SessionsNext]_sessionVars => Loaded'
<1> SUFFICES ASSUME RowsInv, [SessionsNext]_sessionVars PROVE Loaded'
  OBVIOUS
<1> USE SessionsAssumption DEF RowsInv, rowVars, tuiVars, RowTypes, Loaded
<1>0. \A s \in Sessions : s \in issued => s \in issued'
  BY RowSteps DEF RowMoves
<1>1. CASE UNCHANGED req
  BY <1>0, <1>1
<1>2. ASSUME NEW c \in Requesters, Gets(c) PROVE Loaded'
  <2>1. PICK s \in Sessions, op \in {"patch", "submit", "delete"}, to \in Rows \cup {NoRow} :
           /\ row[s] # NoRow /\ req' = [req EXCEPT ![c] = [at |-> op, s |-> s, copy |-> row[s], to |-> to]]
           /\ op = "patch" => to \in Rows
    BY <1>2 DEF Gets, GetAgentSession
  <2>2. s \in issued
    BY <2>1 DEF Blank
  <2> QED
    BY <1>0, <2>1, <2>2
<1>3. ASSUME NEW c \in Requesters, NEW n \in ReqAt \ {"patch"},
             req' = [req EXCEPT ![c] = NoReq] \/ (req[c].at # "none" /\ req' = [req EXCEPT ![c].at = n])
      PROVE Loaded'
  BY <1>0, <1>3 DEF NoReq, Reqs
<1>4. ASSUME NEW c \in Requesters, Saves(c) \/ AddTask(c) \/ Deletes(c) PROVE Loaded'
  <2>1. CASE SavePatch(c) \/ AddTask(c) \/ RemoveAll(c)
    <3>1. req' = [req EXCEPT ![c] = NoReq]
      BY <2>1 DEF SavePatch, AddTask, RemoveAll, Answer
    <3>2. "none" \in ReqAt \ {"patch"}
      BY DEF ReqAt
    <3> QED
      BY <1>3, <3>1, <3>2
  <2>2. CASE touchSessionOnSubmit(c)
    <3>1. req[c].at # "none" /\ req' = [req EXCEPT ![c].at = "add"]
      BY <2>2 DEF touchSessionOnSubmit, Step
    <3>2. "add" \in ReqAt \ {"patch"}
      BY DEF ReqAt
    <3> QED
      BY <1>3, <3>1, <3>2
  <2>3. CASE DeleteAgentSession(c)
    <3>1. req[c].at # "none" /\ (req' = [req EXCEPT ![c] = NoReq] \/ req' = [req EXCEPT ![c].at = "clean"])
      BY <2>3 DEF DeleteAgentSession, Step, Answer
    <3>2. "clean" \in ReqAt \ {"patch"}
      BY DEF ReqAt
    <3> QED
      BY <1>3, <3>1, <3>2
  <2> QED
    BY <1>4, <2>1, <2>2, <2>3 DEF Saves, Deletes
<1>5. (\E s \in Sessions : Creates(s) \/ SwitchSession(s)) \/ (\E j \in jobs : RunJob(j)) \/ Exchanges => UNCHANGED req
  BY DEF Creates, handleCreateSession, NewSession, SwitchSession, RunJob, Exchanges, RecentTurns, ReadFrom, appendTurnEvent, touchCurrentSession
<1> QED
  BY <1>1, <1>2, <1>4, <1>5, RowCases DEF sessionVars

LEMMA BlankStep == RowsInv /\ [SessionsNext]_sessionVars => Blank'
<1> SUFFICES ASSUME RowsInv, [SessionsNext]_sessionVars PROVE Blank'
  OBVIOUS
<1> USE SessionsAssumption DEF RowsInv, rowVars, tuiVars, RowTypes, Blank
<1>1. CASE UNCHANGED sessionVars
  BY <1>1 DEF sessionVars
<1>2. ASSUME NEW s \in Sessions, Creates(s) \/ SwitchSession(s) PROVE Blank'
  BY <1>2 DEF Creates, handleCreateSession, NewSession, SwitchSession, SaveNew, AtPrompt
<1>3. ASSUME NEW c \in Requesters, Gets(c) PROVE Blank'
  BY <1>3 DEF Gets, GetAgentSession
<1>4. ASSUME NEW c \in Requesters, Saves(c) \/ AddTask(c) \/ Deletes(c) PROVE Blank'
  <2>1. req[c].s \in issued
    BY <1>4 DEF Saves, SavePatch, touchSessionOnSubmit, AddTask, Deletes, DeleteAgentSession, RemoveAll, Loaded
  <2>2. \A s \in Sessions \ issued : row'[s] = NoRow /\ filed'[s] = {}
    BY <1>4, <2>1 DEF Saves, SavePatch, touchSessionOnSubmit, AddTask, Deletes, DeleteAgentSession, RemoveAll, SaveAgentSession
  <2>3. \A j \in jobs' : j[1] \in issued
    BY <1>4, <2>1 DEF Saves, SavePatch, touchSessionOnSubmit, AddTask, Deletes, DeleteAgentSession, RemoveAll, SaveAgentSession
  <2>4. UNCHANGED <<issued, current, turn>>
    BY <1>4 DEF Saves, SavePatch, touchSessionOnSubmit, AddTask, Deletes, DeleteAgentSession, RemoveAll, SaveAgentSession
  <2> QED
    BY <2>2, <2>3, <2>4
<1>5. ASSUME NEW j \in jobs, RunJob(j) PROVE Blank'
  <2>1. j[1] \in issued
    OBVIOUS
  <2>2. \A s \in Sessions \ issued : filed'[s] = {}
    BY <1>5, <2>1 DEF RunJob
  <2> QED
    BY <1>5, <2>2 DEF RunJob
<1>6. CASE Exchanges
  BY <1>6 DEF Exchanges, RecentTurns, ReadFrom, appendTurnEvent, touchCurrentSession, TouchAgentSession, AtRest
<1> QED
  BY <1>1, <1>2, <1>3, <1>4, <1>5, <1>6, RowCases

LEMMA AnsweredStep == RowsInv /\ [SessionsNext]_sessionVars => AnsweredStands'
<1> SUFFICES ASSUME RowsInv, [SessionsNext]_sessionVars, NEW s \in Sessions \ stale' PROVE row'[s] = acked'[s]
  BY DEF AnsweredStands
<1> USE DEF RowsInv, rowVars, tuiVars, RowTypes
<1>0. stale \subseteq stale' /\ row[s] = acked[s]
  BY RowSteps DEF RowMoves, AnsweredStands
<1>1. CASE UNCHANGED <<row, acked>>
  BY <1>0, <1>1
<1>2. ASSUME NEW x \in Sessions, Creates(x) PROVE row'[s] = acked'[s]
  BY <1>0, <1>2 DEF Creates, handleCreateSession, NewSession, SaveNew
<1>3. ASSUME NEW c \in Requesters, Saves(c) PROVE row'[s] = acked'[s]
  <2>1. req[c].s \in Sessions
    BY <1>3 DEF Saves, SavePatch, touchSessionOnSubmit, Loaded
  <2> QED
    BY <1>0, <1>3, <2>1 DEF Saves, SavePatch, touchSessionOnSubmit, SaveAgentSession
<1>4. ASSUME NEW c \in Requesters, Deletes(c) PROVE row'[s] = acked'[s]
  BY <1>0, <1>4 DEF Deletes, DeleteAgentSession, RemoveAll
<1>5. UNCHANGED sessionVars \/ (\E x \in Sessions : SwitchSession(x)) \/ (\E c \in Requesters : Gets(c) \/ AddTask(c))
      \/ (\E j \in jobs : RunJob(j)) \/ Exchanges => UNCHANGED <<row, acked>>
  BY DEF sessionVars, SwitchSession, Gets, GetAgentSession, AddTask, RunJob, Exchanges, RecentTurns, ReadFrom, appendTurnEvent,
     touchCurrentSession, TouchAgentSession
<1> QED
  BY <1>1, <1>2, <1>3, <1>4, <1>5, RowCases

\* Where something is filed, or will be, stays one of the session's places.
LEMMA PlacedStays ==
  ASSUME RowsInv, [SessionsNext]_sessionVars, NEW s \in issued, NEW d, Placed(s, d)
  PROVE  s \in stale' \/ row'[s] = NoRow \/ d \in {Root, row'[s].dir}
  BY RowSteps DEF RowsInv, RowTypes, Placed, RowMoves

LEMMA AllPlacedStep == RowsInv /\ [SessionsNext]_sessionVars => AllPlaced'
<1> SUFFICES ASSUME RowsInv, [SessionsNext]_sessionVars PROVE AllPlaced'
  OBVIOUS
<1> USE SessionsAssumption DEF RowsInv, RowTypes
<1> DEFINE Next(s, d) == s \in stale' \/ row'[s] = NoRow \/ d \in {Root, row'[s].dir}
<1>a. \A s \in issued : \A d : Placed(s, d) => Next(s, d)
  BY PlacedStays
<1>b. \A s \in Sessions : \A d \in filed[s] : s \in issued /\ Placed(s, d)
  BY DEF Blank, AllPlaced
<1>c. \A j \in jobs : j[1] \in issued /\ Placed(j[1], j[2])
  BY DEF Blank, AllPlaced
<1>d. \A c \in Requesters : req[c].at = "add" => req[c].s \in issued /\ Placed(req[c].s, req[c].copy.dir)
  BY DEF Loaded, AllPlaced
<1> HIDE DEF Next
<1>1. ASSUME NEW s \in Sessions, NEW d \in filed'[s] PROVE Next(s, d)
  <2>1. CASE d \in filed[s]
    BY <1>a, <1>b, <2>1
  <2>2. CASE d \notin filed[s]
    <3>1. PICK j \in jobs : RunJob(j)
      BY <1>1, <2>2, RowCases DEF sessionVars, Creates, handleCreateSession, NewSession, SwitchSession, Gets, GetAgentSession,
         Saves, SavePatch, touchSessionOnSubmit, AddTask, Deletes, DeleteAgentSession, RemoveAll, Exchanges, RecentTurns, ReadFrom,
         appendTurnEvent, touchCurrentSession
    <3>2. s = j[1] /\ d = j[2]
      BY <1>1, <2>2, <3>1 DEF RunJob
    <3> QED
      BY <1>a, <1>c, <3>2
  <2> QED
    BY <2>1, <2>2
<1>2. ASSUME NEW j \in jobs' PROVE Next(j[1], j[2])
  <2>1. CASE j \in jobs
    BY <1>a, <1>c, <2>1
  <2>2. CASE j \notin jobs
    <3>1. PICK c \in Requesters : AddTask(c)
      BY <1>2, <2>2, RowCases DEF sessionVars, Creates, handleCreateSession, NewSession, SwitchSession, Gets, GetAgentSession,
         Saves, SavePatch, touchSessionOnSubmit, RunJob, Deletes, DeleteAgentSession, RemoveAll, Exchanges, RecentTurns, ReadFrom,
         appendTurnEvent, touchCurrentSession
    <3>2. j = <<req[c].s, req[c].copy.dir>> /\ req[c].at = "add"
      BY <1>2, <2>2, <3>1 DEF AddTask
    <3> QED
      BY <1>a, <1>d, <3>2
  <2> QED
    BY <2>1, <2>2
<1>3. ASSUME NEW c \in Requesters, req'[c].at = "add" PROVE Next(req'[c].s, req'[c].copy.dir)
  <2>1. CASE req'[c] = req[c]
    BY <1>a, <1>d, <1>3, <2>1
  <2>2. CASE req'[c] # req[c]
    <3>1. touchSessionOnSubmit(c)
      BY <1>3, <2>2, RowCases DEF sessionVars, Creates, handleCreateSession, NewSession, SwitchSession, Gets, GetAgentSession,
         Saves, SavePatch, AddTask, RunJob, Deletes, DeleteAgentSession, RemoveAll, Exchanges, RecentTurns, ReadFrom,
         appendTurnEvent, touchCurrentSession, Step, Answer, NoReq, Reqs, ReqAt, touchSessionOnSubmit
    <3>2. req'[c].s = req[c].s /\ req'[c].copy = req[c].copy /\ req[c].s \in Sessions
      BY <3>1 DEF touchSessionOnSubmit, Step, Reqs, Loaded
    <3>3. row'[req[c].s] = req[c].copy
      BY <3>1, <3>2 DEF touchSessionOnSubmit, SaveAgentSession
    <3> QED
      BY <3>2, <3>3 DEF Next
  <2> QED
    BY <2>1, <2>2
<1> QED
  BY <1>1, <1>2, <1>3 DEF AllPlaced, Placed, Next

LEMMA TurnFields ==
  ASSUME NEW t \in Turns, NEW n, NEW u
  PROVE  /\ u = [t EXCEPT !.at = "append", !.seq = n] => u = [at |-> "append", half |-> t.half, seq |-> n]
         /\ u = [t EXCEPT !.at = "read", !.half = 2] => u = [at |-> "read", half |-> 2, seq |-> t.seq]
<1>1. ASSUME u = [t EXCEPT !.at = "append", !.seq = n] PROVE u = [at |-> "append", half |-> t.half, seq |-> n]
  BY <1>1 DEF Turns
<1>2. ASSUME u = [t EXCEPT !.at = "read", !.half = 2] PROVE u = [at |-> "read", half |-> 2, seq |-> t.seq]
  BY <1>2 DEF Turns
<1> QED
  BY <1>1, <1>2

LEMMA InLogStep == RowsInv /\ [SessionsNext]_sessionVars => InLog'
<1> SUFFICES ASSUME RowsInv, [SessionsNext]_sessionVars PROVE InLog'
  OBVIOUS
<1> USE SessionsAssumption DEF RowsInv, rowVars, tuiVars, RowTypes
<1>a. stale \subseteq stale'
  <2>1. CASE Sessions = {}
    BY <2>1, RowTypesStep
  <2>2. CASE Sessions # {}
    BY <2>2, RowSteps DEF RowMoves
  <2> QED
    BY <2>1, <2>2
<1>b. \A s \in issued : row[s] = NoRow => row'[s] = NoRow \/ s \in stale'
  BY RowSteps DEF RowMoves
<1>c. turn.at # "rest" => current \in issued /\ current \in Sessions
  BY DEF Blank
\* Nothing but a deletion takes events away, and it forgets what was recorded.
<1>1. ASSUME UNCHANGED <<current, recorded, turn>>, \A s \in Sessions : events'[s] >= events[s] PROVE InLog'
  <2>1. \A s \in Sessions \ stale' : recorded'[s] <= events'[s]
    <3> SUFFICES ASSUME NEW s \in Sessions \ stale' PROVE recorded'[s] <= events'[s]
      OBVIOUS
    <3>1. s \in Sessions \ stale /\ recorded'[s] = recorded[s] /\ events'[s] >= events[s]
      BY <1>a, <1>1
    <3>2. recorded[s] <= events[s] /\ recorded[s] \in Nat /\ events[s] \in 0..MaxTurns
      BY <3>1 DEF InLog
    <3>3. events'[s] \in 0..MaxTurns
      BY RowTypesStep
    <3> QED
      BY <3>1, <3>2, <3>3
  <2>2. ASSUME turn'.at = "touch", current' \notin stale', row'[current'] # NoRow PROVE turn'.seq < events'[current']
    <3>1. turn' = turn /\ current' = current /\ turn.at = "touch" /\ current \notin stale'
      BY <1>1, <2>2
    <3>2. current \in issued /\ current \in Sessions /\ current \notin stale
      BY <1>a, <1>c, <3>1
    <3>3. row[current] # NoRow
      BY <1>b, <2>2, <3>1, <3>2
    <3>4. turn.seq < events[current] /\ turn.seq \in 0..MaxTurns /\ events[current] \in 0..MaxTurns
      BY <3>1, <3>2, <3>3 DEF InLog, Turns
    <3>5. events'[current] \in 0..MaxTurns /\ events'[current] >= events[current]
      BY <1>1, <3>2, RowTypesStep
    <3> QED
      BY <3>1, <3>4, <3>5
  <2> QED
    BY <2>1, <2>2 DEF InLog
<1>2. ASSUME NEW c \in Requesters, Deletes(c) PROVE InLog'
  <2>1. req[c].s \in Sessions
    BY <1>2 DEF Deletes, DeleteAgentSession, RemoveAll, Loaded
  <2>2. CASE UNCHANGED <<events, recorded>>
    <3>1. UNCHANGED <<current, turn>>
      BY <1>2 DEF Deletes, DeleteAgentSession, RemoveAll
    <3> QED
      BY <1>1, <2>2, <3>1
  <2>3. CASE /\ row' = [row EXCEPT ![req[c].s] = NoRow] /\ stale' = stale
             /\ events' = [events EXCEPT ![req[c].s] = 0] /\ recorded' = [recorded EXCEPT ![req[c].s] = 0]
             /\ UNCHANGED <<current, turn>>
    <3>1. \A s \in Sessions \ stale' : recorded'[s] <= events'[s]
      BY <2>1, <2>3 DEF InLog
    <3>2. turn'.at = "touch" /\ current' \notin stale' /\ row'[current'] # NoRow => turn'.seq < events'[current']
      BY <1>c, <2>1, <2>3 DEF InLog
    <3> QED
      BY <3>1, <3>2 DEF InLog
  <2> QED
    BY <1>2, <2>2, <2>3 DEF Deletes, DeleteAgentSession, RemoveAll
<1>3. ASSUME NEW j \in jobs, RunJob(j) PROVE InLog'
  <2>1. j[1] \in Sessions /\ \A s \in Sessions : events'[s] >= events[s]
    BY <1>3 DEF RunJob
  <2> QED
    BY <1>1, <1>3, <2>1 DEF RunJob
<1>4. CASE RecentTurns \/ ReadFrom
  <2>1. UNCHANGED <<events, recorded, stale>>
    BY <1>4 DEF RecentTurns, ReadFrom
  <2>2. turn' \in {[at |-> "read", half |-> 1, seq |-> 0], AtRest, [turn EXCEPT !.at = "append", !.seq = events[current]]}
    BY <1>4 DEF RecentTurns, ReadFrom
  <2>3. [turn EXCEPT !.at = "append", !.seq = events[current]] = [at |-> "append", half |-> turn.half, seq |-> events[current]]
    BY TurnFields
  <2>4. turn'.at # "touch"
    BY <2>2, <2>3 DEF AtRest
  <2> QED
    BY <2>1, <2>4 DEF InLog
<1>5. CASE appendTurnEvent
  <2>1. CASE events[current] = turn.seq /\ events' = [events EXCEPT ![current] = @ + 1] /\ turn' = [turn EXCEPT !.at = "touch"]
    <3>1. current \in Sessions /\ current' = current /\ recorded' = recorded /\ stale' = stale
      BY <1>c, <1>5 DEF appendTurnEvent
    <3>2. turn'.seq = turn.seq /\ events'[current] = turn.seq + 1 /\ turn.seq \in 0..MaxTurns
      BY <2>1, <3>1 DEF Turns
    <3>3. \A s \in Sessions \ stale' : recorded'[s] <= events'[s]
      BY <2>1, <3>1 DEF InLog
    <3> QED
      BY <3>1, <3>2, <3>3 DEF InLog
  <2>2. CASE turn' = AtRest /\ UNCHANGED events
    BY <1>5, <2>2 DEF appendTurnEvent, InLog, AtRest
  <2> QED
    BY <1>5, <2>1, <2>2 DEF appendTurnEvent
<1>6. CASE touchCurrentSession
  <2>1. current \in Sessions /\ turn.at = "touch" /\ turn.seq \in 0..MaxTurns /\ UNCHANGED <<events, stale, row, current>>
    BY <1>c, <1>6 DEF touchCurrentSession, TouchAgentSession, Turns
  <2>2. turn'.at \in {"read", "rest"}
    <3>1. turn' = AtRest \/ turn' = [turn EXCEPT !.at = "read", !.half = 2]
      BY <1>6 DEF touchCurrentSession
    <3>2. [turn EXCEPT !.at = "read", !.half = 2] = [at |-> "read", half |-> 2, seq |-> turn.seq]
      BY TurnFields
    <3> QED
      BY <3>1, <3>2 DEF AtRest
  <2>3. recorded' = recorded \/ (row[current] # NoRow /\ recorded' = [recorded EXCEPT ![current] = turn.seq + 1])
    BY <1>6 DEF touchCurrentSession, TouchAgentSession
  <2>4. \A s \in Sessions \ stale' : recorded'[s] <= events'[s]
    BY <2>1, <2>3 DEF InLog
  <2> QED
    BY <2>2, <2>4 DEF InLog
<1>7. UNCHANGED sessionVars \/ (\E c \in Requesters : Gets(c) \/ Saves(c) \/ AddTask(c)) \/ (\E s \in Sessions : handleCreateSession(s))
        => UNCHANGED <<current, recorded, turn, events>>
  BY DEF sessionVars, Gets, GetAgentSession, Saves, SavePatch, touchSessionOnSubmit, AddTask, handleCreateSession
<1>8. (\E s \in Sessions : NewSession(s) \/ SwitchSession(s)) => InLog'
  BY <1>a DEF NewSession, SwitchSession, AtPrompt, InLog
<1>9. UNCHANGED <<current, recorded, turn, events>> => InLog'
  BY <1>1
<1> QED
  BY <1>2, <1>3, <1>4, <1>5, <1>6, <1>7, <1>8, <1>9, RowCases DEF Creates, Exchanges

LEMMA RememberedStep == RowsInv /\ [SessionsNext]_sessionVars => Remembered'
<1> SUFFICES ASSUME RowsInv, [SessionsNext]_sessionVars PROVE Remembered'
  OBVIOUS
<1> USE SessionsAssumption DEF RowsInv, rowVars, tuiVars, RowTypes, Remembered
<1>a. stale \subseteq stale'
  <2>1. CASE Sessions = {}
    BY <2>1, RowTypesStep
  <2>2. CASE Sessions # {}
    BY <2>2, RowSteps DEF RowMoves
  <2> QED
    BY <2>1, <2>2
<1>1. ASSUME \A s \in Sessions : cached'[s] = cached[s] \/ cached'[s] = -1, \A s \in Sessions : recorded'[s] = recorded[s] \/ recorded'[s] = 0
      PROVE Remembered'
  BY <1>a, <1>1
<1>2. CASE UNCHANGED sessionVars
  BY <1>1, <1>2 DEF sessionVars
<1>3. ASSUME NEW s \in Sessions, Creates(s) \/ SwitchSession(s) PROVE Remembered'
  BY <1>1, <1>3 DEF Creates, handleCreateSession, NewSession, SwitchSession, InvalidateSession
<1>4. ASSUME NEW c \in Requesters, Gets(c) \/ Saves(c) \/ AddTask(c) \/ Deletes(c) PROVE Remembered'
  <2>1. \A s \in Sessions : cached'[s] = cached[s] \/ cached'[s] = -1
    BY <1>4 DEF Gets, GetAgentSession, Saves, SavePatch, touchSessionOnSubmit, AddTask, Deletes, DeleteAgentSession, RemoveAll, InvalidateSession
  <2>2. \A s \in Sessions : recorded'[s] = recorded[s] \/ recorded'[s] = 0
    BY <1>4 DEF Gets, GetAgentSession, Saves, SavePatch, touchSessionOnSubmit, AddTask, Deletes, DeleteAgentSession, RemoveAll
  <2> QED
    BY <1>1, <2>1, <2>2
<1>5. ASSUME NEW j \in jobs, RunJob(j) PROVE Remembered'
  BY <1>1, <1>5 DEF RunJob
<1>6. CASE RecentTurns
  BY <1>6 DEF RecentTurns, InLog
<1>7. CASE ReadFrom \/ appendTurnEvent
  BY <1>1, <1>7 DEF ReadFrom, appendTurnEvent
<1>8. CASE touchCurrentSession
  <2>1. current \in Sessions
    BY <1>8 DEF touchCurrentSession, Blank
  <2>2. CASE UNCHANGED <<cached, recorded>>
    BY <1>1, <2>2
  <2>3. CASE cached' = [cached EXCEPT ![current] = -1] /\ (recorded' = recorded \/ recorded' = [recorded EXCEPT ![current] = turn.seq + 1])
    BY <1>a, <2>1, <2>3
  <2> QED
    BY <1>8, <2>1, <2>2, <2>3 DEF touchCurrentSession, Dropped, InvalidateSession
<1> QED
  BY <1>2, <1>3, <1>4, <1>5, <1>6, <1>7, <1>8, RowCases DEF Exchanges

LEMMA RowsInitInv == SessionsInit => RowsInv
<1> SUFFICES ASSUME SessionsInit PROVE RowsInv
  OBVIOUS
<1> USE SessionsAssumption DEF SessionsInit
<1>1. RowTypes
  BY DEF RowTypes, Requesters, NoReq, Reqs, ReqAt, AtRest, Turns
<1>2. Loaded /\ Blank /\ AnsweredStands /\ AllPlaced /\ InLog /\ Remembered
  BY DEF Loaded, Requesters, NoReq, Blank, AtRest, AnsweredStands, AllPlaced, InLog, Remembered
<1> QED
  BY <1>1, <1>2 DEF RowsInv

LEMMA RowsStep == RowsInv /\ [SessionsNext]_sessionVars => RowsInv'
  BY RowTypesStep, LoadedStep, BlankStep, AnsweredStep, AllPlacedStep, InLogStep, RememberedStep DEF RowsInv

LEMMA RowsInvImplies == RowsInv => SessionsTypeOK /\ AnsweredStands /\ StateReachable /\ Remembered
<1> SUFFICES ASSUME RowsInv PROVE SessionsTypeOK /\ StateReachable
  BY DEF RowsInv
<1>1. SessionsTypeOK
  BY DEF RowsInv, RowTypes, Loaded, SessionsTypeOK, Requesters, Turns
<1>2. StateReachable
  BY DEF RowsInv, RowTypes, AllPlaced, Placed, StateReachable
<1> QED
  BY <1>1, <1>2

(* The session rows are safe, for any sessions, requests and tasks: except for *)
(* a session once saved from a copy that another save had overtaken, what a    *)
(* caller was told of a row stands, a working directory once set stays, the    *)
(* session's state lies under the root or the directory its row names, a       *)
(* deleted session does not come back, and what the terminal recorded is in    *)
(* the history of its next exchange.                                           *)
THEOREM RowsAreSafe == SessionsSpec => RowsSafe
<1>1. SessionsInit => RowsInv
  BY RowsInitInv
<1>2. RowsInv /\ [SessionsNext]_sessionVars => RowsInv'
  BY RowsStep
<1>3. RowsInv => SessionsTypeOK /\ AnsweredStands /\ StateReachable /\ Remembered
  BY RowsInvImplies
<1>4. RowsInv /\ [SessionsNext]_sessionVars
        => [\A s \in Sessions : row[s] # NoRow /\ row'[s] # NoRow /\ row[s].dir # Root
              => row'[s].dir = row[s].dir \/ s \in stale']_sessionVars
  BY RowSteps DEF RowMoves, RowsInv, Blank
<1>5. RowsInv /\ [SessionsNext]_sessionVars
        => [\A s \in issued : row[s] = NoRow => row'[s] = NoRow \/ s \in stale']_sessionVars
  BY RowSteps DEF RowMoves, RowsInv, RowTypes
<1> QED
  BY <1>1, <1>2, <1>3, <1>4, <1>5, PTL DEF SessionsSpec, RowsSafe, WorkingDirOnce, DeletedStays

-----------------------------------------------------------------------------
(* The pool.  A slot is in the channel or in a hand, and an instance in at *)
(* most one of these places; as long as no drain has run out of time, what *)
(* is in the channel has not failed a call.  All of it rests on one drain per mount.       *)

PoolTypes ==
  /\ free \in Seq(Slots) /\ closing \in BOOLEAN /\ inflight \in Nat
  /\ at \in [Calls -> Ways] /\ hand \in [Calls -> Slots \cup {NoSlot}]
  /\ above \in [Calls -> SUBSET Calls] /\ expired \subseteq Calls
  /\ outcome \in [Calls -> {"none", "ok", "fault", "cancelled"}]
  /\ guest \in [Calls -> States]
  /\ mounted \in BOOLEAN /\ faults \in Nat
  /\ failed \subseteq Calls /\ untold \subseteq Calls /\ told \subseteq Calls /\ gaveUp \in BOOLEAN

\* Who has a slot in hand, and what kind of slot.
Hands == \A c \in Calls :
  /\ hand[c] # NoSlot <=> at[c] \in {"build", "call", "back", "send"}
  /\ at[c] = "build" => hand[c] = Empty
  /\ at[c] \in {"call", "back"} => hand[c] \in Calls

Counting == {c \in Calls : Counted(c)}
Holding == {c \in Calls : hand[c] # NoSlot}
Draining == {c \in Calls : at[c] \in {"drain", "wait", "runtime"}}

InflightCounts == inflight = Cardinality(Counting)

\* A call that has not built yet has no instance, and what is in the channel or
\* in a hand was built.
Built ==
  /\ \A c \in Calls : at[c] \in {"out", "resolved", "select", "build"} => guest[c] = "unborn"
  /\ \A c \in Calls : hand[c] \in Calls => guest[hand[c]] # "unborn"
  /\ \A n \in 1..Len(free) : free[n] \in Calls => guest[free[n]] # "unborn"

\* No call has failed on it.
Unfailed == {"live", "doomed", "shut"}

\* Until a drain runs out of time nothing in the channel has failed a call.
Alive == ~gaveUp =>
  /\ \A n \in 1..Len(free) : free[n] \in Calls => guest[free[n]] \in Unfailed
  /\ \A c \in Calls :
       /\ at[c] = "call" => guest[hand[c]] \in Unfailed \cup {"spent"}
       /\ at[c] = "back" => guest[hand[c]] \in Unfailed \cup {"spent", "dead"}
       /\ at[c] = "send" /\ hand[c] \in Calls => guest[hand[c]] \in Unfailed

\* A call that has not come back has no outcome, and a spent instance gives no answer.
Unanswered == \A c \in Calls :
  /\ at[c] \in {"out", "resolved", "select", "build", "call"} => outcome[c] = "none"
  /\ hand[c] \in Calls /\ guest[hand[c]] = "spent" => outcome[c] # "ok"

FailuresKept == failed = untold \cup told

\* One drain per mount, and it finds the pool open.
OneDrain ==
  /\ \A c, d \in Draining : c = d
  /\ mounted => Draining = {} /\ ~closing
  /\ \A c \in Calls : (at[c] = "drain" => ~closing) /\ (at[c] \in {"wait", "runtime"} => closing)

\* A drain that converged has everything.
Gathered ==
  ~gaveUp /\ (\E c \in Calls : at[c] = "runtime") =>
    closing /\ free = <<>> /\ inflight = 0 /\ untold = {}

PoolInv ==
  /\ PoolTypes /\ Hands /\ InflightCounts /\ SlotsConserved /\ OneHolder /\ Built /\ Alive
  /\ Unanswered /\ FailuresKept /\ OneDrain /\ Gathered /\ UnhealthyGoes

LEMMA PoolInitSafe == PoolInit => PoolInv
<1> SUFFICES ASSUME PoolInit PROVE PoolInv
  OBVIOUS
<1> USE PoolAssumption DEF PoolInit
<1>1. PoolTypes
  <2>1. free \in Seq(Slots)
    BY DEF Slots
  <2> QED BY <2>1 DEF PoolTypes, Slots, Ways, States
<1>2. Hands /\ Built /\ Alive /\ Unanswered /\ FailuresKept /\ OneDrain /\ Gathered /\ UnhealthyGoes /\ OneHolder
  BY DEF Hands, Built, Alive, Unanswered, FailuresKept, OneDrain, Gathered, UnhealthyGoes, OneHolder, Draining
<1>3. InflightCounts
  <2>1. Counting = {}
    BY DEF Counting, Counted
  <2> QED BY <2>1, FS_EmptySet DEF InflightCounts
<1>4. SlotsConserved
  <2>1. {c \in Calls : hand[c] # NoSlot} = {}
    OBVIOUS
  <2>2. Len(free) = Size /\ Size \in Nat
    OBVIOUS
  <2>3. Cardinality({c \in Calls : hand[c] # NoSlot}) = 0
    BY <2>1, FS_EmptySet
  <2> HIDE DEF PoolInit
  <2> QED BY <2>2, <2>3 DEF SlotsConserved
<1> QED BY <1>1, <1>2, <1>3, <1>4 DEF PoolInv

\* What a step of the pool may be.
CallStep(c) ==
  \/ \E over \in SUBSET Calls : Resolve(c, over)
  \/ Expire(c) \/ ClosesLate(c) \/ PoolStep(c)

LEMMA PoolCases == ASSUME PoolTypes, PoolNext PROVE \E c \in Calls : CallStep(c)
<1>1. PICK c \in Calls : ResolveTask(c) \/ (\E p \in Calls : callTool(c, p)) \/ Expire(c)
                     \/ ClosesLate(c) \/ PoolStep(c)
  BY DEF PoolNext
<1>2. CASE ResolveTask(c)
  BY <1>2 DEF ResolveTask, CallStep
<1>3. CASE \E p \in Calls : callTool(c, p)
  <2>1. PICK p \in Calls : callTool(c, p)
    BY <1>3
  <2>2. above[p] \cup {p} \in SUBSET Calls
    BY DEF PoolTypes
  <2> QED BY <2>1, <2>2 DEF callTool, CallStep
<1> QED BY <1>1, <1>2, <1>3 DEF CallStep

LEMMA CountingFinite == IsFiniteSet(Counting) /\ Cardinality(Counting) \in Nat
<1>1. Counting \in SUBSET Calls
  BY DEF Counting
<1> QED BY <1>1, PoolAssumption, FS_Subset, FS_CardinalityType

LEMMA HoldingFinite == IsFiniteSet(Holding) /\ Cardinality(Holding) \in Nat
<1>1. Holding \in SUBSET Calls
  BY DEF Holding
<1> QED BY <1>1, PoolAssumption, FS_Subset, FS_CardinalityType

\* Somebody counted keeps the count above nought.
LEMMA CountedCounts == ASSUME InflightCounts, NEW c \in Calls, Counted(c) PROVE inflight > 0
<1>1. Counting # {}
  BY DEF Counting
<1> QED BY <1>1, CountingFinite, FS_EmptySet DEF InflightCounts

\* A conflict of an empty count and somebody at work.
LEMMA NobodyCounted ==
  ASSUME PoolTypes, Hands, InflightCounts, inflight = 0, NEW c \in Calls
  PROVE  ~Counted(c) /\ hand[c] = NoSlot
<1>1. ~Counted(c)
  BY CountedCounts
<1>2. at[c] \notin {"build", "call", "back", "send"}
  BY <1>1 DEF Counted
<1> QED BY <1>1, <1>2 DEF Hands

LEMMA PoolTypesStep ==
  ASSUME PoolTypes, Hands, InflightCounts, NEW c \in Calls, CallStep(c)
  PROVE  PoolTypes'
<1> USE PoolAssumption DEF PoolTypes, callVars, reportVars
<1>1. ASSUME NEW over \in SUBSET Calls, Resolve(c, over) PROVE PoolTypes'
  BY <1>1 DEF Resolve, Ways
<1>2. CASE Expire(c)
  BY <1>2 DEF Expire
<1>3. CASE enter(c)
  BY <1>3 DEF enter, Ways
<1>4. CASE Take(c)
  <2>1. Head(free) \in Slots /\ Tail(free) \in Seq(Slots)
    BY <1>4 DEF Take
  <2>2. guest' \in [Calls -> States]
    BY <1>4 DEF Take, Awaken, States
  <2> QED BY <2>1, <2>2, <1>4 DEF Take, Ways
<1>5. CASE TurnBack(c)
  <2>1. inflight > 0
    BY <1>5, CountedCounts DEF TurnBack, Counted
  <2> QED BY <2>1, <1>5 DEF TurnBack, Ways
<1>6. CASE Build(c)
  <2>1. CASE /\ guest' = [guest EXCEPT ![c] = "live"] /\ hand' = [hand EXCEPT ![c] = c]
             /\ at' = [at EXCEPT ![c] = "call"] /\ UNCHANGED <<free, outcome>>
    BY <1>6, <2>1 DEF Build, Ways, Slots, States
  <2>2. CASE /\ free' = Append(free, Empty) /\ hand' = [hand EXCEPT ![c] = NoSlot]
             /\ at' = [at EXCEPT ![c] = "leave"]
             /\ outcome' = [outcome EXCEPT ![c] = "fault"] /\ UNCHANGED guest
    <3>1. free' \in Seq(Slots)
      BY <2>2 DEF Slots
    <3>2. at' \in [Calls -> Ways] /\ hand' \in [Calls -> Slots \cup {NoSlot}]
      BY <2>2 DEF Ways, Slots
    <3> QED BY <1>6, <2>2, <3>1, <3>2 DEF Build
  <2> QED BY <1>6, <2>1, <2>2 DEF Build
<1>7. CASE Invoke(c)
  <2>1. guest' \in [Calls -> States]
    BY <1>7 DEF Invoke, States
  <2> QED BY <2>1, <1>7 DEF Invoke, Ways
<1>8. CASE release(c)
  <2>1. hand[c] \in Calls
    BY <1>8 DEF release, Hands
  <2>2. at' \in [Calls -> Ways] /\ hand' \in [Calls -> Slots \cup {NoSlot}]
    BY <2>1, <1>8 DEF release, Ways, Slots
  <2>3. guest' \in [Calls -> States]
    BY <2>1, <1>8 DEF release, States
  <2>4. failed' \subseteq Calls /\ untold' \subseteq Calls
    BY <2>1, <1>8 DEF release, MayFail
  <2> QED BY <2>2, <2>3, <2>4, <1>8 DEF release
<1>9. CASE giveBack(c)
  <2>1. hand[c] \in Slots
    BY <1>9 DEF giveBack, Hands
  <2> QED BY <2>1, <1>9 DEF giveBack, Ways
<1>10. CASE inflightDone(c)
  <2>1. inflight > 0
    BY <1>10, CountedCounts DEF inflightDone, Counted
  <2> QED BY <2>1, <1>10 DEF inflightDone, Ways
<1>11. CASE recordSuccess(c) \/ recordFault(c) \/ Pardon(c) \/ unloadUnhealthy(c)
  <2>1. CASE recordSuccess(c)
    BY <2>1 DEF recordSuccess, Answered, Ways
  <2>2. CASE recordFault(c)
    <3>1. faults' \in Nat
      BY <2>2 DEF recordFault
    <3>2. /\ at' \in [Calls -> Ways] /\ above' \in [Calls -> SUBSET Calls] /\ expired' \subseteq Calls
          /\ outcome' \in [Calls -> {"none", "ok", "fault", "cancelled"}]
      BY <2>2 DEF recordFault, Answered, Ways
    <3> QED BY <3>1, <3>2, <2>2 DEF recordFault
  <2>3. CASE Pardon(c)
    BY <2>3 DEF Pardon, Answered, Ways
  <2>4. CASE unloadUnhealthy(c)
    BY <2>4 DEF unloadUnhealthy, Answered, Ways
  <2> QED BY <1>11, <2>1, <2>2, <2>3, <2>4
<1>12. CASE drain(c)
  BY <1>12 DEF drain, Ways
<1>13. CASE Collect(c)
  <2>1. Pooled \subseteq Calls
    BY DEF Pooled, Slots
  <2>2. guest' \in [Calls -> States]
    BY <1>13 DEF Collect, States
  <2> QED BY <2>1, <2>2, <1>13 DEF Collect, Ways, MayFail
<1>14. CASE RunOut(c)
  BY <1>14 DEF RunOut, Ways
<1>15. CASE CloseRuntime(c)
  BY <1>15 DEF CloseRuntime, Answered, Ways, States
<1>16. CASE ClosesLate(c)
  BY <1>16 DEF ClosesLate, States
<1> QED BY <1>1, <1>2, <1>3, <1>4, <1>5, <1>6, <1>7, <1>8, <1>9, <1>10, <1>11, <1>12, <1>13, <1>14, <1>15, <1>16
        DEF CallStep, PoolStep

Using == {"build", "call", "back", "send"}
Early == {"out", "resolved", "select", "build"}

\* A step that touches neither slots nor instances.
Plain(c) ==
  /\ UNCHANGED <<free, hand, guest>> /\ (gaveUp => gaveUp')
  /\ \A d \in Calls \ {c} : at'[d] = at[d]
  /\ at'[c] = at[c] \/ {at[c], at'[c]} \cap Using = {}
  /\ at'[c] \in Early => at[c] \in Early

LEMMA Moves ==
  ASSUME PoolTypes, NEW c \in Calls, CallStep(c)
  PROVE  \/ Plain(c) \/ Take(c) \/ Build(c) \/ Invoke(c) \/ release(c) \/ giveBack(c)
         \/ Collect(c) \/ CloseRuntime(c) \/ ClosesLate(c)
<1> USE DEF PoolTypes, callVars, reportVars, Plain, Using, Early
<1>1. ASSUME NEW over \in SUBSET Calls, Resolve(c, over) PROVE Plain(c)
  BY <1>1 DEF Resolve
<1>2. CASE Expire(c) \/ enter(c) \/ TurnBack(c) \/ inflightDone(c) \/ drain(c) \/ RunOut(c)
  BY <1>2 DEF Expire, enter, TurnBack, inflightDone, drain, RunOut
<1>3. CASE recordSuccess(c) \/ recordFault(c) \/ Pardon(c) \/ unloadUnhealthy(c)
  BY <1>3 DEF recordSuccess, recordFault, Pardon, unloadUnhealthy, Answered
<1> QED BY <1>1, <1>2, <1>3 DEF CallStep, PoolStep

LEMMA HandsStep ==
  ASSUME PoolTypes, Hands, InflightCounts, NEW c \in Calls, CallStep(c)
  PROVE  Hands'
<1> USE PoolAssumption DEF PoolTypes, Hands
<1>1. CASE Plain(c)
  BY <1>1 DEF Plain, Using
<1>2. CASE Take(c)
  <2>1. Head(free) \in Slots
    BY <1>2 DEF Take
  <2> QED BY <2>1, <1>2 DEF Take, Slots
<1>3. CASE Build(c)
  BY <1>3 DEF Build
<1>4. CASE Invoke(c)
  BY <1>4 DEF Invoke
<1>5. CASE release(c)
  BY <1>5 DEF release
<1>6. CASE giveBack(c)
  BY <1>6 DEF giveBack
<1>7. CASE Collect(c)
  BY <1>7 DEF Collect
<1>8. CASE CloseRuntime(c)
  BY <1>8 DEF CloseRuntime, Answered
<1>9. CASE ClosesLate(c)
  BY <1>9 DEF ClosesLate, callVars
<1> QED BY <1>1, <1>2, <1>3, <1>4, <1>5, <1>6, <1>7, <1>8, <1>9, Moves

\* What Take takes is the channel's first, what is left are the others.
LEMMA TakeIs ==
  ASSUME PoolTypes, NEW c \in Calls, Take(c)
  PROVE  /\ Len(free) \in Nat /\ Len(free) > 0 /\ Len(free') = Len(free) - 1
         /\ hand'[c] = free[1] /\ free[1] \in Slots
         /\ \A n \in 1..Len(free') : n + 1 \in 1..Len(free) /\ free'[n] = free[n + 1]
         /\ \A d \in Calls \ {c} : hand'[d] = hand[d] /\ at'[d] = at[d]
         /\ at[c] = "select" /\ at'[c] = IF free[1] = Empty THEN "build" ELSE "call"
         /\ guest' = [i \in Calls |-> IF i = free[1] /\ guest[i] = "shut" THEN "spent" ELSE guest[i]]
         /\ UNCHANGED <<gaveUp, outcome>>
  BY DEF PoolTypes, Take, Awaken, reportVars

\* What is given back is the channel's last.
LEMMA BackIs ==
  ASSUME PoolTypes, NEW x \in Slots, free' = Append(free, x)
  PROVE  /\ Len(free) \in Nat /\ Len(free') = Len(free) + 1 /\ free'[Len(free) + 1] = x
         /\ \A n \in 1..Len(free) : free'[n] = free[n]
  BY DEF PoolTypes

LEMMA OneHolderStep ==
  ASSUME PoolTypes, Hands, InflightCounts, OneHolder, Built, NEW c \in Calls, CallStep(c)
  PROVE  OneHolder'
<1> USE PoolAssumption DEF OneHolder
<1>1. CASE Plain(c)
  BY <1>1 DEF Plain
<1>2. CASE Take(c)
  <2>1. ASSUME NEW d, NEW e \in Calls, d \in Calls, d # e, hand'[d] \in Calls PROVE hand'[d] # hand'[e]
    BY <1>2, <2>1, TakeIs
  <2>2. ASSUME NEW n \in 1..Len(free'), free'[n] \in Calls
        PROVE  /\ \A d \in Calls : hand'[d] # free'[n]
               /\ \A k \in 1..Len(free') : k # n => free'[k] # free'[n]
    BY <1>2, <2>2, TakeIs
  <2> QED BY <2>1, <2>2
<1>3. CASE Build(c)
  <2>1. guest[c] = "unborn" /\ hand[c] = Empty
    BY <1>3 DEF Build, Built, Hands
  <2>2. \A d \in Calls : hand[d] # c
    BY <2>1 DEF Built
  <2>3. \A n \in 1..Len(free) : free[n] # c
    BY <2>1 DEF Built
  <2>4. CASE hand' = [hand EXCEPT ![c] = c] /\ UNCHANGED free
    BY <2>2, <2>3, <2>4 DEF PoolTypes
  <2>5. CASE free' = Append(free, Empty) /\ hand' = [hand EXCEPT ![c] = NoSlot]
    <3>1. Empty \in Slots
      BY DEF Slots
    <3>2. \A n \in 1..Len(free') : free'[n] \in Calls => n \in 1..Len(free) /\ free'[n] = free[n]
      BY <2>5, <3>1, BackIs
    <3>3. \A d \in Calls : hand'[d] \in Calls => d # c /\ hand'[d] = hand[d]
      BY <2>5 DEF PoolTypes
    <3>4. \A d, e \in Calls : d # e /\ hand'[d] \in Calls => hand'[d] # hand'[e]
      BY <2>5, <3>3 DEF PoolTypes
    <3>5. ASSUME NEW n \in 1..Len(free'), free'[n] \in Calls
          PROVE  /\ \A d \in Calls : hand'[d] # free'[n]
                 /\ \A k \in 1..Len(free') : k # n => free'[k] # free'[n]
      <4>1. \A d \in Calls : hand'[d] # free'[n]
        BY <3>2, <3>3, <3>5
      <4>2. \A k \in 1..Len(free') : k # n => free'[k] # free'[n]
        BY <3>2, <3>5
      <4> QED BY <4>1, <4>2
    <3> QED BY <3>4, <3>5
  <2> QED BY <1>3, <2>4, <2>5 DEF Build
<1>4. CASE Invoke(c)
  BY <1>4 DEF Invoke
<1>5. CASE release(c)
  BY <1>5 DEF release, PoolTypes
<1>6. CASE giveBack(c)
  <2>1. hand[c] \in Slots /\ free' = Append(free, hand[c]) /\ hand' = [hand EXCEPT ![c] = NoSlot]
    BY <1>6 DEF giveBack, Hands, PoolTypes
  <2>2. /\ Len(free) \in Nat /\ Len(free') = Len(free) + 1 /\ free'[Len(free) + 1] = hand[c]
        /\ \A n \in 1..Len(free) : free'[n] = free[n]
    BY <2>1, BackIs
  <2>3. hand'[c] = NoSlot /\ \A d \in Calls \ {c} : hand'[d] = hand[d]
    BY <2>1 DEF PoolTypes
  <2>4. \A d, e \in Calls : d # e /\ hand'[d] \in Calls => hand'[d] # hand'[e]
    BY <2>3
  <2>5. ASSUME NEW n \in 1..Len(free'), free'[n] \in Calls
        PROVE  /\ \A d \in Calls : hand'[d] # free'[n]
               /\ \A k \in 1..Len(free') : k # n => free'[k] # free'[n]
    <3>1. CASE n = Len(free) + 1
      <4>1. \A d \in Calls : hand'[d] # hand[c]
        BY <2>2, <2>3, <2>5, <3>1
      <4>2. \A k \in 1..Len(free) : free[k] # hand[c]
        BY <2>2, <2>5, <3>1
      <4>3. \A k \in 1..Len(free') : k # n => k \in 1..Len(free)
        BY <2>2, <3>1
      <4> QED BY <4>1, <4>2, <4>3, <2>2, <3>1
    <3>2. CASE n # Len(free) + 1
      <4>1. n \in 1..Len(free) /\ free'[n] = free[n]
        BY <2>2, <3>2
      <4>2. hand[c] # free[n]
        BY <4>1, <2>5
      <4>3. \A d \in Calls : hand'[d] # free'[n]
        BY <4>1, <2>3, <2>5
      <4>4. \A k \in 1..Len(free') : k = Len(free) + 1 \/ k \in 1..Len(free)
        BY <2>2
      <4> QED BY <4>1, <4>2, <4>3, <4>4, <2>2, <2>5
    <3> QED BY <3>1, <3>2
  <2> QED BY <2>4, <2>5
<1>7. CASE Collect(c)
  BY <1>7 DEF Collect
<1>8. CASE CloseRuntime(c) \/ ClosesLate(c)
  BY <1>8 DEF CloseRuntime, ClosesLate, callVars
<1> QED BY <1>1, <1>2, <1>3, <1>4, <1>5, <1>6, <1>7, <1>8, Moves

LEMMA BuiltStep ==
  ASSUME PoolTypes, Hands, InflightCounts, OneHolder, Built, NEW c \in Calls, CallStep(c)
  PROVE  Built'
<1> USE PoolAssumption DEF Built
<1>1. CASE Plain(c)
  BY <1>1 DEF Plain, Early
<1>2. CASE Take(c)
  <2>0. \A i \in Calls : (guest'[i] = "unborn") <=> (guest[i] = "unborn")
    BY <1>2, TakeIs
  <2>1. \A d \in Calls : at'[d] \in {"out", "resolved", "select", "build"} => guest'[d] = "unborn"
    BY <1>2, <2>0, TakeIs
  <2>2. \A d \in Calls : hand'[d] \in Calls => guest'[hand'[d]] # "unborn"
    BY <1>2, <2>0, TakeIs
  <2>3. \A n \in 1..Len(free') : free'[n] \in Calls => guest'[free'[n]] # "unborn"
    BY <1>2, <2>0, TakeIs
  <2> QED BY <2>1, <2>2, <2>3
<1>3. CASE Build(c)
  <2>1. CASE /\ guest' = [guest EXCEPT ![c] = "live"] /\ hand' = [hand EXCEPT ![c] = c]
             /\ at' = [at EXCEPT ![c] = "call"] /\ UNCHANGED free
    BY <2>1 DEF PoolTypes
  <2>2. CASE /\ free' = Append(free, Empty) /\ hand' = [hand EXCEPT ![c] = NoSlot]
             /\ at' = [at EXCEPT ![c] = "leave"] /\ UNCHANGED guest
    <3>1. Empty \in Slots
      BY DEF Slots
    <3>2. \A n \in 1..Len(free') : free'[n] \in Calls => n \in 1..Len(free) /\ free'[n] = free[n]
      BY <2>2, <3>1, BackIs
    <3>3. \A d \in Calls : hand'[d] \in Calls => hand'[d] = hand[d]
      BY <2>2 DEF PoolTypes
    <3>4. \A d \in Calls : at'[d] \in {"out", "resolved", "select", "build"} => at'[d] = at[d]
      BY <2>2 DEF PoolTypes
    <3> QED BY <2>2, <3>2, <3>3, <3>4
  <2> QED BY <1>3, <2>1, <2>2 DEF Build
<1>4. CASE Invoke(c)
  <2>1. \A i \in Calls : (guest'[i] = "unborn") <=> (guest[i] = "unborn")
    BY <1>4 DEF Invoke, PoolTypes
  <2>2. hand' = hand /\ free' = free
    BY <1>4 DEF Invoke
  <2>3. \A d \in Calls : at'[d] \in {"out", "resolved", "select", "build"} => at'[d] = at[d]
    BY <1>4 DEF Invoke, PoolTypes
  <2> QED BY <2>1, <2>2, <2>3
<1>5. CASE release(c)
  <2>1. hand[c] \in Calls
    BY <1>5 DEF release, Hands
  <2>2. \A i \in Calls : (guest'[i] = "unborn") <=> (guest[i] = "unborn")
    BY <1>5, <2>1 DEF release, PoolTypes
  <2>3. \A d \in Calls : hand'[d] \in Calls => hand'[d] = hand[d]
    BY <1>5 DEF release, PoolTypes
  <2>4. \A d \in Calls : at'[d] \in {"out", "resolved", "select", "build"} => at'[d] = at[d]
    BY <1>5 DEF release, PoolTypes
  <2>5. free' = free
    BY <1>5 DEF release
  <2> QED BY <2>2, <2>3, <2>4, <2>5
<1>6. CASE giveBack(c)
  <2>1. hand[c] \in Slots /\ free' = Append(free, hand[c]) /\ hand' = [hand EXCEPT ![c] = NoSlot]
    BY <1>6 DEF giveBack, Hands, PoolTypes
  <2>2. /\ Len(free) \in Nat /\ Len(free') = Len(free) + 1 /\ free'[Len(free) + 1] = hand[c]
        /\ \A n \in 1..Len(free) : free'[n] = free[n]
    BY <2>1, BackIs
  <2>3. guest' = guest /\ \A d \in Calls : hand'[d] \in Calls => hand'[d] = hand[d]
    BY <1>6, <2>1 DEF giveBack, PoolTypes
  <2>4. \A d \in Calls : at'[d] \in {"out", "resolved", "select", "build"} => at'[d] = at[d]
    BY <1>6 DEF giveBack, PoolTypes
  <2>5. ASSUME NEW n \in 1..Len(free'), free'[n] \in Calls PROVE guest'[free'[n]] # "unborn"
    <3>1. n = Len(free) + 1 \/ n \in 1..Len(free)
      BY <2>2
    <3> QED BY <2>2, <2>3, <2>5, <3>1
  <2> QED BY <2>3, <2>4, <2>5
<1>7. CASE Collect(c)
  <2>1. \A d \in Calls : hand'[d] = hand[d] /\ (guest[d] # "unborn" => guest'[d] # "unborn")
    BY <1>7 DEF Collect
  <2>2. \A d \in Calls : guest[d] = "unborn" => d \notin Pooled
    BY DEF Pooled
  <2>3. \A d \in Calls : guest[d] = "unborn" => guest'[d] = "unborn"
    BY <1>7, <2>2 DEF Collect
  <2>4. \A d \in Calls : at'[d] \in {"out", "resolved", "select", "build"} => at'[d] = at[d]
    BY <1>7 DEF Collect, PoolTypes
  <2>5. free' = <<>>
    BY <1>7 DEF Collect
  <2>6. \A d \in Calls : hand'[d] \in Calls => guest'[hand'[d]] # "unborn"
    BY <2>1
  <2> QED BY <2>3, <2>4, <2>5, <2>6
<1>8. CASE CloseRuntime(c)
  <2>1. \A i \in Calls : (guest'[i] = "unborn") <=> (guest[i] = "unborn")
    BY <1>8 DEF CloseRuntime
  <2>2. hand' = hand /\ free' = free
    BY <1>8 DEF CloseRuntime
  <2>3. \A d \in Calls : at'[d] \in {"out", "resolved", "select", "build"} => at'[d] = at[d]
    BY <1>8 DEF CloseRuntime, Answered, PoolTypes
  <2> QED BY <2>1, <2>2, <2>3
<1>9. CASE ClosesLate(c)
  <2>1. \A i \in Calls : (guest'[i] = "unborn") <=> (guest[i] = "unborn")
    BY <1>9 DEF ClosesLate, PoolTypes
  <2> QED BY <2>1, <1>9 DEF ClosesLate, callVars
<1> QED BY <1>1, <1>2, <1>3, <1>4, <1>5, <1>6, <1>7, <1>8, <1>9, Moves

LEMMA AliveStep ==
  ASSUME PoolTypes, Hands, InflightCounts, OneHolder, Built, Alive, Gathered, NEW c \in Calls, CallStep(c)
  PROVE  Alive'
<1> SUFFICES ASSUME ~gaveUp'
             PROVE  /\ \A n \in 1..Len(free') : free'[n] \in Calls => guest'[free'[n]] \in Unfailed
                    /\ \A d \in Calls :
                         /\ at'[d] = "call" => guest'[hand'[d]] \in Unfailed \cup {"spent"}
                         /\ at'[d] = "back" => guest'[hand'[d]] \in Unfailed \cup {"spent", "dead"}
                         /\ at'[d] = "send" /\ hand'[d] \in Calls => guest'[hand'[d]] \in Unfailed
  BY DEF Alive
<1> USE PoolAssumption
<1>0. ~gaveUp
  <2>1. gaveUp => gaveUp'
    <3>1. CASE Plain(c)
      BY <3>1 DEF Plain
    <3>2. CASE Take(c) \/ Build(c) \/ Invoke(c) \/ release(c) \/ giveBack(c) \/ Collect(c) \/ CloseRuntime(c)
               \/ ClosesLate(c)
      BY <3>2 DEF Take, Build, Invoke, release, giveBack, Collect, CloseRuntime, ClosesLate, reportVars
    <3> QED BY <3>1, <3>2, Moves
  <2> QED BY <2>1
<1>a. /\ \A n \in 1..Len(free) : free[n] \in Calls => guest[free[n]] \in Unfailed
      /\ \A d \in Calls :
           /\ at[d] = "call" => guest[hand[d]] \in Unfailed \cup {"spent"}
           /\ at[d] = "back" => guest[hand[d]] \in Unfailed \cup {"spent", "dead"}
           /\ at[d] = "send" /\ hand[d] \in Calls => guest[hand[d]] \in Unfailed
  BY <1>0 DEF Alive
<1>1. CASE Plain(c)
  BY <1>1, <1>a DEF Plain, Using
<1>2. CASE Take(c)
  <2>1. \A i \in Calls : i # free[1] => guest'[i] = guest[i]
    BY <1>2, TakeIs
  <2>2. free[1] \in Calls => guest'[free[1]] \in {"live", "doomed", "spent"}
    <3>1. 1 \in 1..Len(free)
      BY <1>2, TakeIs
    <3> QED BY <1>2, <1>a, <3>1, TakeIs DEF Unfailed
  <2>3. \A n \in 1..Len(free') : free'[n] \in Calls => guest'[free'[n]] \in Unfailed
    <3>1. ASSUME NEW n \in 1..Len(free'), free'[n] \in Calls PROVE guest'[free'[n]] \in Unfailed
      <4>1. n + 1 \in 1..Len(free) /\ free'[n] = free[n + 1] /\ 1 \in 1..Len(free) /\ n + 1 # 1
        BY <1>2, TakeIs
      <4>2. free[1] # free[n + 1]
        BY <3>1, <4>1 DEF OneHolder
      <4> QED BY <1>a, <2>1, <3>1, <4>1, <4>2
    <3> QED BY <3>1
  <2>4. ASSUME NEW d \in Calls \ {c}
        PROVE  /\ at'[d] = "call" => guest'[hand'[d]] \in Unfailed \cup {"spent"}
               /\ at'[d] = "back" => guest'[hand'[d]] \in Unfailed \cup {"spent", "dead"}
               /\ at'[d] = "send" /\ hand'[d] \in Calls => guest'[hand'[d]] \in Unfailed
    <3>1. hand'[d] = hand[d] /\ at'[d] = at[d] /\ 1 \in 1..Len(free)
      BY <1>2, <2>4, TakeIs
    <3>2. at[d] \in {"call", "back"} => hand[d] \in Calls
      BY DEF Hands
    <3>3. hand[d] \in Calls => hand[d] # free[1]
      BY <3>1 DEF OneHolder
    <3> QED BY <1>a, <2>1, <3>1, <3>2, <3>3
  <2>5. at'[c] = "call" => hand'[c] \in Calls /\ guest'[hand'[c]] \in Unfailed \cup {"spent"}
    BY <1>2, <2>2, TakeIs DEF Slots, Unfailed
  <2>6. at'[c] \in {"build", "call"}
    BY <1>2, TakeIs
  <2> QED BY <2>3, <2>4, <2>5, <2>6
<1>3. CASE Build(c)
  <2>1. CASE /\ guest' = [guest EXCEPT ![c] = "live"] /\ hand' = [hand EXCEPT ![c] = c]
             /\ at' = [at EXCEPT ![c] = "call"] /\ UNCHANGED free
    <3>1. \A i \in Calls : guest[i] \in Unfailed => guest'[i] \in Unfailed
      BY <2>1 DEF PoolTypes, Unfailed
    <3>2. \A d \in Calls \ {c} : at'[d] = at[d] /\ hand'[d] = hand[d]
      BY <2>1 DEF PoolTypes
    <3>3. \A d \in Calls \ {c} : hand[d] # c
      BY <1>3 DEF Build, Built
    <3>4. at'[c] = "call" /\ hand'[c] = c /\ guest'[c] = "live"
      BY <2>1 DEF PoolTypes
    <3>5. ASSUME NEW d \in Calls \ {c}
          PROVE  /\ at'[d] = "call" => guest'[hand'[d]] \in Unfailed \cup {"spent"}
                 /\ at'[d] = "back" => guest'[hand'[d]] \in Unfailed \cup {"spent", "dead"}
                 /\ at'[d] = "send" /\ hand'[d] \in Calls => guest'[hand'[d]] \in Unfailed
      <4>1. at[d] \in {"call", "back"} => hand[d] \in Calls
        BY DEF Hands
      <4>2. \A i \in Calls : i # c => guest'[i] = guest[i]
        BY <2>1 DEF PoolTypes
      <4>3. hand[d] \in Calls => guest'[hand[d]] = guest[hand[d]]
        BY <3>3, <3>5, <4>2
      <4> QED BY <1>a, <3>2, <3>5, <4>1, <4>3
    <3>6. \A n \in 1..Len(free') : free'[n] \in Calls => guest'[free'[n]] \in Unfailed
      BY <1>a, <2>1, <3>1
    <3> QED BY <3>4, <3>5, <3>6 DEF Unfailed
  <2>2. CASE /\ free' = Append(free, Empty) /\ hand' = [hand EXCEPT ![c] = NoSlot]
             /\ at' = [at EXCEPT ![c] = "leave"] /\ UNCHANGED guest
    <3>1. Empty \in Slots
      BY DEF Slots
    <3>2. \A n \in 1..Len(free') : free'[n] \in Calls => n \in 1..Len(free) /\ free'[n] = free[n]
      BY <2>2, <3>1, BackIs
    <3>3. at'[c] = "leave" /\ \A d \in Calls \ {c} : at'[d] = at[d] /\ hand'[d] = hand[d]
      BY <2>2 DEF PoolTypes
    <3> QED BY <1>a, <2>2, <3>2, <3>3
  <2> QED BY <1>3, <2>1, <2>2 DEF Build
<1>4. CASE Invoke(c)
  <2>1. hand[c] \in Calls /\ guest[hand[c]] \in Unfailed \cup {"spent"}
    BY <1>4, <1>a DEF Invoke, Hands
  <2>2. at'[c] = "back" /\ \A d \in Calls \ {c} : at'[d] = at[d]
    BY <1>4 DEF Invoke, PoolTypes
  <2>3. hand' = hand /\ free' = free
    BY <1>4 DEF Invoke
  <2>4. \A i \in Calls \ {hand[c]} : guest'[i] = guest[i]
    BY <1>4 DEF Invoke, PoolTypes
  <2>5. guest'[hand[c]] \in Unfailed \cup {"spent", "dead"}
    BY <1>4, <2>1 DEF Invoke, PoolTypes, Unfailed
  <2>6. \A n \in 1..Len(free) : free[n] # hand[c]
    BY <2>1 DEF OneHolder
  <2>7. \A d \in Calls \ {c} : hand[d] # hand[c]
    BY <2>1 DEF OneHolder
  <2>8. \A d \in Calls \ {c} : at[d] \in {"call", "back"} => hand[d] \in Calls
    BY DEF Hands
  <2>9. \A n \in 1..Len(free') : free'[n] \in Calls => guest'[free'[n]] \in Unfailed
    BY <1>a, <2>3, <2>4, <2>6
  <2> QED BY <1>a, <2>2, <2>3, <2>4, <2>5, <2>7, <2>8, <2>9
<1>5. CASE release(c)
  <2>1. hand[c] \in Calls
    BY <1>5 DEF release, Hands
  <2>2. at'[c] = "send" /\ free' = free /\ \A d \in Calls \ {c} : at'[d] = at[d] /\ hand'[d] = hand[d]
    BY <1>5 DEF release, PoolTypes
  <2>3. \A i \in Calls \ {hand[c]} : guest'[i] = guest[i]
    BY <1>5 DEF release, PoolTypes
  <2>4. hand'[c] \in Calls => guest'[hand'[c]] \in Unfailed
    <3>1. CASE Dead(hand[c])
      BY <1>5, <3>1, PoolAssumption DEF release, PoolTypes
    <3>2. CASE ~Dead(hand[c])
      BY <1>5, <2>1, <3>2 DEF release, PoolTypes, Dead, Unfailed
    <3> QED BY <3>1, <3>2
  <2>5. \A n \in 1..Len(free) : free[n] # hand[c]
    BY <2>1 DEF OneHolder
  <2>6. \A d \in Calls \ {c} : hand[d] # hand[c]
    BY <2>1 DEF OneHolder
  <2>7. \A d \in Calls \ {c} : at[d] \in {"call", "back"} => hand[d] \in Calls
    BY DEF Hands
  <2>8. \A n \in 1..Len(free') : free'[n] \in Calls => guest'[free'[n]] \in Unfailed
    BY <1>a, <2>2, <2>3, <2>5
  <2> QED BY <1>a, <2>2, <2>3, <2>4, <2>6, <2>7, <2>8
<1>6. CASE giveBack(c)
  <2>1. hand[c] \in Slots /\ free' = Append(free, hand[c]) /\ hand' = [hand EXCEPT ![c] = NoSlot]
    BY <1>6 DEF giveBack, Hands, PoolTypes
  <2>2. /\ Len(free) \in Nat /\ Len(free') = Len(free) + 1 /\ free'[Len(free) + 1] = hand[c]
        /\ \A n \in 1..Len(free) : free'[n] = free[n]
    BY <2>1, BackIs
  <2>3. guest' = guest /\ at'[c] = "leave" /\ \A d \in Calls \ {c} : hand'[d] = hand[d] /\ at'[d] = at[d]
    BY <1>6, <2>1 DEF giveBack, PoolTypes
  <2>4. hand[c] \in Calls => guest[hand[c]] \in Unfailed
    BY <1>6, <1>a DEF giveBack
  <2>5. ASSUME NEW n \in 1..Len(free'), free'[n] \in Calls PROVE guest'[free'[n]] \in Unfailed
    <3>1. n = Len(free) + 1 \/ n \in 1..Len(free)
      BY <2>2
    <3> QED BY <1>a, <2>2, <2>3, <2>4, <2>5, <3>1
  <2> QED BY <1>a, <2>3, <2>5
<1>7. CASE Collect(c)
  <2>1. free' = <<>> /\ at'[c] = "runtime" /\ \A d \in Calls \ {c} : at'[d] = at[d]
    BY <1>7 DEF Collect, PoolTypes
  <2>2. \A d \in Calls : ~Counted(d)
    BY <1>7, NobodyCounted DEF Collect
  <2> QED BY <2>1, <2>2 DEF Counted
<1>8. CASE CloseRuntime(c)
  <2>1. free = <<>> /\ inflight = 0
    BY <1>0, <1>8 DEF CloseRuntime, Gathered
  <2>2. \A d \in Calls : ~Counted(d)
    BY <2>1, NobodyCounted
  <2>3. free' = free /\ at'[c] = "done" /\ \A d \in Calls \ {c} : at'[d] = at[d]
    BY <1>8 DEF CloseRuntime, Answered, PoolTypes
  <2> QED BY <2>1, <2>2, <2>3 DEF Counted
<1>9. CASE ClosesLate(c)
  <2>1. at' = at /\ hand' = hand /\ free' = free
    BY <1>9 DEF ClosesLate, callVars
  <2>2. \A i \in Calls : guest'[i] = guest[i] \/ (guest'[i] \in Unfailed /\ guest[i] \in Unfailed)
    BY <1>9 DEF ClosesLate, PoolTypes, Unfailed
  <2>3. \A d \in Calls : at[d] \in {"call", "back"} => hand[d] \in Calls
    BY DEF Hands
  <2> QED BY <1>a, <2>1, <2>2, <2>3
<1> QED BY <1>1, <1>2, <1>3, <1>4, <1>5, <1>6, <1>7, <1>8, <1>9, Moves

\* What is handed out spent is handed to a call without an outcome, and gives it none.
LEMMA UnansweredStep ==
  ASSUME PoolTypes, Hands, InflightCounts, OneHolder, Unanswered, NEW c \in Calls, CallStep(c)
  PROVE  Unanswered'
<1> USE DEF Unanswered, callVars, reportVars
<1>1. ASSUME NEW over \in SUBSET Calls, Resolve(c, over) PROVE Unanswered'
  BY <1>1 DEF Resolve, PoolTypes
<1>2. CASE Expire(c)
  BY <1>2 DEF Expire
<1>3. CASE enter(c) \/ TurnBack(c)
  <2>1. hand[c] = NoSlot /\ hand' = hand /\ guest' = guest
    BY <1>3 DEF enter, TurnBack, Hands
  <2>2. \A d \in Calls \ {c} : at'[d] = at[d] /\ outcome'[d] = outcome[d]
    BY <1>3 DEF enter, TurnBack, PoolTypes
  <2>3. at'[c] = "answer" \/ (at'[c] = "select" /\ outcome'[c] = outcome[c] /\ at[c] = "resolved")
    BY <1>3 DEF enter, TurnBack, PoolTypes
  <2> QED BY <2>1, <2>2, <2>3, PoolAssumption
<1>4. CASE Take(c)
  <2>1. outcome' = outcome /\ outcome[c] = "none" /\ at'[c] \in {"build", "call"}
    BY <1>4, TakeIs
  <2>2. ASSUME NEW d \in Calls \ {c}, hand'[d] \in Calls, guest'[hand'[d]] = "spent"
        PROVE  outcome[d] # "ok"
    <3>1. hand'[d] = hand[d] /\ 1 \in 1..Len(free)
      BY <1>4, TakeIs
    <3>2. hand[d] # free[1]
      BY <2>2, <3>1 DEF OneHolder
    <3>3. guest[hand[d]] = "spent"
      BY <1>4, <2>2, <3>1, <3>2, TakeIs
    <3> QED BY <2>2, <3>1, <3>3
  <2>3. \A d \in Calls \ {c} : at'[d] = at[d]
    BY <1>4, TakeIs
  <2> QED BY <2>1, <2>2, <2>3
<1>5. CASE Build(c)
  <2>1. \A i \in Calls : guest'[i] = "spent" => guest[i] = "spent"
    BY <1>5 DEF Build, PoolTypes
  <2>2. \A d \in Calls \ {c} : hand'[d] = hand[d] /\ at'[d] = at[d] /\ outcome'[d] = outcome[d]
    BY <1>5 DEF Build, PoolTypes
  <2>3. /\ outcome[c] = "none" /\ outcome'[c] \in {"none", "fault"}
        /\ at'[c] = "leave" \/ (at'[c] = "call" /\ outcome'[c] = "none")
    BY <1>5 DEF Build, PoolTypes
  <2> QED BY <2>1, <2>2, <2>3
<1>6. CASE Invoke(c)
  <2>1. hand' = hand /\ \A i \in Calls : guest'[i] = "spent" => guest[i] = "spent"
    BY <1>6 DEF Invoke, PoolTypes
  <2>2. at'[c] = "back" /\ \A d \in Calls \ {c} : at'[d] = at[d] /\ outcome'[d] = outcome[d]
    BY <1>6 DEF Invoke, PoolTypes
  <2>3. hand[c] \in Calls /\ guest[hand[c]] = "spent" => outcome'[c] # "ok"
    BY <1>6 DEF Invoke, PoolTypes
  <2> QED BY <2>1, <2>2, <2>3
<1>7. CASE release(c)
  <2>1. hand[c] \in Calls
    BY <1>7 DEF release, Hands
  <2>2. outcome' = outcome /\ at'[c] = "send" /\ \A d \in Calls \ {c} : at'[d] = at[d]
    BY <1>7 DEF release, PoolTypes
  <2>3. \A i \in Calls : guest'[i] = "spent" => guest[i] = "spent"
    BY <1>7 DEF release, PoolTypes
  <2>4. \A d \in Calls : hand'[d] \in Calls => hand'[d] = hand[d]
    BY <1>7, PoolAssumption DEF release, PoolTypes
  <2> QED BY <2>2, <2>3, <2>4
<1>8. CASE giveBack(c) \/ inflightDone(c) \/ drain(c) \/ RunOut(c)
  <2>1. guest' = guest /\ outcome' = outcome
    BY <1>8 DEF giveBack, inflightDone, drain, RunOut
  <2>2. \A d \in Calls : hand'[d] \in Calls => hand'[d] = hand[d]
    BY <1>8, PoolAssumption DEF giveBack, inflightDone, drain, RunOut, PoolTypes
  <2>3. \A d \in Calls : at'[d] = at[d] \/ at'[d] \in {"leave", "answer", "wait", "runtime"}
    BY <1>8 DEF giveBack, inflightDone, drain, RunOut, PoolTypes
  <2> QED BY <2>1, <2>2, <2>3
<1>9. CASE recordSuccess(c) \/ recordFault(c) \/ Pardon(c) \/ unloadUnhealthy(c) \/ CloseRuntime(c)
  <2>1. hand' = hand /\ \A i \in Calls : guest'[i] = "spent" => guest[i] = "spent"
    BY <1>9 DEF recordSuccess, recordFault, Pardon, unloadUnhealthy, CloseRuntime
  <2>2. \A d \in Calls \ {c} : at'[d] = at[d] /\ outcome'[d] = outcome[d]
    BY <1>9 DEF recordSuccess, recordFault, Pardon, unloadUnhealthy, CloseRuntime, Answered, PoolTypes
  <2>3. at'[c] \in {"done", "unload", "drain"} /\ outcome'[c] \in {"none", outcome[c]}
    BY <1>9 DEF recordSuccess, recordFault, Pardon, unloadUnhealthy, CloseRuntime, Answered, PoolTypes
  <2> QED BY <2>1, <2>2, <2>3
<1>10. CASE Collect(c)
  <2>1. hand' = hand /\ outcome' = outcome /\ \A i \in Calls : guest'[i] = "spent" => guest[i] = "spent"
    BY <1>10 DEF Collect
  <2>2. at'[c] = "runtime" /\ \A d \in Calls \ {c} : at'[d] = at[d]
    BY <1>10 DEF Collect, PoolTypes
  <2> QED BY <2>1, <2>2
<1>11. CASE ClosesLate(c)
  BY <1>11 DEF ClosesLate, PoolTypes
<1> QED BY <1>1, <1>2, <1>3, <1>4, <1>5, <1>6, <1>7, <1>8, <1>9, <1>10, <1>11 DEF CallStep, PoolStep

\* How a step moves the drains: one begins, or goes on, or nothing of them changes.
LEMMA OneDrainStep ==
  ASSUME PoolTypes, OneDrain, NEW c \in Calls, CallStep(c)
  PROVE  OneDrain'
<1> USE DEF PoolTypes, OneDrain, Draining, callVars, reportVars
<1>1. ASSUME NEW over \in SUBSET Calls, Resolve(c, over) PROVE OneDrain'
  BY <1>1 DEF Resolve
<1>2. CASE Expire(c) \/ enter(c) \/ Take(c) \/ TurnBack(c)
  BY <1>2 DEF Expire, enter, Take, TurnBack
<1>3. CASE Build(c) \/ Invoke(c) \/ release(c) \/ giveBack(c) \/ inflightDone(c)
  BY <1>3 DEF Build, Invoke, release, giveBack, inflightDone
<1>4. CASE recordSuccess(c) \/ recordFault(c) \/ Pardon(c)
  BY <1>4 DEF recordSuccess, recordFault, Pardon, Answered
<1>5. CASE unloadUnhealthy(c)
  BY <1>5 DEF unloadUnhealthy, Answered
<1>6. CASE drain(c)
  BY <1>6 DEF drain
<1>7. CASE Collect(c) \/ RunOut(c) \/ CloseRuntime(c) \/ ClosesLate(c)
  BY <1>7 DEF Collect, RunOut, CloseRuntime, ClosesLate, Answered
<1> QED BY <1>1, <1>2, <1>3, <1>4, <1>5, <1>6, <1>7 DEF CallStep, PoolStep

LEMMA FailuresStep ==
  ASSUME FailuresKept, NEW c \in Calls, CallStep(c)
  PROVE  FailuresKept'
<1> USE DEF FailuresKept, callVars, reportVars
<1>1. ASSUME NEW over \in SUBSET Calls, Resolve(c, over) PROVE FailuresKept'
  BY <1>1 DEF Resolve
<1>2. CASE Expire(c) \/ enter(c) \/ Take(c) \/ TurnBack(c) \/ Build(c) \/ Invoke(c)
  BY <1>2 DEF Expire, enter, Take, TurnBack, Build, Invoke
<1>3. CASE release(c)
  BY <1>3 DEF release
<1>4. CASE giveBack(c) \/ inflightDone(c) \/ recordSuccess(c) \/ recordFault(c) \/ Pardon(c)
           \/ unloadUnhealthy(c) \/ drain(c) \/ CloseRuntime(c)
  BY <1>4 DEF giveBack, inflightDone, recordSuccess, recordFault, Pardon, unloadUnhealthy, drain, CloseRuntime
<1>5. CASE Collect(c)
  BY <1>5 DEF Collect
<1>6. CASE RunOut(c) \/ ClosesLate(c)
  BY <1>6 DEF RunOut, ClosesLate
<1> QED BY <1>1, <1>2, <1>3, <1>4, <1>5, <1>6 DEF CallStep, PoolStep

\* Once a drain has collected, nobody is counted who could disturb what it found.
LEMMA GatheredStep ==
  ASSUME PoolTypes, Hands, InflightCounts, OneDrain, Gathered, NEW c \in Calls, CallStep(c)
  PROVE  Gathered'
<1> SUFFICES ASSUME ~gaveUp', NEW r \in Calls, at'[r] = "runtime"
             PROVE  closing' /\ free' = <<>> /\ inflight' = 0 /\ untold' = {}
  BY DEF Gathered
<1> USE DEF callVars, reportVars
<1>1. CASE Collect(c)
  <2>1. closing
    BY <1>1 DEF Collect, OneDrain
  <2> QED BY <1>1, <2>1 DEF Collect
<1>2. CASE drain(c)
  <2>1. ~closing
    BY <1>2 DEF drain, OneDrain
  <2>2. at'[c] = "wait" /\ \A d \in Calls \ {c} : at'[d] = at[d]
    BY <1>2, <2>1 DEF drain, PoolTypes
  <2>3. r # c /\ at[r] = "runtime"
    BY <2>2
  <2>4. c \in Draining /\ r \in Draining
    BY <2>3, <1>2 DEF Draining, drain
  <2> QED BY <2>3, <2>4 DEF OneDrain
<1>3. CASE RunOut(c)
  BY <1>3 DEF RunOut
<1>4. CASE ~Collect(c) /\ ~drain(c) /\ ~RunOut(c)
  <2>1. at[r] = "runtime" /\ ~gaveUp
    <3>1. ASSUME NEW over \in SUBSET Calls, Resolve(c, over) PROVE at[r] = "runtime" /\ ~gaveUp
      BY <3>1 DEF Resolve, PoolTypes
    <3>2. CASE Expire(c) \/ enter(c) \/ Take(c) \/ TurnBack(c) \/ Build(c) \/ Invoke(c) \/ release(c)
      BY <3>2 DEF Expire, enter, Take, TurnBack, Build, Invoke, release, PoolTypes
    <3>3. CASE giveBack(c) \/ inflightDone(c) \/ recordSuccess(c) \/ recordFault(c) \/ Pardon(c)
               \/ unloadUnhealthy(c) \/ CloseRuntime(c) \/ ClosesLate(c)
      BY <3>3 DEF giveBack, inflightDone, recordSuccess, recordFault, Pardon, unloadUnhealthy,
                  CloseRuntime, ClosesLate, Answered, PoolTypes
    <3> QED BY <3>1, <3>2, <3>3, <1>4 DEF CallStep, PoolStep
  <2>2. closing /\ free = <<>> /\ inflight = 0 /\ untold = {}
    BY <2>1 DEF Gathered
  <2>3. ~Counted(c)
    BY <2>2, NobodyCounted
  <2>4. ASSUME NEW over \in SUBSET Calls, Resolve(c, over) PROVE FALSE
    BY <2>2, <2>4 DEF Resolve
  <2>5. CASE Expire(c) \/ enter(c)
    BY <2>2, <2>5 DEF Expire, enter
  <2>6. ~(Take(c) \/ TurnBack(c) \/ Build(c) \/ Invoke(c) \/ release(c) \/ giveBack(c) \/ inflightDone(c))
    BY <2>3 DEF Counted, Take, TurnBack, Build, Invoke, release, giveBack, inflightDone
  <2>7. CASE recordSuccess(c) \/ recordFault(c) \/ Pardon(c) \/ unloadUnhealthy(c) \/ CloseRuntime(c)
             \/ ClosesLate(c)
    BY <2>2, <2>7 DEF recordSuccess, recordFault, Pardon, unloadUnhealthy, CloseRuntime, ClosesLate
  <2> QED BY <1>4, <2>4, <2>5, <2>6, <2>7 DEF CallStep, PoolStep
<1> QED BY <1>1, <1>2, <1>3, <1>4

LEMMA UnhealthyStep ==
  ASSUME PoolTypes, UnhealthyGoes, NEW c \in Calls, CallStep(c)
  PROVE  UnhealthyGoes'
<1> USE PoolAssumption DEF PoolTypes, UnhealthyGoes, callVars, reportVars
<1>1. ASSUME NEW over \in SUBSET Calls, Resolve(c, over) PROVE UnhealthyGoes'
  BY <1>1 DEF Resolve
<1>2. CASE Expire(c) \/ enter(c) \/ Take(c) \/ TurnBack(c)
  BY <1>2 DEF Expire, enter, Take, TurnBack
<1>3. CASE Build(c) \/ Invoke(c) \/ release(c) \/ giveBack(c) \/ inflightDone(c)
  BY <1>3 DEF Build, Invoke, release, giveBack, inflightDone
<1>4. CASE recordSuccess(c)
  BY <1>4 DEF recordSuccess, Answered
<1>5. CASE recordFault(c)
  <2>1. CASE mounted /\ faults' >= MaxFaults
    BY <1>5, <2>1 DEF recordFault
  <2>2. CASE ~(mounted /\ faults' >= MaxFaults)
    BY <1>5, <2>2 DEF recordFault
  <2> QED BY <2>1, <2>2
<1>6. CASE Pardon(c)
  BY <1>6 DEF Pardon, Answered
<1>7. CASE unloadUnhealthy(c)
  BY <1>7 DEF unloadUnhealthy
<1>8. CASE drain(c) \/ Collect(c) \/ RunOut(c) \/ CloseRuntime(c) \/ ClosesLate(c)
  BY <1>8 DEF drain, Collect, RunOut, CloseRuntime, ClosesLate, Answered
<1> QED BY <1>1, <1>2, <1>3, <1>4, <1>5, <1>6, <1>7, <1>8 DEF CallStep, PoolStep

\* The count moves with who is counted.
LEMMA CountStep ==
  ASSUME PoolTypes, InflightCounts, NEW c \in Calls, CallStep(c)
  PROVE  InflightCounts'
<1> USE DEF callVars, reportVars
<1>1. CASE enter(c) /\ ~closing
  <2>1. Counting' = Counting \cup {c} /\ c \notin Counting
    BY <1>1 DEF enter, Counting, Counted, PoolTypes
  <2> QED BY <1>1, <2>1, CountingFinite, FS_AddElement DEF enter, InflightCounts
<1>2. CASE TurnBack(c) \/ inflightDone(c)
  <2>1. Counting' = Counting \ {c} /\ c \in Counting
    BY <1>2 DEF TurnBack, inflightDone, Counting, Counted, PoolTypes
  <2> QED BY <1>2, <2>1, CountingFinite, FS_RemoveElement DEF TurnBack, inflightDone, InflightCounts
<1>3. CASE ~(enter(c) /\ ~closing) /\ ~TurnBack(c) /\ ~inflightDone(c)
  <2>1. inflight' = inflight /\ \A d \in Calls : Counted(d)' <=> Counted(d)
    <3>1. ASSUME NEW over \in SUBSET Calls, Resolve(c, over)
          PROVE  inflight' = inflight /\ \A d \in Calls : Counted(d)' <=> Counted(d)
      BY <3>1 DEF Resolve, PoolTypes, Counted
    <3>2. CASE Expire(c) \/ enter(c) \/ Take(c) \/ Build(c)
      BY <1>3, <3>2 DEF Expire, enter, Take, Build, PoolTypes, Counted
    <3>3. CASE Invoke(c) \/ release(c) \/ giveBack(c)
      BY <3>3 DEF Invoke, release, giveBack, PoolTypes, Counted
    <3>4. CASE recordSuccess(c) \/ recordFault(c) \/ Pardon(c) \/ unloadUnhealthy(c)
      BY <3>4 DEF recordSuccess, recordFault, Pardon, unloadUnhealthy, Answered, PoolTypes, Counted
    <3>5. CASE drain(c) \/ Collect(c) \/ RunOut(c) \/ CloseRuntime(c) \/ ClosesLate(c)
      BY <3>5 DEF drain, Collect, RunOut, CloseRuntime, ClosesLate, Answered, PoolTypes, Counted
    <3> QED BY <1>3, <3>1, <3>2, <3>3, <3>4, <3>5 DEF CallStep, PoolStep
  <2>2. Counting' = Counting
    BY <2>1 DEF Counting
  <2> QED BY <2>1, <2>2 DEF InflightCounts
<1> QED BY <1>1, <1>2, <1>3

SlotsHere == Len(free) + Cardinality(Holding) = Size
AllCollected == closing /\ free = <<>> /\ inflight = 0

\* A slot changes place: from the channel to a hand and back.
LEMMA SlotsStep ==
  ASSUME PoolTypes, Hands, InflightCounts, SlotsConserved, OneDrain, NEW c \in Calls, CallStep(c)
  PROVE  SlotsConserved'
<1> USE PoolAssumption
<1>a. SlotsHere \/ AllCollected
  BY DEF SlotsConserved, SlotsHere, AllCollected, Holding
<1>b. SUFFICES SlotsHere' \/ AllCollected'
  BY DEF SlotsConserved, SlotsHere, AllCollected, Holding
<1>1. CASE AllCollected
  <2>1. ~Counted(c)
    BY <1>1, NobodyCounted DEF AllCollected
  <2>2. ASSUME NEW over \in SUBSET Calls, Resolve(c, over) PROVE FALSE
    BY <1>1, <2>2 DEF Resolve, AllCollected
  <2>3. ~(Take(c) \/ TurnBack(c) \/ Build(c) \/ Invoke(c) \/ release(c) \/ giveBack(c) \/ inflightDone(c))
    BY <2>1 DEF Counted, Take, TurnBack, Build, Invoke, release, giveBack, inflightDone
  <2>4. CASE Expire(c) \/ enter(c) \/ recordSuccess(c) \/ recordFault(c) \/ Pardon(c) \/ unloadUnhealthy(c)
    BY <1>1, <2>4 DEF Expire, enter, recordSuccess, recordFault, Pardon, unloadUnhealthy, AllCollected
  <2>5. CASE drain(c) \/ Collect(c) \/ RunOut(c) \/ CloseRuntime(c) \/ ClosesLate(c)
    BY <1>1, <2>5 DEF drain, Collect, RunOut, CloseRuntime, ClosesLate, AllCollected
  <2> QED BY <2>2, <2>3, <2>4, <2>5 DEF CallStep, PoolStep
<1>2. CASE SlotsHere
  <2>0. Len(free) \in Nat
    BY DEF PoolTypes
  <2>1. CASE Plain(c) \/ Invoke(c) \/ CloseRuntime(c) \/ release(c) \/ ClosesLate(c)
    <3>1. free' = free
      BY <2>1 DEF Plain, Invoke, CloseRuntime, release, ClosesLate
    <3>2. \A d \in Calls : hand'[d] = NoSlot <=> hand[d] = NoSlot
      <4>1. CASE release(c)
        BY <4>1 DEF release, Hands, PoolTypes
      <4>2. CASE ~release(c)
        BY <2>1, <4>2 DEF Plain, Invoke, CloseRuntime, ClosesLate, callVars
      <4> QED BY <4>1, <4>2
    <3>3. Holding' = Holding
      BY <3>2 DEF Holding
    <3> QED BY <1>2, <3>1, <3>3 DEF SlotsHere
  <2>2. CASE Take(c)
    <3>1. hand[c] = NoSlot /\ hand'[c] # NoSlot /\ \A d \in Calls \ {c} : hand'[d] = hand[d]
      BY <2>2, TakeIs DEF Hands, Slots
    <3>2. Holding' = Holding \cup {c} /\ c \notin Holding
      BY <3>1 DEF Holding
    <3>3. Cardinality(Holding') = Cardinality(Holding) + 1
      BY <3>2, HoldingFinite, FS_AddElement
    <3>4. Len(free') = Len(free) - 1
      BY <2>2, TakeIs
    <3> QED BY <1>2, <2>0, <3>3, <3>4, HoldingFinite DEF SlotsHere
  <2>3. CASE Build(c)
    <3>1. CASE hand' = [hand EXCEPT ![c] = c] /\ UNCHANGED free
      <4>1. at[c] = "build"
        BY <2>3 DEF Build
      <4>2. hand[c] # NoSlot
        BY <4>1 DEF Hands
      <4>3. Holding' = Holding
        BY <3>1, <4>2 DEF Holding, PoolTypes
      <4> QED BY <1>2, <3>1, <4>3 DEF SlotsHere
    <3>2. CASE free' = Append(free, Empty) /\ hand' = [hand EXCEPT ![c] = NoSlot]
      <4>1. at[c] = "build"
        BY <2>3 DEF Build
      <4>2. hand[c] # NoSlot
        BY <4>1 DEF Hands
      <4>3. Holding' = Holding \ {c} /\ c \in Holding
        BY <3>2, <4>2 DEF Holding, PoolTypes
      <4>4. Cardinality(Holding') = Cardinality(Holding) - 1
        BY <4>3, HoldingFinite, FS_RemoveElement
      <4>5. Len(free') = Len(free) + 1
        BY <3>2, BackIs DEF Slots
      <4> QED BY <1>2, <2>0, <4>4, <4>5, HoldingFinite DEF SlotsHere
    <3> QED BY <2>3, <3>1, <3>2 DEF Build
  <2>4. CASE giveBack(c)
    <3>1. hand[c] \in Slots /\ free' = Append(free, hand[c]) /\ hand' = [hand EXCEPT ![c] = NoSlot]
      BY <2>4 DEF giveBack, Hands, PoolTypes
    <3>2. Holding' = Holding \ {c} /\ c \in Holding
      BY <3>1, <2>4 DEF Holding, Hands, giveBack, PoolTypes
    <3>3. Cardinality(Holding') = Cardinality(Holding) - 1
      BY <3>2, HoldingFinite, FS_RemoveElement
    <3>4. Len(free') = Len(free) + 1
      BY <3>1, BackIs
    <3> QED BY <1>2, <2>0, <3>3, <3>4, HoldingFinite DEF SlotsHere
  <2>5. CASE Collect(c)
    BY <2>5 DEF Collect, AllCollected, OneDrain
  <2> QED BY <2>1, <2>2, <2>3, <2>4, <2>5, Moves
<1> QED BY <1>a, <1>1, <1>2

LEMMA PoolStepSafe == PoolInv /\ [PoolNext]_poolVars => PoolInv'
<1> SUFFICES ASSUME PoolInv, [PoolNext]_poolVars PROVE PoolInv'
  OBVIOUS
<1>0. PoolTypes /\ Hands /\ InflightCounts /\ SlotsConserved /\ OneHolder /\ Built /\ Alive
      /\ Unanswered /\ FailuresKept /\ OneDrain /\ Gathered /\ UnhealthyGoes
  BY DEF PoolInv
<1>1. CASE PoolNext
  <2>1. PICK c \in Calls : CallStep(c)
    BY <1>0, <1>1, PoolCases
  <2>2. PoolTypes' /\ Hands' /\ InflightCounts'
    BY <1>0, <2>1, PoolTypesStep, HandsStep, CountStep
  <2>3. SlotsConserved' /\ OneHolder' /\ Built' /\ Alive' /\ Unanswered'
    BY <1>0, <2>1, SlotsStep, OneHolderStep, BuiltStep, AliveStep, UnansweredStep
  <2>4. FailuresKept' /\ OneDrain' /\ Gathered' /\ UnhealthyGoes'
    BY <1>0, <2>1, FailuresStep, OneDrainStep, GatheredStep, UnhealthyStep
  <2> QED BY <2>2, <2>3, <2>4 DEF PoolInv
<1>2. CASE UNCHANGED poolVars
  <2> USE <1>2 DEF poolVars, callVars, reportVars
  <2>1. PoolTypes' /\ Hands' /\ SlotsConserved' /\ OneHolder' /\ Built' /\ Alive' /\ Unanswered'
    BY <1>0 DEF PoolTypes, Hands, SlotsConserved, OneHolder, Built, Alive, Unanswered
  <2>2. Counting' = Counting /\ Draining' = Draining
    BY DEF Counting, Counted, Draining
  <2>3. InflightCounts' /\ FailuresKept' /\ OneDrain' /\ Gathered' /\ UnhealthyGoes'
    BY <1>0, <2>2 DEF InflightCounts, FailuresKept, OneDrain, Gathered, UnhealthyGoes
  <2> QED BY <2>1, <2>3 DEF PoolInv
<1> QED BY <1>1, <1>2

LEMMA PoolInvImplies ==
  PoolInv => PoolTypeOK /\ OneHolder /\ SlotsConserved /\ DeadServeOnce /\ NonePulledAway
             /\ EveryFailureTold /\ DrainedOnce /\ UnhealthyGoes
<1> SUFFICES ASSUME PoolInv
             PROVE  PoolTypeOK /\ OneHolder /\ SlotsConserved /\ DeadServeOnce /\ NonePulledAway
                    /\ EveryFailureTold /\ DrainedOnce /\ UnhealthyGoes
  OBVIOUS
<1> USE DEF PoolInv
<1>1. Len(free) <= Size
  <2>1. Len(free) \in Nat /\ Size \in Nat
    BY PoolAssumption DEF PoolTypes
  <2>2. CASE SlotsHere
    BY <2>1, <2>2, HoldingFinite DEF SlotsHere
  <2>3. CASE AllCollected
    BY <2>1, <2>3 DEF AllCollected
  <2> QED BY <2>2, <2>3 DEF SlotsConserved, SlotsHere, AllCollected, Holding
<1>2. PoolTypeOK
  BY <1>1 DEF PoolTypes, PoolTypeOK
<1>3. DeadServeOnce
  BY DEF Alive, Unanswered, Unfailed, DeadServeOnce
<1>4. NonePulledAway
  BY DEF Alive, Unfailed, NonePulledAway
<1>5. EveryFailureTold
  BY DEF FailuresKept, Gathered, EveryFailureTold
<1>6. DrainedOnce
  <2>1. Draining = {} \/ \E c \in Draining : Draining = {c}
    BY DEF OneDrain
  <2>2. CASE Draining = {}
    <3>1. Cardinality(Draining) = 0
      BY <2>2, FS_EmptySet
    <3> QED BY <3>1 DEF Draining, DrainedOnce
  <2>3. ASSUME NEW c \in Draining, Draining = {c} PROVE DrainedOnce
    <3>1. Cardinality(Draining) = 1
      BY <2>3, FS_Singleton
    <3> QED BY <3>1 DEF Draining, DrainedOnce
  <2> QED BY <2>1, <2>2, <2>3
<1> QED BY <1>2, <1>3, <1>4, <1>5, <1>6

\* However calls nest, fail, expire and reach the limit of faults, and whoever
\* unloads the plugin: slots are conserved, so that neither panic of the pool can
\* happen; an instance serves one call, one that failed none, and one that
\* died idle answers nobody; none is closed under a call unless by the call's own
\* context or because a drain ran out of time; a drain that converged reports every
\* instance that would not close; and one drain is the most a mount sees.
THEOREM PoolIsSafe == PoolSpec => PoolSafe
<1>1. PoolSpec => []PoolInv
  BY PoolInitSafe, PoolStepSafe, PTL DEF PoolSpec
<1> QED BY <1>1, PoolInvImplies, PTL DEF PoolSafe

-----------------------------------------------------------------------------
(* The task ledger. Replaying a eventLog is a recursive function; what one more    *)
(* line changes follows once that function is known to exist.                 *)

LEMMA LeastOf ==
  ASSUME NEW T, T \subseteq Nat, T # {}
  PROVE  \E x \in T : \A y \in T : x <= y
<1> DEFINE R == OpToRel(<, Nat)
<1>1. PICK x \in T : \A y \in T : ~(<<y, x>> \in R)
  <2>1. IsWellFoundedOn(R, Nat)
    BY NatLessThanWellFounded
  <2> HIDE DEF R
  <2> QED
    BY <2>1, WFMin
<1>2. \A a, b \in Nat : a < b => <<a, b>> \in R
  BY DEF OpToRel
<1> HIDE DEF R
<1>3. ASSUME NEW y \in T PROVE x <= y
  <2>1. x \in Nat /\ y \in Nat
    BY <1>1, <1>3
  <2>2. ~(y < x)
    BY <1>1, <1>2, <1>3, <2>1
  <2> QED
    BY <2>1, <2>2
<1> QED
  BY <1>1, <1>3


Statuses == {"planned", "done", ""}
Planned == [status |-> "planned", owner |-> NoOwner]

\* f is the replay of the first n lines of s.
Replays(s, n, f) ==
  f = [i \in 0..n |-> IF i = 0 THEN Planned
                      ELSE IF i \in dedupeEvents(s) THEN apply(f[i - 1], s[i]) ELSE f[i - 1]]

LEMMA ReplayOf ==
  ASSUME NEW s \in Seq(LedgerEvents)
  PROVE  \A n \in 0..Len(s) : \E f : Replays(s, n, f)
<1>1. SUFFICES ASSUME NEW T, T = {n \in 0..Len(s) : ~(\E f : Replays(s, n, f))}, T # {} PROVE FALSE
  <2>1. PICK T : T = {n \in 0..Len(s) : ~(\E f : Replays(s, n, f))}
    OBVIOUS
  <2>2. T = {}
    BY <1>1, <2>1
  <2> QED
    BY <2>1, <2>2
<1>2. T \subseteq Nat
  BY <1>1
<1>3. PICK n \in T : \A m \in T : n <= m
  BY <1>1, <1>2, LeastOf
<1>4. n \in 0..Len(s) /\ ~(\E f : Replays(s, n, f))
  BY <1>1, <1>3
<1>5. CASE n = 0
  <2>1. PICK f : f = [i \in 0..0 |-> Planned]
    OBVIOUS
  <2>2. Replays(s, 0, f)
    <3>1. \A i \in 0..0 : i = 0
      OBVIOUS
    <3> QED
      BY <2>1, <3>1 DEF Replays
  <2> QED
    BY <1>4, <1>5, <2>2
<1>6. CASE n > 0
  <2>1. n - 1 \in 0..Len(s) /\ n - 1 < n
    BY <1>4, <1>6
  <2>2. PICK g : Replays(s, n - 1, g)
    BY <1>1, <1>3, <2>1
  <2>3. PICK f : f = [i \in 0..n |-> IF i = n THEN (IF n \in dedupeEvents(s) THEN apply(g[n - 1], s[n]) ELSE g[n - 1]) ELSE g[i]]
    OBVIOUS
  <2>4. \A i \in 0..n : f[i] = IF i = 0 THEN Planned
                               ELSE IF i \in dedupeEvents(s) THEN apply(f[i - 1], s[i]) ELSE f[i - 1]
    <3> TAKE i \in 0..n
    <3>1. CASE i = 0
      <4>1. g[0] = Planned
        BY <2>1, <2>2 DEF Replays
      <4> QED
        BY <1>6, <2>3, <3>1, <4>1
    <3>2. CASE i > 0 /\ i < n
      <4>1. i - 1 \in 0..n /\ i \in 0..n - 1 /\ i # n /\ i - 1 # n /\ i # 0
        BY <1>4, <3>2
      <4>2. f[i] = g[i] /\ f[i - 1] = g[i - 1]
        BY <2>3, <4>1
      <4>3. g[i] = IF i \in dedupeEvents(s) THEN apply(g[i - 1], s[i]) ELSE g[i - 1]
        BY <2>2, <4>1 DEF Replays
      <4> QED
        BY <4>1, <4>2, <4>3
    <3>3. CASE i = n
      <4>1. n - 1 \in 0..n /\ n - 1 # n /\ n \in 0..n
        BY <1>4, <1>6
      <4>2. f[n - 1] = g[n - 1]
        BY <2>3, <4>1
      <4>3. f[n] = IF n \in dedupeEvents(s) THEN apply(g[n - 1], s[n]) ELSE g[n - 1]
        BY <2>3, <4>1
      <4> QED
        BY <1>6, <3>3, <4>2, <4>3
    <3> QED
      BY <1>4, <3>1, <3>2, <3>3
  <2>5. Replays(s, n, f)
    <3>1. f = [i \in 0..n |-> f[i]]
      BY <2>3
    <3> HIDE DEF Planned
    <3> QED
      BY <2>4, <3>1, Zenon DEF Replays
  <2> QED
    BY <1>4, <2>5
<1> QED
  BY <1>4, <1>5, <1>6

LEMMA ProjectionIsReplay ==
  ASSUME NEW s \in Seq(LedgerEvents)
  PROVE  \E f : Replays(s, Len(s), f) /\ BuildProjection(s) = f[Len(s)]
<1>1. PICK f : f = CHOOSE g : Replays(s, Len(s), g)
  OBVIOUS
<1>2. \E g : Replays(s, Len(s), g)
  BY ReplayOf
<1>3. Replays(s, Len(s), f)
  BY <1>1, <1>2
<1>4. BuildProjection(s) = f[Len(s)]
  BY <1>1 DEF BuildProjection, Replays, Planned
<1> QED
  BY <1>3, <1>4

\* What a replay yields is a task.
Tasks == [status : Statuses \ {""}, owner : Claimants \cup {NoOwner}]

LEMMA ApplyIsTask ==
  ASSUME NEW task \in Tasks, NEW e \in LedgerEvents
  PROVE  apply(task, e) \in Tasks
<1> USE LedgerAssumption DEF Tasks, Statuses
<1>1. e.owner \in Claimants \cup {NoOwner} /\ e.status \in Statuses /\ e.type \in {"created", "claimed", "status", "message"}
  OBVIOUS
<1>2. CASE e.type = "created"
  BY <1>1, <1>2 DEF apply
<1>3. CASE e.type # "created"
  BY <1>1, <1>3 DEF apply
<1> QED
  BY <1>2, <1>3

LEMMA ReplayTyped ==
  ASSUME NEW s \in Seq(LedgerEvents), NEW n \in 0..Len(s), NEW f, Replays(s, n, f)
  PROVE  \A i \in 0..n : f[i] \in Tasks
<1>1. SUFFICES ASSUME NEW T, T = {i \in 0..n : f[i] \notin Tasks}, T # {} PROVE FALSE
  <2>1. PICK T : T = {i \in 0..n : f[i] \notin Tasks}
    OBVIOUS
  <2>2. T = {}
    BY <1>1, <2>1
  <2> QED
    BY <2>1, <2>2
<1>2. PICK i \in T : \A m \in T : i <= m
  <2>1. T \subseteq Nat
    BY <1>1
  <2> QED
    BY <1>1, <2>1, LeastOf
<1>3. i \in 0..n /\ f[i] \notin Tasks
  BY <1>1, <1>2
<1>4. CASE i = 0
  BY <1>3, <1>4 DEF Replays, Planned, Tasks, Statuses
<1>5. CASE i > 0
  <2>1. i - 1 \in 0..n /\ i - 1 < i /\ i # 0 /\ i \in 1..Len(s)
    BY <1>3, <1>5
  <2>2. f[i - 1] \in Tasks
    BY <1>1, <1>2, <2>1
  <2>3. f[i] = IF i \in dedupeEvents(s) THEN apply(f[i - 1], s[i]) ELSE f[i - 1]
    BY <1>3, <2>1 DEF Replays
  <2>4. s[i] \in LedgerEvents
    BY <2>1
  <2> QED
    BY <1>3, <2>2, <2>3, <2>4, ApplyIsTask
<1> QED
  BY <1>3, <1>4, <1>5

LEMMA ProjectionTyped ==
  ASSUME NEW s \in Seq(LedgerEvents)
  PROVE  BuildProjection(s) \in Tasks
BY ProjectionIsReplay, ReplayTyped

\* A line that is appended does not change which of the lines before it count.
LEMMA DedupeAppend ==
  ASSUME NEW s \in Seq(LedgerEvents), NEW e \in LedgerEvents
  PROVE  \A i \in 1..Len(s) : i \in dedupeEvents(Append(s, e)) <=> i \in dedupeEvents(s)
<1>1. Len(Append(s, e)) = Len(s) + 1 /\ \A j \in 1..Len(s) : Append(s, e)[j] = s[j]
  OBVIOUS
<1> TAKE i \in 1..Len(s)
<1>2. \A j \in 1..i - 1 : j \in 1..Len(s)
  OBVIOUS
<1> QED
  BY <1>1, <1>2 DEF dedupeEvents

LEMMA ProjectionAppend ==
  ASSUME NEW s \in Seq(LedgerEvents), NEW e \in LedgerEvents
  PROVE  BuildProjection(Append(s, e)) =
           IF Len(s) + 1 \in dedupeEvents(Append(s, e)) THEN apply(BuildProjection(s), e) ELSE BuildProjection(s)
<1>1. PICK t : t = Append(s, e)
  OBVIOUS
<1>2. t \in Seq(LedgerEvents) /\ Len(t) = Len(s) + 1 /\ t[Len(s) + 1] = e /\ \A j \in 1..Len(s) : t[j] = s[j]
  BY <1>1
<1>3. PICK f : Replays(s, Len(s), f) /\ BuildProjection(s) = f[Len(s)]
  BY ProjectionIsReplay
<1>4. PICK g : Replays(t, Len(t), g) /\ BuildProjection(t) = g[Len(t)]
  BY <1>2, ProjectionIsReplay
<1>5. \A i \in 0..Len(s) : f[i] = g[i]
  <2>1. SUFFICES ASSUME NEW T, T = {i \in 0..Len(s) : f[i] # g[i]}, T # {} PROVE FALSE
    <3>1. PICK T : T = {i \in 0..Len(s) : f[i] # g[i]}
      OBVIOUS
    <3>2. T = {}
      BY <2>1, <3>1
    <3> QED
      BY <3>1, <3>2
  <2>2. PICK i \in T : \A m \in T : i <= m
    <3>1. T \subseteq Nat
      BY <2>1
    <3> QED
      BY <2>1, <3>1, LeastOf
  <2>3. i \in 0..Len(s) /\ f[i] # g[i] /\ i \in 0..Len(t)
    BY <1>2, <2>1, <2>2
  <2>4. CASE i = 0
    BY <1>3, <1>4, <2>3, <2>4 DEF Replays
  <2>5. CASE i > 0
    <3>1. i - 1 \in 0..Len(s) /\ i - 1 < i /\ i # 0 /\ i \in 1..Len(s)
      BY <2>3, <2>5
    <3>2. f[i - 1] = g[i - 1]
      BY <2>1, <2>2, <3>1
    <3>3. f[i] = IF i \in dedupeEvents(s) THEN apply(f[i - 1], s[i]) ELSE f[i - 1]
      BY <1>3, <2>3, <3>1 DEF Replays
    <3>4. g[i] = IF i \in dedupeEvents(t) THEN apply(g[i - 1], t[i]) ELSE g[i - 1]
      BY <1>4, <2>3, <3>1 DEF Replays
    <3>5. i \in dedupeEvents(t) <=> i \in dedupeEvents(s)
      BY <1>1, <3>1, DedupeAppend
    <3> QED
      BY <1>2, <2>3, <3>1, <3>2, <3>3, <3>4, <3>5
  <2> QED
    BY <2>3, <2>4, <2>5
<1>6. Len(s) \in 0..Len(s) /\ Len(t) \in 0..Len(t) /\ Len(t) # 0 /\ Len(t) - 1 = Len(s)
  BY <1>2
<1>7. g[Len(t)] = IF Len(t) \in dedupeEvents(t) THEN apply(g[Len(t) - 1], t[Len(t)]) ELSE g[Len(t) - 1]
  BY <1>4, <1>6 DEF Replays
<1> QED
  BY <1>1, <1>2, <1>3, <1>4, <1>5, <1>6, <1>7

\* A finished task stays finished under any line but the task's creation.
LEMMA FinishedKept ==
  ASSUME NEW s \in Seq(LedgerEvents), NEW e \in LedgerEvents,
         isTerminal(BuildProjection(s).status),
         e.type = "created" => Len(s) + 1 \notin dedupeEvents(Append(s, e))
  PROVE  isTerminal(BuildProjection(Append(s, e)).status)
<1>1. BuildProjection(s) \in Tasks
  BY ProjectionTyped
<1>2. CASE Len(s) + 1 \notin dedupeEvents(Append(s, e))
  BY <1>2, ProjectionAppend
<1>3. CASE Len(s) + 1 \in dedupeEvents(Append(s, e))
  <2>1. BuildProjection(Append(s, e)) = apply(BuildProjection(s), e) /\ e.type # "created"
    BY <1>3, ProjectionAppend
  <2>2. isTerminal(apply(BuildProjection(s), e).status)
    BY <1>1, <2>1 DEF apply, Tasks, Statuses, isTerminal
  <2> QED
    BY <2>1, <2>2
<1> QED
  BY <1>2, <1>3

\* Who owns the task by the log is the first who claimed it.
LEMMA FirstClaim ==
  ASSUME NEW s \in Seq(LedgerEvents)
  PROVE  ownersFromEvents(s) \in Claimants \cup {NoOwner}
<1>1. PICK claims : claims = {i \in 1..Len(s) : s[i].type = "claimed" /\ s[i].owner # NoOwner}
  OBVIOUS
<1>2. CASE claims = {}
  BY <1>1, <1>2 DEF ownersFromEvents
<1>3. CASE claims # {}
  <2>1. \E i \in claims : \A j \in claims : i <= j
    <3>1. claims \subseteq Nat
      BY <1>1
    <3> QED
      BY <1>3, <3>1, LeastOf
  <2>2. PICK i \in claims : i = (CHOOSE k \in claims : \A j \in claims : k <= j)
    BY <2>1
  <2>3. ownersFromEvents(s) = s[i].owner
    BY <1>1, <1>3, <2>2 DEF ownersFromEvents
  <2>4. s[i] \in LedgerEvents
    BY <1>1, <2>2
  <2> QED
    BY <2>3, <2>4, LedgerAssumption
<1> QED
  BY <1>2, <1>3

LEMMA OwnersAppend ==
  ASSUME NEW s \in Seq(LedgerEvents), NEW e \in LedgerEvents
  PROVE  ownersFromEvents(Append(s, e)) =
           IF ownersFromEvents(s) = NoOwner /\ e.type = "claimed" THEN e.owner ELSE ownersFromEvents(s)
<1>1. PICK t : t = Append(s, e)
  OBVIOUS
<1>2. t \in Seq(LedgerEvents) /\ Len(t) = Len(s) + 1 /\ t[Len(s) + 1] = e /\ \A j \in 1..Len(s) : t[j] = s[j]
  BY <1>1
<1>3. PICK A : A = {i \in 1..Len(s) : s[i].type = "claimed" /\ s[i].owner # NoOwner}
  OBVIOUS
<1>4. PICK B : B = {i \in 1..Len(t) : t[i].type = "claimed" /\ t[i].owner # NoOwner}
  OBVIOUS
<1>5. B = A \cup (IF e.type = "claimed" /\ e.owner # NoOwner THEN {Len(s) + 1} ELSE {})
  BY <1>2, <1>3, <1>4
<1>6. CASE A = {}
  <2>1. ownersFromEvents(s) = NoOwner
    BY <1>3, <1>6 DEF ownersFromEvents
  <2>2. CASE B = {}
    BY <1>1, <1>4, <1>5, <2>1, <2>2 DEF ownersFromEvents
  <2>3. CASE B # {}
    <3>1. B = {Len(s) + 1} /\ e.type = "claimed"
      BY <1>5, <1>6, <2>3
    <3>2. (CHOOSE i \in B : \A j \in B : i <= j) = Len(s) + 1
      <4>1. \A j \in B : Len(s) + 1 <= j
        BY <3>1
      <4> QED
        BY <3>1, <4>1
    <3>3. ownersFromEvents(t) = t[Len(s) + 1].owner
      BY <1>4, <2>3, <3>2 DEF ownersFromEvents
    <3> QED
      BY <1>1, <1>2, <2>1, <3>1, <3>3
  <2> QED
    BY <2>2, <2>3
<1>7. CASE A # {}
  <2>1. PICK i \in A : \A j \in A : i <= j
    <3>1. A \subseteq Nat
      BY <1>3
    <3> QED
      BY <1>7, <3>1, LeastOf
  <2>2. i \in B /\ \A j \in B : i <= j
    BY <1>3, <1>5, <2>1
  <2>3. \A k \in A : (\A j \in A : k <= j) => k = i
    <3> TAKE k \in A
    <3> HAVE \A j \in A : k <= j
    <3>1. k <= i /\ i <= k /\ k \in Nat /\ i \in Nat
      BY <1>3, <2>1
    <3> QED
      BY <3>1
  <2>4. \A k \in B : (\A j \in B : k <= j) => k = i
    <3> TAKE k \in B
    <3> HAVE \A j \in B : k <= j
    <3>1. k <= i /\ i <= k /\ k \in Nat /\ i \in Nat
      BY <1>3, <1>4, <2>2, <2>1
    <3> QED
      BY <3>1
  <2>5. (CHOOSE k \in A : \A j \in A : k <= j) = i
    BY <2>1, <2>3
  <2>6. (CHOOSE k \in B : \A j \in B : k <= j) = i
    BY <2>2, <2>4
  <2>7. ownersFromEvents(s) = s[i].owner
    BY <1>3, <1>7, <2>5 DEF ownersFromEvents
  <2>8. ownersFromEvents(t) = t[i].owner
    BY <1>4, <2>2, <2>6 DEF ownersFromEvents
  <2>9. s[i].owner # NoOwner /\ t[i] = s[i]
    BY <1>2, <1>3, <2>1
  <2> QED
    BY <1>1, <2>7, <2>8, <2>9
<1> QED
  BY <1>6, <1>7

-----------------------------------------------------------------------------

Steps == Held \cup {"idle", "create", "stat", "again", "reclaim"}
LedgerCalls == [at : Steps, job : {"append", "follow", "rebuild"}, event : LedgerEvents \cup {0}, read : Nat]

LedgerTypes ==
  /\ lockFile \in Writers \cup {Unlocked} /\ ageing \in BOOLEAN /\ torn \in BOOLEAN
  /\ owners \in Claimants \cup {NoOwner, Lost} /\ eventLog \in Seq(LedgerEvents) /\ board \in 0..Len(eventLog)
  /\ places \subseteq {"active", "archive"} /\ acknowledged \subseteq LedgerEvents /\ mishaps \in Nat
  /\ placed \in BOOLEAN /\ robbed \in BOOLEAN
  /\ call \in [Writers -> LedgerCalls]

\* Each step is one of its job.
RightJob == \A w \in Writers :
  /\ call[w].at # "idle" /\ call[w].job # "rebuild" => call[w].event \in LedgerEvents
  /\ call[w].at \in {"owners", "claim", "write"} => call[w].job = "append"
  /\ call[w].at \in {"owners", "claim"} => call[w].event.type = "claimed"
  /\ call[w].at \in {"read", "index", "file", "remove"} => call[w].job # "append"
  /\ call[w].at = "index" => call[w].read <= Len(eventLog)

\* A lock file that has aged is one left behind; without mishaps there is none,
\* and nobody to reclaim it.
Ageing ==
  /\ ageing => lockFile # Unlocked /\ call[lockFile].at \notin Held
  /\ mishaps = 0 =>
       /\ ~robbed /\ ~ageing /\ \A w \in Writers : call[w].at # "reclaim"
       /\ lockFile # Unlocked => call[lockFile].at \in Held

\* Who is at work has the lock file.
LockKept == \A w \in Writers : call[w].at \in Held => lockFile = w

\* The index, where there is one, names whom the log names, also between the
\* index and the log line of one claim.
Claiming ==
  /\ owners # Lost => ownersFromEvents(eventLog) \in {NoOwner, owners}
  /\ \A w \in Writers : call[w].at = "claim" =>
       call[w].event.owner # NoOwner /\ ownersFromEvents(eventLog) \in {NoOwner, call[w].event.owner}
  /\ \A w \in Writers : call[w].at = "write" /\ call[w].event.type = "claimed" => owners = call[w].event.owner

Rendering(c) == c.at \in {"index", "file", "remove"} \/ (c.at = "unlock" /\ c.job # "append")

\* What a rebuild has read is the whole log, and what it has rendered.
Rendered == \A w \in Writers :
  /\ Rendering(call[w]) => ~torn /\ call[w].read = Len(eventLog)
  /\ Rendering(call[w]) /\ call[w].at # "index" => board = Len(eventLog)
  /\ call[w].at \in {"file", "remove"} => call[w].read > 0

IsLogged(r) == \E i \in 1..Len(eventLog) : eventLog[i] = r

\* What an append has written is in the log, or behind half a line for good.
Written == \A w \in Writers :
  call[w].at # "idle" /\ (call[w].job = "follow" \/ (call[w].job = "append" /\ call[w].at = "unlock"))
    => torn \/ IsLogged(call[w].event)

PlaceAt(n) == PlaceOf(BuildProjection(SubSeq(eventLog, 1, n)))

\* The task's file is where it belongs, or on its way.
TaskPlaced ==
  /\ placed => places = {PlaceAt(board)}
  /\ \A w \in Writers : call[w].at = "remove" => PlaceAt(board) \in places
  /\ \A w \in Writers : call[w].at = "unlock" /\ call[w].job # "append" /\ board > 0 => placed

\* What holds while nobody was robbed of the lock.
Exclusive == LockKept /\ Claiming /\ Rendered /\ ToldIsShown /\ TaskPlaced

LedgerInv == LedgerTypes /\ RightJob /\ Ageing /\ Written /\ (~robbed => Exclusive)

LedgerStep(w) ==
  \/ BeginCall(w) \/ FirstAttempt(w) \/ Inspect(w) \/ Reclaim(w) \/ SecondAttempt(w) \/ Unlock(w)
  \/ StandDown(w) \/ ReleaseFails(w) \/ Fails(w)
  \/ Decide(w) \/ writeOwners(w) \/ WriteEvent(w)
  \/ ReadEvents(w) \/ WriteIndex(w) \/ WriteTask(w) \/ RemoveOther(w)
  \/ Killed(w)

\* A call's next fields, every other call being left alone.
Becomes(w, place, task, event, n) ==
  /\ call'[w].at = place /\ call'[w].job = task /\ call'[w].event = event /\ call'[w].read = n
  /\ call' \in [Writers -> LedgerCalls]
  /\ \A v \in Writers : v # w => call'[v] = call[v]

LEMMA Typed ==
  ASSUME LedgerTypes, NEW w \in Writers
  PROVE  /\ call[w] \in LedgerCalls /\ call[w].at \in Steps /\ call[w].job \in {"append", "follow", "rebuild"}
         /\ call[w].event \in LedgerEvents \cup {0} /\ call[w].read \in Nat
<1>1. call[w] \in LedgerCalls
  BY DEF LedgerTypes
<1> QED
  BY <1>1 DEF LedgerCalls

LEMMA Set ==
  ASSUME LedgerTypes, NEW w \in Writers, NEW d \in LedgerCalls, call' = [call EXCEPT ![w] = d]
  PROVE  Becomes(w, d.at, d.job, d.event, d.read)
<1>1. call'[w] = d /\ (\A v \in Writers : v # w => call'[v] = call[v]) /\ call' \in [Writers -> LedgerCalls]
  BY DEF LedgerTypes
<1> QED
  BY <1>1 DEF Becomes

LEMMA GoesSets ==
  ASSUME LedgerTypes, NEW w \in Writers, NEW a \in Steps, Goes(w, a)
  PROVE  Becomes(w, a, call[w].job, call[w].event, call[w].read)
<1>1. PICK d : d = [call[w] EXCEPT !.at = a]
  OBVIOUS
<1>2. d \in LedgerCalls /\ d.at = a /\ d.job = call[w].job /\ d.event = call[w].event /\ d.read = call[w].read
  BY <1>1, Typed DEF LedgerCalls
<1>3. call' = [call EXCEPT ![w] = d]
  BY <1>1 DEF Goes
<1>4. Becomes(w, d.at, d.job, d.event, d.read)
  BY <1>2, <1>3, Set
<1> QED
  BY <1>2, <1>4

LEMMA EndsSets ==
  ASSUME LedgerTypes, NEW w \in Writers, Ends(w)
  PROVE  Becomes(w, "idle", "append", 0, 0)
<1>1. NoCall \in LedgerCalls /\ NoCall.at = "idle" /\ NoCall.job = "append" /\ NoCall.event = 0 /\ NoCall.read = 0
  BY DEF NoCall, LedgerCalls, Steps
<1>2. Becomes(w, NoCall.at, NoCall.job, NoCall.event, NoCall.read)
  BY <1>1, Set DEF Ends
<1> QED
  BY <1>1, <1>2

\* What each step does, field by field.
BeginCallEffect(w) ==
  /\ call[w].at = "idle"
    /\ \/ \E r \in LedgerEvents : Becomes(w, "create", "append", r, 0)
       \/ Becomes(w, "create", "rebuild", 0, 0)
    /\ UNCHANGED <<lockFile, ageing, owners, eventLog, torn, board, places, mishaps, acknowledged, placed, robbed>>

CreateEffect(w) ==
  /\ call[w].at \in {"create", "again"}
    /\ \/ /\ lockFile = Unlocked /\ lockFile' = w /\ ageing' = FALSE
          /\ Becomes(w, FirstStep(call[w]), call[w].job, call[w].event, call[w].read)
       \/ /\ lockFile # Unlocked /\ UNCHANGED <<lockFile, ageing>>
          /\ \/ Becomes(w, "stat", call[w].job, call[w].event, call[w].read)
             \/ Becomes(w, "idle", "append", 0, 0)
    /\ UNCHANGED <<owners, eventLog, torn, board, places, mishaps, acknowledged, placed, robbed>>

InspectEffect(w) ==
  /\ call[w].at = "stat"
    /\ \/ Becomes(w, "again", call[w].job, call[w].event, call[w].read)
       \/ Becomes(w, "idle", "append", 0, 0)
       \/ Stale /\ Becomes(w, "reclaim", call[w].job, call[w].event, call[w].read)
    /\ UNCHANGED <<lockFile, ageing, owners, eventLog, torn, board, places, mishaps, acknowledged, placed, robbed>>

ReclaimEffect(w) ==
  /\ call[w].at = "reclaim" /\ lockFile' = Unlocked /\ ageing' = FALSE
    /\ Becomes(w, "again", call[w].job, call[w].event, call[w].read)
    /\ robbed' = (robbed \/ (lockFile # Unlocked /\ call[lockFile].at \in Held))
    /\ UNCHANGED <<owners, eventLog, torn, board, places, mishaps, acknowledged, placed>>

UnlockEffect(w) ==
  /\ call[w].at \in {"unlock", "fail"} /\ lockFile' = Unlocked /\ ageing' = FALSE
    /\ \/ /\ call[w].at = "unlock" /\ call[w].job = "append" /\ acknowledged' = acknowledged
          /\ Becomes(w, "create", "follow", call[w].event, call[w].read)
       \/ /\ Becomes(w, "idle", "append", 0, 0)
          /\ acknowledged' = acknowledged \/ (call[w].at = "unlock" /\ call[w].job = "follow" /\ acknowledged' = acknowledged \cup {call[w].event})
    /\ UNCHANGED <<owners, eventLog, torn, board, places, mishaps, placed, robbed>>

DecideEffect(w) ==
  /\ call[w].at = "owners"
    /\ \/ Becomes(w, "fail", call[w].job, call[w].event, call[w].read)
       \/ /\ call[w].event.owner # NoOwner /\ readOwners \in {NoOwner, call[w].event.owner}
          /\ Becomes(w, "claim", call[w].job, call[w].event, call[w].read)
    /\ UNCHANGED <<lockFile, ageing, owners, eventLog, torn, board, places, mishaps, acknowledged, placed, robbed>>

WriteOwnersEffect(w) ==
  /\ call[w].at = "claim" /\ owners' = call[w].event.owner
    /\ Becomes(w, "write", call[w].job, call[w].event, call[w].read)
    /\ UNCHANGED <<lockFile, ageing, eventLog, torn, board, places, mishaps, acknowledged, placed, robbed>>

WriteEventEffect(w) ==
  /\ call[w].at = "write"
    /\ \/ /\ ~torn /\ eventLog' = Append(eventLog, call[w].event) /\ torn' = torn
          /\ Becomes(w, "unlock", call[w].job, call[w].event, call[w].read)
       \/ /\ torn /\ eventLog' = eventLog /\ torn' = torn
          /\ Becomes(w, "unlock", call[w].job, call[w].event, call[w].read)
       \/ /\ eventLog' = eventLog /\ torn' = TRUE
          /\ Becomes(w, "fail", call[w].job, call[w].event, call[w].read)
    /\ UNCHANGED <<lockFile, ageing, owners, board, places, mishaps, acknowledged, placed, robbed>>

ReadEventsEffect(w) ==
  /\ call[w].at = "read"
    /\ \/ torn /\ Becomes(w, "fail", call[w].job, call[w].event, Len(eventLog))
       \/ ~torn /\ Becomes(w, "index", call[w].job, call[w].event, Len(eventLog))
    /\ UNCHANGED <<lockFile, ageing, owners, eventLog, torn, board, places, mishaps, acknowledged, placed, robbed>>

WriteIndexEffect(w) ==
  /\ call[w].at = "index" /\ board' = call[w].read /\ placed' = (placed /\ call[w].read = 0)
    /\ \/ call[w].read = 0 /\ Becomes(w, "unlock", call[w].job, call[w].event, call[w].read)
       \/ call[w].read # 0 /\ Becomes(w, "file", call[w].job, call[w].event, call[w].read)
    /\ UNCHANGED <<lockFile, ageing, owners, eventLog, torn, places, mishaps, acknowledged, robbed>>

WriteTaskEffect(w) ==
  /\ call[w].at = "file" /\ places' = places \cup {Home(w)}
    /\ Becomes(w, "remove", call[w].job, call[w].event, call[w].read)
    /\ UNCHANGED <<lockFile, ageing, owners, eventLog, torn, board, mishaps, acknowledged, placed, robbed>>

RemoveOtherEffect(w) ==
  /\ call[w].at = "remove" /\ places' = places \cap {Home(w)} /\ placed' = TRUE
    /\ Becomes(w, "unlock", call[w].job, call[w].event, call[w].read)
    /\ UNCHANGED <<lockFile, ageing, owners, eventLog, torn, board, mishaps, acknowledged, robbed>>

MishapEffect(w) ==
  /\ call[w].at \in Held /\ mishaps' = mishaps + 1 /\ Becomes(w, "idle", "append", 0, 0)
    /\ UNCHANGED <<lockFile, ageing, owners, eventLog, torn, board, places, acknowledged, placed, robbed>>

StandDownEffect(w) ==
  /\ call[w].at \in {"create", "stat", "again", "reclaim"} /\ Becomes(w, "idle", "append", 0, 0)
    /\ UNCHANGED <<lockFile, ageing, owners, eventLog, torn, board, places, mishaps, acknowledged, placed, robbed>>

FailsEffect(w) ==
  /\ call[w].at \in Held \ {"unlock", "fail"} /\ Becomes(w, "fail", call[w].job, call[w].event, call[w].read)
    /\ UNCHANGED <<lockFile, ageing, owners, eventLog, torn, board, places, mishaps, acknowledged, placed, robbed>>

LEMMA BeginCallDoes ==
  ASSUME LedgerTypes, NEW w \in Writers, BeginCall(w)
  PROVE  BeginCallEffect(w)
<1>1. "create" \in Steps
  BY DEF Steps
<1>2. ASSUME NEW r \in LedgerEvents, call' = [call EXCEPT ![w] = [NoCall EXCEPT !.at = "create", !.event = r]]
      PROVE  Becomes(w, "create", "append", r, 0)
  <2>1. PICK d : d = [NoCall EXCEPT !.at = "create", !.event = r]
    OBVIOUS
  <2>2. d \in LedgerCalls /\ d.at = "create" /\ d.job = "append" /\ d.event = r /\ d.read = 0
    BY <1>1, <2>1 DEF NoCall, LedgerCalls
  <2>3. Becomes(w, d.at, d.job, d.event, d.read)
    BY <1>2, <2>1, <2>2, Set
  <2> QED
    BY <2>2, <2>3
<1>3. ASSUME call' = [call EXCEPT ![w] = [NoCall EXCEPT !.at = "create", !.job = "rebuild"]]
      PROVE  Becomes(w, "create", "rebuild", 0, 0)
  <2>1. PICK d : d = [NoCall EXCEPT !.at = "create", !.job = "rebuild"]
    OBVIOUS
  <2>2. d \in LedgerCalls /\ d.at = "create" /\ d.job = "rebuild" /\ d.event = 0 /\ d.read = 0
    BY <1>1, <2>1 DEF NoCall, LedgerCalls
  <2>3. Becomes(w, d.at, d.job, d.event, d.read)
    BY <1>3, <2>1, <2>2, Set
  <2> QED
    BY <2>2, <2>3
<1> QED
  BY <1>2, <1>3 DEF BeginCall, ledgerFiles, ghosts, BeginCallEffect

LEMMA CreateDoes ==
  ASSUME LedgerTypes, NEW w \in Writers, FirstAttempt(w) \/ SecondAttempt(w)
  PROVE  CreateEffect(w)
<1>1. FirstStep(call[w]) \in Steps /\ "stat" \in Steps
  BY DEF FirstStep, Steps, Held
<1>2. Goes(w, "stat") => Becomes(w, "stat", call[w].job, call[w].event, call[w].read)
  BY <1>1, GoesSets
<1>3. Goes(w, FirstStep(call[w])) => Becomes(w, FirstStep(call[w]), call[w].job, call[w].event, call[w].read)
  BY <1>1, GoesSets
<1>4. Ends(w) => Becomes(w, "idle", "append", 0, 0)
  BY EndsSets
<1> QED
  BY <1>2, <1>3, <1>4 DEF FirstAttempt, SecondAttempt, createLockFile, ledgerFiles, ghosts, CreateEffect

LEMMA InspectDoes ==
  ASSUME LedgerTypes, NEW w \in Writers, Inspect(w)
  PROVE  InspectEffect(w)
<1>1. "again" \in Steps /\ "reclaim" \in Steps
  BY DEF Steps
<1>2. Goes(w, "again") => Becomes(w, "again", call[w].job, call[w].event, call[w].read)
  BY <1>1, GoesSets
<1>3. Goes(w, "reclaim") => Becomes(w, "reclaim", call[w].job, call[w].event, call[w].read)
  BY <1>1, GoesSets
<1>4. Ends(w) => Becomes(w, "idle", "append", 0, 0)
  BY EndsSets
<1> QED
  BY <1>2, <1>3, <1>4 DEF Inspect, ledgerFiles, ghosts, InspectEffect

LEMMA ReclaimDoes ==
  ASSUME LedgerTypes, NEW w \in Writers, Reclaim(w)
  PROVE  ReclaimEffect(w)
<1>1. "again" \in Steps
  BY DEF Steps
<1> QED
  BY <1>1, GoesSets DEF Reclaim, RemoveFile, ledgerFiles, ghosts, ReclaimEffect

LEMMA UnlockDoes ==
  ASSUME LedgerTypes, NEW w \in Writers, Unlock(w)
  PROVE  UnlockEffect(w)
<1>1. "create" \in Steps
  BY DEF Steps
<1>2. ASSUME call' = [call EXCEPT ![w] = [@ EXCEPT !.at = "create", !.job = "follow"]]
      PROVE  Becomes(w, "create", "follow", call[w].event, call[w].read)
  <2>1. PICK d : d = [call[w] EXCEPT !.at = "create", !.job = "follow"]
    OBVIOUS
  <2>2. d \in LedgerCalls /\ d.at = "create" /\ d.job = "follow" /\ d.event = call[w].event /\ d.read = call[w].read
    BY <1>1, <2>1, Typed DEF LedgerCalls
  <2>3. Becomes(w, d.at, d.job, d.event, d.read)
    BY <1>2, <2>1, <2>2, Set
  <2> QED
    BY <2>2, <2>3
<1>3. Ends(w) => Becomes(w, "idle", "append", 0, 0)
  BY EndsSets
<1>4. CASE call[w].at = "unlock" /\ call[w].job = "append"
  BY <1>2, <1>4 DEF Unlock, RemoveFile, ledgerFiles, ghosts, UnlockEffect
<1>5. CASE ~(call[w].at = "unlock" /\ call[w].job = "append")
  BY <1>3, <1>5 DEF Unlock, RemoveFile, ledgerFiles, ghosts, UnlockEffect
<1> QED
  BY <1>4, <1>5 DEF UnlockEffect

LEMMA DecideDoes ==
  ASSUME LedgerTypes, NEW w \in Writers, Decide(w)
  PROVE  DecideEffect(w)
<1>1. "fail" \in Steps /\ "claim" \in Steps
  BY DEF Steps, Held
<1>2. Goes(w, "fail") => Becomes(w, "fail", call[w].job, call[w].event, call[w].read)
  BY <1>1, GoesSets
<1>3. Goes(w, "claim") => Becomes(w, "claim", call[w].job, call[w].event, call[w].read)
  BY <1>1, GoesSets
<1>4. CASE \/ owners = Lost /\ torn
           \/ call[w].event.owner = NoOwner
           \/ readOwners \notin {NoOwner, call[w].event.owner}
  BY <1>2, <1>4 DEF Decide, ledgerFiles, ghosts, DecideEffect
<1>5. CASE ~(\/ owners = Lost /\ torn
             \/ call[w].event.owner = NoOwner
             \/ readOwners \notin {NoOwner, call[w].event.owner})
  BY <1>3, <1>5 DEF Decide, ledgerFiles, ghosts, DecideEffect
<1> QED
  BY <1>4, <1>5 DEF DecideEffect

LEMMA writeOwnersDoes ==
  ASSUME LedgerTypes, NEW w \in Writers, writeOwners(w)
  PROVE  WriteOwnersEffect(w)
<1>1. "write" \in Steps
  BY DEF Steps, Held
<1> QED
  BY <1>1, GoesSets DEF writeOwners, ghosts, WriteOwnersEffect

LEMMA WriteEventDoes ==
  ASSUME LedgerTypes, NEW w \in Writers, WriteEvent(w)
  PROVE  WriteEventEffect(w)
<1>1. "unlock" \in Steps /\ "fail" \in Steps
  BY DEF Steps, Held
<1>2. Goes(w, "unlock") => Becomes(w, "unlock", call[w].job, call[w].event, call[w].read)
  BY <1>1, GoesSets
<1>3. Goes(w, "fail") => Becomes(w, "fail", call[w].job, call[w].event, call[w].read)
  BY <1>1, GoesSets
<1> QED
  BY <1>2, <1>3 DEF WriteEvent, ghosts, WriteEventEffect

LEMMA ReadEventsDoes ==
  ASSUME LedgerTypes, NEW w \in Writers, ReadEvents(w)
  PROVE  ReadEventsEffect(w)
<1>1. "index" \in Steps /\ "fail" \in Steps /\ Len(eventLog) \in Nat
  BY DEF Steps, Held, LedgerTypes
<1>2. ASSUME NEW a \in Steps, call' = [call EXCEPT ![w].at = a, ![w].read = Len(eventLog)]
      PROVE  Becomes(w, a, call[w].job, call[w].event, Len(eventLog))
  <2>1. PICK d : d = [call[w] EXCEPT !.at = a, !.read = Len(eventLog)]
    OBVIOUS
  <2>2. d \in LedgerCalls /\ d.at = a /\ d.job = call[w].job /\ d.event = call[w].event /\ d.read = Len(eventLog)
    BY <1>1, <2>1, Typed DEF LedgerCalls
  <2>3. call' = [call EXCEPT ![w] = d]
    BY <1>2, <2>1 DEF LedgerTypes
  <2>4. Becomes(w, d.at, d.job, d.event, d.read)
    BY <2>2, <2>3, Set
  <2> QED
    BY <2>2, <2>4
<1>3. CASE torn
  <2>1. call' = [call EXCEPT ![w].at = "fail", ![w].read = Len(eventLog)]
    BY <1>3 DEF ReadEvents
  <2> QED
    BY <1>1, <1>2, <1>3, <2>1 DEF ReadEvents, ledgerFiles, ghosts, ReadEventsEffect
<1>4. CASE ~torn
  <2>1. call' = [call EXCEPT ![w].at = "index", ![w].read = Len(eventLog)]
    BY <1>4 DEF ReadEvents
  <2> QED
    BY <1>1, <1>2, <1>4, <2>1 DEF ReadEvents, ledgerFiles, ghosts, ReadEventsEffect
<1> QED
  BY <1>3, <1>4 DEF ReadEventsEffect

LEMMA WriteIndexDoes ==
  ASSUME LedgerTypes, NEW w \in Writers, WriteIndex(w)
  PROVE  WriteIndexEffect(w)
<1>1. "unlock" \in Steps /\ "file" \in Steps
  BY DEF Steps, Held
<1>2. Goes(w, "unlock") => Becomes(w, "unlock", call[w].job, call[w].event, call[w].read)
  BY <1>1, GoesSets
<1>3. Goes(w, "file") => Becomes(w, "file", call[w].job, call[w].event, call[w].read)
  BY <1>1, GoesSets
<1>4. CASE call[w].read = 0
  BY <1>2, <1>4 DEF WriteIndex, ghosts, WriteIndexEffect
<1>5. CASE call[w].read # 0
  BY <1>3, <1>5 DEF WriteIndex, ghosts, WriteIndexEffect
<1> QED
  BY <1>4, <1>5 DEF WriteIndexEffect

LEMMA WriteTaskDoes ==
  ASSUME LedgerTypes, NEW w \in Writers, WriteTask(w)
  PROVE  WriteTaskEffect(w)
<1>1. "remove" \in Steps
  BY DEF Steps, Held
<1> QED
  BY <1>1, GoesSets DEF WriteTask, ghosts, WriteTaskEffect

LEMMA RemoveOtherDoes ==
  ASSUME LedgerTypes, NEW w \in Writers, RemoveOther(w)
  PROVE  RemoveOtherEffect(w)
<1>1. "unlock" \in Steps
  BY DEF Steps, Held
<1> QED
  BY <1>1, GoesSets DEF RemoveOther, ghosts, RemoveOtherEffect

LEMMA MishapDoes ==
  ASSUME LedgerTypes, NEW w \in Writers, Killed(w) \/ ReleaseFails(w)
  PROVE  MishapEffect(w)
BY EndsSets DEF Killed, ReleaseFails, Held, ledgerFiles, ghosts, MishapEffect

LEMMA StandDownDoes ==
  ASSUME LedgerTypes, NEW w \in Writers, StandDown(w)
  PROVE  StandDownEffect(w)
BY EndsSets DEF StandDown, ledgerFiles, ghosts, StandDownEffect

LEMMA FailsDoes ==
  ASSUME LedgerTypes, NEW w \in Writers, Fails(w)
  PROVE  FailsEffect(w)
<1>1. "fail" \in Steps
  BY DEF Steps, Held
<1> QED
  BY <1>1, GoesSets DEF Fails, ledgerFiles, ghosts, FailsEffect

LedgerEffect(w) ==
  \/ BeginCallEffect(w) \/ CreateEffect(w) \/ InspectEffect(w) \/ ReclaimEffect(w) \/ UnlockEffect(w)
  \/ DecideEffect(w) \/ WriteOwnersEffect(w) \/ WriteEventEffect(w) \/ ReadEventsEffect(w)
  \/ WriteIndexEffect(w) \/ WriteTaskEffect(w) \/ RemoveOtherEffect(w)
  \/ MishapEffect(w) \/ StandDownEffect(w) \/ FailsEffect(w)

LEMMA StepDoes ==
  ASSUME LedgerTypes, NEW w \in Writers, LedgerStep(w)
  PROVE  LedgerEffect(w)
BY BeginCallDoes, CreateDoes, InspectDoes, ReclaimDoes, UnlockDoes, DecideDoes, writeOwnersDoes, WriteEventDoes, ReadEventsDoes,
   WriteIndexDoes, WriteTaskDoes, RemoveOtherDoes, MishapDoes, StandDownDoes, FailsDoes DEF LedgerStep, LedgerEffect

LEMMA StepTypes ==
  ASSUME LedgerTypes, RightJob, NEW w \in Writers, LedgerEffect(w)
  PROVE  /\ lockFile' \in Writers \cup {Unlocked} /\ ageing' \in BOOLEAN /\ torn' \in BOOLEAN
         /\ owners' \in Claimants \cup {NoOwner, Lost} /\ eventLog' \in Seq(LedgerEvents) /\ board' \in 0..Len(eventLog')
         /\ places' \subseteq {"active", "archive"} /\ acknowledged' \subseteq LedgerEvents /\ mishaps' \in Nat
         /\ placed' \in BOOLEAN /\ robbed' \in BOOLEAN
<1>1. /\ call[w].event \in LedgerEvents => call[w].event.owner \in Claimants \cup {NoOwner}
      /\ call[w].at # "idle" /\ call[w].job # "rebuild" => call[w].event \in LedgerEvents
      /\ call[w].at \in {"owners", "claim", "write"} => call[w].event \in LedgerEvents
  BY LedgerAssumption DEF RightJob
<1>0. call[w].at = "index" => call[w].read \in 0..Len(eventLog)
  <2>1. Len(eventLog) \in Nat /\ call[w].read \in Nat
    BY Typed DEF LedgerTypes
  <2> QED
    BY <2>1 DEF RightJob
<1> USE <1>0, <1>1 DEF LedgerTypes
<1>2. CASE BeginCallEffect(w)
  BY <1>2 DEF BeginCallEffect
<1>3. CASE CreateEffect(w)
  BY <1>3 DEF CreateEffect
<1>4. CASE InspectEffect(w)
  BY <1>4 DEF InspectEffect
<1>5. CASE ReclaimEffect(w)
  BY <1>5 DEF ReclaimEffect
<1>6. CASE UnlockEffect(w)
  BY <1>6 DEF UnlockEffect
<1>7. CASE DecideEffect(w)
  BY <1>7 DEF DecideEffect
<1>8. CASE WriteOwnersEffect(w)
  BY <1>8 DEF WriteOwnersEffect
<1>9. CASE WriteEventEffect(w)
  <2>1. eventLog' = eventLog \/ (eventLog' = Append(eventLog, call[w].event) /\ call[w].event \in LedgerEvents)
    BY <1>9 DEF WriteEventEffect
  <2>2. eventLog' \in Seq(LedgerEvents) /\ Len(eventLog') \in Nat /\ Len(eventLog) <= Len(eventLog')
    BY <2>1
  <2>3. board \in 0..Len(eventLog')
    BY <2>2
  <2> QED
    BY <1>9, <2>2, <2>3 DEF WriteEventEffect
<1>10. CASE ReadEventsEffect(w)
  BY <1>10 DEF ReadEventsEffect
<1>11. CASE WriteIndexEffect(w)
  BY <1>11 DEF WriteIndexEffect
<1>12. CASE WriteTaskEffect(w)
  BY <1>12 DEF WriteTaskEffect, Home, PlaceOf
<1>13. CASE RemoveOtherEffect(w)
  BY <1>13 DEF RemoveOtherEffect, Home
<1>14. CASE MishapEffect(w)
  BY <1>14 DEF MishapEffect
<1>15. CASE StandDownEffect(w)
  BY <1>15 DEF StandDownEffect
<1>16. CASE FailsEffect(w)
  BY <1>16 DEF FailsEffect
<1> QED
  BY <1>2, <1>3, <1>4, <1>5, <1>6, <1>7, <1>8, <1>9, <1>10, <1>11, <1>12, <1>13, <1>14, <1>15, <1>16 DEF LedgerEffect

LEMMA TypesKept ==
  ASSUME LedgerTypes, RightJob, NEW w \in Writers, LedgerEffect(w)
  PROVE  LedgerTypes'
<1>1. call' \in [Writers -> LedgerCalls]
  BY DEF LedgerEffect, Becomes, BeginCallEffect, CreateEffect, InspectEffect, ReclaimEffect, UnlockEffect, DecideEffect, WriteOwnersEffect, WriteEventEffect, ReadEventsEffect, WriteIndexEffect, WriteTaskEffect, RemoveOtherEffect, MishapEffect, StandDownEffect, FailsEffect
<1> QED
  BY <1>1, StepTypes DEF LedgerTypes

LEMMA JobKept ==
  ASSUME LedgerTypes, RightJob, NEW w \in Writers, LedgerEffect(w)
  PROVE  RightJob'
<1>1. call[w].job \in {"append", "follow", "rebuild"} /\ Len(eventLog) \in Nat
  BY Typed DEF LedgerTypes
<1> USE <1>1 DEF RightJob, Becomes, FirstStep
<1>2. CASE BeginCallEffect(w)
  BY <1>2 DEF BeginCallEffect
<1>3. CASE CreateEffect(w)
  BY <1>3 DEF CreateEffect
<1>4. CASE InspectEffect(w)
  BY <1>4 DEF InspectEffect
<1>5. CASE ReclaimEffect(w)
  BY <1>5 DEF ReclaimEffect
<1>6. CASE UnlockEffect(w)
  BY <1>6 DEF UnlockEffect
<1>7. CASE DecideEffect(w)
  BY <1>7 DEF DecideEffect
<1>8. CASE WriteOwnersEffect(w)
  BY <1>8 DEF WriteOwnersEffect
<1>9. CASE WriteEventEffect(w)
  <2>1. eventLog \in Seq(LedgerEvents) /\ call[w].event \in LedgerEvents
    BY <1>9 DEF WriteEventEffect, LedgerTypes
  <2>2. Len(eventLog') \in Nat /\ Len(eventLog) <= Len(eventLog')
    BY <1>9, <2>1 DEF WriteEventEffect
  <2>3. \A v \in Writers : call[v].read \in Nat
    BY Typed
  <2> QED
    BY <1>9, <2>2, <2>3 DEF WriteEventEffect
<1>10. CASE ReadEventsEffect(w)
  BY <1>10 DEF ReadEventsEffect
<1>11. CASE WriteIndexEffect(w)
  BY <1>11 DEF WriteIndexEffect
<1>12. CASE WriteTaskEffect(w)
  BY <1>12 DEF WriteTaskEffect
<1>13. CASE RemoveOtherEffect(w)
  BY <1>13 DEF RemoveOtherEffect
<1>14. CASE MishapEffect(w)
  BY <1>14 DEF MishapEffect
<1>15. CASE StandDownEffect(w)
  BY <1>15 DEF StandDownEffect
<1>16. CASE FailsEffect(w)
  BY <1>16 DEF FailsEffect, Held
<1> QED
  BY <1>2, <1>3, <1>4, <1>5, <1>6, <1>7, <1>8, <1>9, <1>10, <1>11, <1>12, <1>13, <1>14, <1>15, <1>16 DEF LedgerEffect

LEMMA AgeingKept ==
  ASSUME LedgerTypes, RightJob, Ageing, NEW w \in Writers, LedgerEffect(w)
  PROVE  Ageing'
<1>1. Unlocked \notin Writers /\ lockFile \in Writers \cup {Unlocked} /\ ageing \in BOOLEAN /\ mishaps \in Nat
  BY LedgerAssumption DEF LedgerTypes
<1> USE <1>1 DEF RightJob, Ageing, Held, Stale, Becomes, FirstStep
<1>2. CASE BeginCallEffect(w)
  BY <1>2 DEF BeginCallEffect
<1>3. CASE CreateEffect(w)
  BY <1>3 DEF CreateEffect
<1>4. CASE InspectEffect(w)
  BY <1>4 DEF InspectEffect
<1>5. CASE ReclaimEffect(w)
  BY <1>5 DEF ReclaimEffect
<1>6. CASE UnlockEffect(w)
  BY <1>6 DEF UnlockEffect
<1>7. CASE DecideEffect(w)
  BY <1>7 DEF DecideEffect
<1>8. CASE WriteOwnersEffect(w)
  BY <1>8 DEF WriteOwnersEffect
<1>9. CASE WriteEventEffect(w)
  BY <1>9 DEF WriteEventEffect
<1>10. CASE ReadEventsEffect(w)
  BY <1>10 DEF ReadEventsEffect
<1>11. CASE WriteIndexEffect(w)
  BY <1>11 DEF WriteIndexEffect
<1>12. CASE WriteTaskEffect(w)
  BY <1>12 DEF WriteTaskEffect
<1>13. CASE RemoveOtherEffect(w)
  BY <1>13 DEF RemoveOtherEffect
<1>14. CASE MishapEffect(w)
  BY <1>14 DEF MishapEffect
<1>15. CASE StandDownEffect(w)
  BY <1>15 DEF StandDownEffect
<1>16. CASE FailsEffect(w)
  BY <1>16 DEF FailsEffect
<1> QED
  BY <1>2, <1>3, <1>4, <1>5, <1>6, <1>7, <1>8, <1>9, <1>10, <1>11, <1>12, <1>13, <1>14, <1>15, <1>16 DEF LedgerEffect

LEMMA LockStays ==
  ASSUME LedgerTypes, RightJob, LockKept, ~robbed, ~robbed', NEW w \in Writers, LedgerEffect(w)
  PROVE  LockKept'
<1>1. Unlocked \notin Writers /\ lockFile \in Writers \cup {Unlocked} /\ ageing \in BOOLEAN /\ mishaps \in Nat
  BY LedgerAssumption DEF LedgerTypes
<1> USE <1>1 DEF RightJob, LockKept, Held, Stale, Becomes, FirstStep
<1>2. CASE BeginCallEffect(w)
  BY <1>2 DEF BeginCallEffect
<1>3. CASE CreateEffect(w)
  BY <1>3 DEF CreateEffect
<1>4. CASE InspectEffect(w)
  BY <1>4 DEF InspectEffect
<1>5. CASE ReclaimEffect(w)
  BY <1>5 DEF ReclaimEffect
<1>6. CASE UnlockEffect(w)
  BY <1>6 DEF UnlockEffect
<1>7. CASE DecideEffect(w)
  BY <1>7 DEF DecideEffect
<1>8. CASE WriteOwnersEffect(w)
  BY <1>8 DEF WriteOwnersEffect
<1>9. CASE WriteEventEffect(w)
  BY <1>9 DEF WriteEventEffect
<1>10. CASE ReadEventsEffect(w)
  BY <1>10 DEF ReadEventsEffect
<1>11. CASE WriteIndexEffect(w)
  BY <1>11 DEF WriteIndexEffect
<1>12. CASE WriteTaskEffect(w)
  BY <1>12 DEF WriteTaskEffect
<1>13. CASE RemoveOtherEffect(w)
  BY <1>13 DEF RemoveOtherEffect
<1>14. CASE MishapEffect(w)
  BY <1>14 DEF MishapEffect
<1>15. CASE StandDownEffect(w)
  BY <1>15 DEF StandDownEffect
<1>16. CASE FailsEffect(w)
  BY <1>16 DEF FailsEffect
<1> QED
  BY <1>2, <1>3, <1>4, <1>5, <1>6, <1>7, <1>8, <1>9, <1>10, <1>11, <1>12, <1>13, <1>14, <1>15, <1>16 DEF LedgerEffect

LEMMA ClaimingKept ==
  ASSUME LedgerTypes, RightJob, ~robbed, LockKept, Claiming, NEW w \in Writers, LedgerEffect(w)
  PROVE  Claiming'
<1>1. ownersFromEvents(eventLog) \in Claimants \cup {NoOwner} /\ NoOwner # Lost
  BY FirstClaim, LedgerAssumption DEF LedgerTypes
<1> USE <1>1 DEF RightJob, LockKept, Held, Claiming, Becomes, FirstStep, readOwners
<1>2. CASE BeginCallEffect(w)
  BY <1>2 DEF BeginCallEffect
<1>3. CASE CreateEffect(w)
  BY <1>3 DEF CreateEffect
<1>4. CASE InspectEffect(w)
  BY <1>4 DEF InspectEffect
<1>5. CASE ReclaimEffect(w)
  BY <1>5 DEF ReclaimEffect
<1>6. CASE UnlockEffect(w)
  BY <1>6 DEF UnlockEffect
<1>7. CASE DecideEffect(w)
  BY <1>7 DEF DecideEffect
<1>8. CASE WriteOwnersEffect(w)
  BY <1>8 DEF WriteOwnersEffect
<1>9. CASE WriteEventEffect(w)
  <2>1. call[w].event \in LedgerEvents /\ eventLog \in Seq(LedgerEvents) /\ lockFile = w
    BY <1>9 DEF WriteEventEffect, LedgerTypes
  <2>2. \A v \in Writers : v # w => call[v].at \notin Held
    BY <2>1
  <2>3. CASE eventLog' = eventLog
    BY <1>9, <2>2, <2>3 DEF WriteEventEffect
  <2>4. CASE eventLog' = Append(eventLog, call[w].event)
    <3>1. ownersFromEvents(eventLog') =
            IF ownersFromEvents(eventLog) = NoOwner /\ call[w].event.type = "claimed" THEN call[w].event.owner ELSE ownersFromEvents(eventLog)
      BY <2>1, <2>4, OwnersAppend
    <3>2. owners' # Lost => ownersFromEvents(eventLog') \in {NoOwner, owners'}
      BY <1>9, <3>1 DEF WriteEventEffect
    <3>3. \A v \in Writers : call'[v].at \notin {"claim", "write"}
      BY <1>9, <2>2 DEF WriteEventEffect
    <3> QED
      BY <3>2, <3>3
  <2> QED
    BY <1>9, <2>3, <2>4 DEF WriteEventEffect
<1>10. CASE ReadEventsEffect(w)
  BY <1>10 DEF ReadEventsEffect
<1>11. CASE WriteIndexEffect(w)
  BY <1>11 DEF WriteIndexEffect
<1>12. CASE WriteTaskEffect(w)
  BY <1>12 DEF WriteTaskEffect
<1>13. CASE RemoveOtherEffect(w)
  BY <1>13 DEF RemoveOtherEffect
<1>14. CASE MishapEffect(w)
  BY <1>14 DEF MishapEffect
<1>15. CASE StandDownEffect(w)
  BY <1>15 DEF StandDownEffect
<1>16. CASE FailsEffect(w)
  BY <1>16 DEF FailsEffect
<1> QED
  BY <1>2, <1>3, <1>4, <1>5, <1>6, <1>7, <1>8, <1>9, <1>10, <1>11, <1>12, <1>13, <1>14, <1>15, <1>16 DEF LedgerEffect

LEMMA RenderedKept ==
  ASSUME LedgerTypes, RightJob, ~robbed, LockKept, Rendered, NEW w \in Writers, LedgerEffect(w)
  PROVE  Rendered'
<1>1. Len(eventLog) \in Nat
  BY DEF LedgerTypes
<1> USE <1>1 DEF RightJob, LockKept, Held, Rendered, Rendering, Becomes, FirstStep
<1>2. CASE BeginCallEffect(w)
  BY <1>2 DEF BeginCallEffect
<1>3. CASE CreateEffect(w)
  BY <1>3 DEF CreateEffect
<1>4. CASE InspectEffect(w)
  BY <1>4 DEF InspectEffect
<1>5. CASE ReclaimEffect(w)
  BY <1>5 DEF ReclaimEffect
<1>6. CASE UnlockEffect(w)
  BY <1>6 DEF UnlockEffect
<1>7. CASE DecideEffect(w)
  BY <1>7 DEF DecideEffect
<1>8. CASE WriteOwnersEffect(w)
  BY <1>8 DEF WriteOwnersEffect
<1>9. CASE WriteEventEffect(w)
  BY <1>9 DEF WriteEventEffect
<1>10. CASE ReadEventsEffect(w)
  BY <1>10 DEF ReadEventsEffect
<1>11. CASE WriteIndexEffect(w)
  BY <1>11 DEF WriteIndexEffect
<1>12. CASE WriteTaskEffect(w)
  BY <1>12 DEF WriteTaskEffect
<1>13. CASE RemoveOtherEffect(w)
  BY <1>13 DEF RemoveOtherEffect
<1>14. CASE MishapEffect(w)
  BY <1>14 DEF MishapEffect
<1>15. CASE StandDownEffect(w)
  BY <1>15 DEF StandDownEffect
<1>16. CASE FailsEffect(w)
  BY <1>16 DEF FailsEffect
<1> QED
  BY <1>2, <1>3, <1>4, <1>5, <1>6, <1>7, <1>8, <1>9, <1>10, <1>11, <1>12, <1>13, <1>14, <1>15, <1>16 DEF LedgerEffect

LEMMA WrittenKept ==
  ASSUME LedgerTypes, RightJob, Written, NEW w \in Writers, LedgerEffect(w)
  PROVE  Written'
<1> USE DEF RightJob, Written, IsLogged, Becomes, FirstStep
<1>1. CASE BeginCallEffect(w)
  BY <1>1 DEF BeginCallEffect
<1>2. CASE CreateEffect(w)
  BY <1>2 DEF CreateEffect
<1>3. CASE InspectEffect(w)
  BY <1>3 DEF InspectEffect
<1>4. CASE ReclaimEffect(w)
  BY <1>4 DEF ReclaimEffect
<1>5. CASE UnlockEffect(w)
  BY <1>5 DEF UnlockEffect
<1>6. CASE DecideEffect(w)
  BY <1>6 DEF DecideEffect
<1>7. CASE WriteOwnersEffect(w)
  BY <1>7 DEF WriteOwnersEffect
<1>8. CASE WriteEventEffect(w)
  BY <1>8 DEF WriteEventEffect
<1>9. CASE ReadEventsEffect(w)
  BY <1>9 DEF ReadEventsEffect
<1>10. CASE WriteIndexEffect(w)
  BY <1>10 DEF WriteIndexEffect
<1>11. CASE WriteTaskEffect(w)
  BY <1>11 DEF WriteTaskEffect
<1>12. CASE RemoveOtherEffect(w)
  BY <1>12 DEF RemoveOtherEffect
<1>13. CASE MishapEffect(w)
  BY <1>13 DEF MishapEffect
<1>14. CASE StandDownEffect(w)
  BY <1>14 DEF StandDownEffect
<1>15. CASE FailsEffect(w)
  BY <1>15 DEF FailsEffect, Held
<1> QED
  BY <1>1, <1>2, <1>3, <1>4, <1>5, <1>6, <1>7, <1>8, <1>9, <1>10, <1>11, <1>12, <1>13, <1>14, <1>15 DEF LedgerEffect

LEMMA ToldKept ==
  ASSUME LedgerTypes, RightJob, ~robbed, LockKept, Rendered, Written, ToldIsShown, NEW w \in Writers, LedgerEffect(w)
  PROVE  ToldIsShown'
<1> USE DEF RightJob, LockKept, Held, Rendered, Rendering, Written, IsLogged, ToldIsShown, Becomes, FirstStep
<1>1. CASE BeginCallEffect(w)
  BY <1>1 DEF BeginCallEffect
<1>2. CASE CreateEffect(w)
  BY <1>2 DEF CreateEffect
<1>3. CASE InspectEffect(w)
  BY <1>3 DEF InspectEffect
<1>4. CASE ReclaimEffect(w)
  BY <1>4 DEF ReclaimEffect
<1>5. CASE UnlockEffect(w)
  BY <1>5 DEF UnlockEffect
<1>6. CASE DecideEffect(w)
  BY <1>6 DEF DecideEffect
<1>7. CASE WriteOwnersEffect(w)
  BY <1>7 DEF WriteOwnersEffect
<1>8. CASE WriteEventEffect(w)
  <2>1. \A i \in 1..board : i \in 1..Len(eventLog) /\ eventLog'[i] = eventLog[i]
    <3>1. CASE eventLog' = eventLog
      BY <3>1 DEF LedgerTypes
    <3>2. CASE eventLog' = Append(eventLog, call[w].event)
      BY <3>2 DEF LedgerTypes
    <3> QED
      BY <1>8, <3>1, <3>2 DEF WriteEventEffect
  <2> QED
    BY <1>8, <2>1 DEF WriteEventEffect
<1>9. CASE ReadEventsEffect(w)
  BY <1>9 DEF ReadEventsEffect
<1>10. CASE WriteIndexEffect(w)
  <2>1. board' = Len(eventLog) /\ eventLog' = eventLog /\ acknowledged' = acknowledged
    BY <1>10 DEF WriteIndexEffect
  <2>2. \A i \in 1..board : i \in 1..Len(eventLog)
    BY DEF LedgerTypes
  <2> QED
    BY <2>1, <2>2
<1>11. CASE WriteTaskEffect(w)
  BY <1>11 DEF WriteTaskEffect
<1>12. CASE RemoveOtherEffect(w)
  BY <1>12 DEF RemoveOtherEffect
<1>13. CASE MishapEffect(w)
  BY <1>13 DEF MishapEffect
<1>14. CASE StandDownEffect(w)
  BY <1>14 DEF StandDownEffect
<1>15. CASE FailsEffect(w)
  BY <1>15 DEF FailsEffect
<1> QED
  BY <1>1, <1>2, <1>3, <1>4, <1>5, <1>6, <1>7, <1>8, <1>9, <1>10, <1>11, <1>12, <1>13, <1>14, <1>15 DEF LedgerEffect

LEMMA TaskPlacedKept ==
  ASSUME LedgerTypes, RightJob, ~robbed, LockKept, Rendered, TaskPlaced, NEW w \in Writers, LedgerEffect(w)
  PROVE  TaskPlaced'
<1> USE DEF RightJob, LockKept, Held, Rendered, Rendering, TaskPlaced, PlaceAt, Home, Seen, Becomes, FirstStep
<1>1. CASE BeginCallEffect(w)
  BY <1>1 DEF BeginCallEffect
<1>2. CASE CreateEffect(w)
  BY <1>2 DEF CreateEffect
<1>3. CASE InspectEffect(w)
  BY <1>3 DEF InspectEffect
<1>4. CASE ReclaimEffect(w)
  BY <1>4 DEF ReclaimEffect
<1>5. CASE UnlockEffect(w)
  BY <1>5 DEF UnlockEffect
<1>6. CASE DecideEffect(w)
  BY <1>6 DEF DecideEffect
<1>7. CASE WriteOwnersEffect(w)
  BY <1>7 DEF WriteOwnersEffect
<1>8. CASE WriteEventEffect(w)
  <2>1. SubSeq(eventLog', 1, board) = SubSeq(eventLog, 1, board)
    <3>1. CASE eventLog' = eventLog
      BY <3>1
    <3>2. CASE eventLog' = Append(eventLog, call[w].event)
      <4>1. call[w].event \in LedgerEvents /\ eventLog \in Seq(LedgerEvents) /\ board \in 0..Len(eventLog)
        BY <1>8 DEF WriteEventEffect, LedgerTypes
      <4> QED
        BY <3>2, <4>1
    <3> QED
      BY <1>8, <3>1, <3>2 DEF WriteEventEffect
  <2> QED
    BY <1>8, <2>1 DEF WriteEventEffect
<1>9. CASE ReadEventsEffect(w)
  BY <1>9 DEF ReadEventsEffect
<1>10. CASE WriteIndexEffect(w)
  <2>1. call[w].read = Len(eventLog) /\ board \in 0..Len(eventLog) /\ Len(eventLog) \in Nat
    BY <1>10 DEF WriteIndexEffect, LedgerTypes
  <2>2. \A v \in Writers : v # w => call[v].at \notin Held
    BY <1>10 DEF WriteIndexEffect
  <2>3. CASE call[w].read = 0
    <3>1. board' = board /\ placed' = placed /\ eventLog' = eventLog /\ places' = places
      BY <1>10, <2>1, <2>3 DEF WriteIndexEffect, LedgerTypes
    <3> QED
      BY <1>10, <2>1, <2>2, <2>3, <3>1 DEF WriteIndexEffect
  <2>4. CASE call[w].read # 0
    BY <1>10, <2>2, <2>4 DEF WriteIndexEffect
  <2> QED
    BY <2>3, <2>4
<1>11. CASE WriteTaskEffect(w)
  BY <1>11 DEF WriteTaskEffect
<1>12. CASE RemoveOtherEffect(w)
  BY <1>12 DEF RemoveOtherEffect
<1>13. CASE MishapEffect(w)
  BY <1>13 DEF MishapEffect, LedgerTypes
<1>14. CASE StandDownEffect(w)
  BY <1>14 DEF StandDownEffect, LedgerTypes
<1>15. CASE FailsEffect(w)
  BY <1>15 DEF FailsEffect, LedgerTypes
<1> QED
  BY <1>1, <1>2, <1>3, <1>4, <1>5, <1>6, <1>7, <1>8, <1>9, <1>10, <1>11, <1>12, <1>13, <1>14, <1>15 DEF LedgerEffect

LEMMA AgeKeeps ==
  ASSUME LedgerInv, Age
  PROVE  LedgerInv'
<1> USE DEF LedgerInv
<1>1. /\ UNCHANGED <<lockFile, owners, eventLog, torn, board, places, call, mishaps, acknowledged, placed, robbed>>
      /\ lockFile # Unlocked /\ ageing' = TRUE /\ call[lockFile].at \notin Held /\ ~ageing
  BY DEF Age, ledgerFiles, ghosts
<1>2. LedgerTypes' /\ RightJob' /\ Written'
  BY <1>1 DEF LedgerTypes, RightJob, Written, IsLogged
<1>3. Ageing'
  BY <1>1 DEF Ageing
<1>4. ~robbed' => Exclusive'
  BY <1>1 DEF Exclusive, LockKept, Claiming, Rendered, ToldIsShown, TaskPlaced, PlaceAt
<1> QED
  BY <1>2, <1>3, <1>4

LEMMA LedgerStutters ==
  ASSUME LedgerInv, UNCHANGED ledgerVars
  PROVE  LedgerInv'
<1>1. UNCHANGED <<lockFile, ageing, owners, eventLog, torn, board, places, call, mishaps, acknowledged, placed, robbed>>
  BY DEF ledgerVars, ledgerFiles, ghosts
<1> QED
  BY <1>1 DEF LedgerInv, LedgerTypes, RightJob, Ageing, Written, IsLogged, Exclusive, LockKept, Claiming, Rendered, ToldIsShown, TaskPlaced, PlaceAt

LEMMA LedgerNextIs ==
  ASSUME LedgerNext
  PROVE  (\E w \in Writers : LedgerStep(w)) \/ Age
BY DEF LedgerNext, LedgerStep

\* Nobody is robbed in a step that leaves the ghost alone, or finds it set.
LEMMA RobbedStays ==
  ASSUME NEW w \in Writers, LedgerTypes, LedgerEffect(w), ~robbed'
  PROVE  ~robbed
BY DEF LedgerEffect, BeginCallEffect, CreateEffect, InspectEffect, ReclaimEffect, UnlockEffect, DecideEffect, WriteOwnersEffect,
  WriteEventEffect, ReadEventsEffect, WriteIndexEffect, WriteTaskEffect, RemoveOtherEffect, MishapEffect, StandDownEffect, FailsEffect

LEMMA LedgerInvKept ==
  ASSUME LedgerInv, [LedgerNext]_ledgerVars
  PROVE  LedgerInv'
<1>1. ASSUME NEW w \in Writers, LedgerStep(w) PROVE LedgerInv'
  <2>1. LedgerEffect(w)
    BY <1>1, StepDoes DEF LedgerInv
  <2>2. LedgerTypes' /\ RightJob' /\ Ageing' /\ Written'
    BY <2>1, TypesKept, JobKept, AgeingKept, WrittenKept DEF LedgerInv
  <2>3. ASSUME ~robbed' PROVE Exclusive'
    <3>1. ~robbed /\ Exclusive
      BY <2>1, <2>3, RobbedStays DEF LedgerInv
    <3> QED
      BY <2>1, <2>3, <3>1, LockStays, ClaimingKept, RenderedKept, ToldKept, TaskPlacedKept DEF LedgerInv, Exclusive
  <2> QED
    BY <2>2, <2>3 DEF LedgerInv
<1> QED
  BY <1>1, AgeKeeps, LedgerStutters, LedgerNextIs

LEMMA LedgerInitInv ==
  ASSUME LedgerInit
  PROVE  LedgerInv
<1>1. eventLog \in Seq(LedgerEvents) /\ ownersFromEvents(eventLog) \in Claimants \cup {NoOwner}
  BY LedgerAssumption, FirstClaim DEF LedgerInit
<1>2. \A w \in Writers : call[w] = NoCall
  BY DEF LedgerInit
<1>3. NoCall \in LedgerCalls /\ NoCall.at = "idle"
  BY DEF NoCall, LedgerCalls, Steps
<1>4. call \in [Writers -> LedgerCalls]
  BY <1>3 DEF LedgerInit
<1>5. LedgerTypes
  <2>1. owners \in Claimants \cup {NoOwner, Lost}
    BY DEF LedgerInit
  <2>2. board \in 0..Len(eventLog)
    BY <1>1 DEF LedgerInit
  <2>3. lockFile = Unlocked /\ ageing = FALSE /\ torn = FALSE /\ places = {} /\ acknowledged = {} /\ mishaps = 0 /\ placed = FALSE /\ robbed = FALSE
    BY DEF LedgerInit
  <2> QED
    BY <1>1, <1>4, <2>1, <2>2, <2>3 DEF LedgerTypes
<1>6. RightJob /\ Rendered /\ Written
  BY <1>2, <1>3 DEF RightJob, Rendered, Rendering, Written
<1>7. LockKept /\ Ageing
  BY <1>2, <1>3 DEF LockKept, Ageing, LedgerInit, Held
<1>8. Claiming
  BY <1>2, <1>3, LedgerAssumption DEF Claiming, LedgerInit
<1>9. ToldIsShown /\ TaskPlaced
  BY <1>2, <1>3 DEF LedgerInit, ToldIsShown, TaskPlaced
<1> QED
  BY <1>5, <1>6, <1>7, <1>8, <1>9 DEF LedgerInv, Exclusive

\* What a step adds to the log is the writer's event, and a claim that is added
\* agrees with the log.
LEMMA LogGrows ==
  ASSUME LedgerInv, [LedgerNext]_ledgerVars, eventLog' # eventLog
  PROVE  \E r \in LedgerEvents :
           /\ eventLog' = Append(eventLog, r)
           /\ ~robbed /\ r.type = "claimed" => ownersFromEvents(eventLog) \in {NoOwner, r.owner}
<1>1. PICK w \in Writers : LedgerStep(w)
  BY LedgerNextIs DEF Age, ledgerFiles, ledgerVars
<1>2. LedgerEffect(w)
  BY <1>1, StepDoes DEF LedgerInv
<1>3. WriteEventEffect(w)
  BY <1>2 DEF LedgerEffect, BeginCallEffect, CreateEffect, InspectEffect, ReclaimEffect, UnlockEffect,
     DecideEffect, WriteOwnersEffect, ReadEventsEffect, WriteIndexEffect, WriteTaskEffect, RemoveOtherEffect,
     MishapEffect, StandDownEffect, FailsEffect
<1>4. call[w].event \in LedgerEvents /\ eventLog' = Append(eventLog, call[w].event) /\ call[w].at = "write"
  BY <1>3 DEF WriteEventEffect, LedgerInv, RightJob
<1>5. ~robbed /\ call[w].event.type = "claimed" => ownersFromEvents(eventLog) \in {NoOwner, call[w].event.owner}
  <2>1. call[w].event.owner # Lost
    BY <1>4, LedgerAssumption
  <2> QED
    BY <1>4, <2>1 DEF LedgerInv, Exclusive, Claiming
<1> QED
  BY <1>4, <1>5

LEMMA StayFinished ==
  ASSUME LedgerInv, [LedgerNext]_ledgerVars, eventLog' # eventLog, isTerminal(BuildProjection(eventLog).status)
  PROVE  \/ isTerminal(BuildProjection(eventLog').status)
         \/ LET last == eventLog'[Len(eventLog')]
            IN last.type = "created" /\ \A i \in 1..Len(eventLog) : eventLog[i].key # last.key
<1>1. PICK r \in LedgerEvents : eventLog' = Append(eventLog, r)
  BY LogGrows
<1>2. eventLog \in Seq(LedgerEvents) /\ Len(eventLog) \in Nat
  BY DEF LedgerInv, LedgerTypes
<1>3. eventLog'[Len(eventLog')] = r
  BY <1>1, <1>2
<1>4. ASSUME NEW i \in 1..Len(eventLog), eventLog[i].key = r.key PROVE Len(eventLog) + 1 \notin dedupeEvents(Append(eventLog, r))
  <2>1. Append(eventLog, r)[i] = eventLog[i] /\ Append(eventLog, r)[Len(eventLog) + 1] = r /\ i \in 1..(Len(eventLog) + 1) - 1
    BY <1>2
  <2> QED
    BY <1>4, <2>1 DEF dedupeEvents
<1>5. CASE r.type = "created" => \E i \in 1..Len(eventLog) : eventLog[i].key = r.key
  BY <1>1, <1>2, <1>4, <1>5, FinishedKept
<1> QED
  BY <1>3, <1>5

\* The task ledger is safe, whoever shares it.
THEOREM LedgerIsSafe == LedgerSpec => LedgerSafe
<1>1. LedgerInit => LedgerInv
  BY LedgerInitInv
<1>2. LedgerInv /\ [LedgerNext]_ledgerVars => LedgerInv'
  BY LedgerInvKept
<1>3. LedgerInv => LedgerTypeOK /\ OneHolderOfLock /\ ToldIsShown /\ FileInItsPlace
  <2> SUFFICES ASSUME LedgerInv PROVE LedgerTypeOK /\ OneHolderOfLock /\ ToldIsShown /\ FileInItsPlace
    OBVIOUS
  <2> USE DEF LedgerInv
  <2>1. LedgerTypeOK
    BY DEF LedgerTypes, Ageing, LedgerTypeOK
  <2>2. OneHolderOfLock
    BY DEF Exclusive, LockKept, Ageing, LedgerTypes, OneHolderOfLock
  <2>3. FileInItsPlace
    BY DEF Exclusive, TaskPlaced, PlaceAt, FileInItsPlace
  <2>4. ToldIsShown
    BY DEF Exclusive, ToldIsShown
  <2> QED
    BY <2>1, <2>2, <2>3, <2>4
<1>4. LedgerInv /\ [LedgerNext]_ledgerVars =>
        [~robbed /\ Len(eventLog') > Len(eventLog) /\ eventLog'[Len(eventLog')].type = "claimed"
           => ownersFromEvents(eventLog) \in {NoOwner, eventLog'[Len(eventLog')].owner}]_ledgerVars
  <2> SUFFICES ASSUME LedgerInv, [LedgerNext]_ledgerVars, ~robbed, Len(eventLog') > Len(eventLog), eventLog'[Len(eventLog')].type = "claimed"
               PROVE  ownersFromEvents(eventLog) \in {NoOwner, eventLog'[Len(eventLog')].owner}
    OBVIOUS
  <2>1. eventLog \in Seq(LedgerEvents) /\ eventLog' # eventLog
    BY DEF LedgerInv, LedgerTypes
  <2>2. PICK r \in LedgerEvents : eventLog' = Append(eventLog, r) /\ (~robbed /\ r.type = "claimed" => ownersFromEvents(eventLog) \in {NoOwner, r.owner})
    BY <2>1, LogGrows
  <2>3. eventLog'[Len(eventLog')] = r
    BY <2>1, <2>2
  <2> QED
    BY <2>2, <2>3
<1>5. LedgerInv /\ [LedgerNext]_ledgerVars =>
        [eventLog' # eventLog /\ isTerminal(BuildProjection(eventLog).status) =>
           \/ isTerminal(BuildProjection(eventLog').status)
           \/ LET last == eventLog'[Len(eventLog')]
              IN last.type = "created" /\ \A i \in 1..Len(eventLog) : eventLog[i].key # last.key]_ledgerVars
  BY StayFinished
<1> QED
  BY <1>1, <1>2, <1>3, <1>4, <1>5, PTL DEF LedgerSpec, LedgerSafe, ClaimsAgree, FinishedStays
=============================================================================
