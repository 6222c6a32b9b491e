---------------------------- MODULE PackageCache ----------------------------
(***************************************************************************)
(* One digest of the plugin package cache (internal/plugin/fetch) under    *)
(* processes that install its package, load it and remove it: an operator, *)
(* or a load that finds the package untrusted.  A package is unpacked into *)
(* a staging directory and renamed into place; a lock file keeps those who *)
(* change the entry apart, while those who look at it take no lock.        *)
(***************************************************************************)
EXTENDS Naturals, FiniteSets

CONSTANTS
  Users,    \* processes over one cache root
  Open,     \* no lock file
  Abandoned \* the lock file of a process that is gone

ASSUME CacheAssumption == Open \notin Users /\ Abandoned \notin Users /\ Open # Abandoned

VARIABLES
  entry,    \* the digest's directory: "none", "half" or "whole"
  digestLock,
  staging,  \* processes with a staging directory
  strays,   \* staging directories that processes left behind
  stage,    \* where each process is
  cleared,  \* processes that looked at the entry before a removal began
  cut       \* a removal stopped half-way

cacheVars == <<entry, digestLock, staging, strays, stage, cleared, cut>>

CacheInit ==
  /\ entry = "none" /\ digestLock = Open /\ staging = {} /\ strays = {}
  /\ stage = [u \in Users |-> "out"] /\ cleared = {} /\ cut = FALSE

Go(u, next) == stage' = [stage EXCEPT ![u] = next]

\* A slip of isCompletePackage: a directory is a package.
Bug_isCompletePackage(e) == e # "none"

isCompletePackage(e) == e = "whole"

\* A look that finds the package, and what is done with it.
Found(u) == Go(u, "got") /\ cleared' = cleared \ {u}

(***************************************************************************)
(* remoteDir: a hit, or a download and Put.                                *)
(***************************************************************************)
Has(u) ==
  /\ stage[u] = "out"
  /\ IF isCompletePackage(entry) THEN Found(u) ELSE Go(u, "fetch") /\ UNCHANGED cleared
  /\ UNCHANGED <<entry, digestLock, staging, strays, cut>>

\* The download, and Put's own look before it unpacks.
Fetch(u) ==
  /\ stage[u] = "fetch"
  /\ \/ Go(u, "out") /\ UNCHANGED <<staging, cleared>>
     \/ isCompletePackage(entry) /\ Found(u) /\ UNCHANGED staging
     \/ /\ ~isCompletePackage(entry)
        /\ staging' = staging \cup {u} /\ Go(u, "unpack") /\ UNCHANGED cleared
  /\ UNCHANGED <<entry, digestLock, strays, cut>>

Unpack(u) ==
  /\ stage[u] = "unpack"
  /\ \/ Go(u, "lock") /\ UNCHANGED staging
     \/ staging' = staging \ {u} /\ Go(u, "out")
  /\ UNCHANGED <<entry, digestLock, strays, cleared, cut>>

\* Wait for the digest's lock, for Put and for Remove; the wait is bounded.
lockDigestDir(u) ==
  /\ stage[u] \in {"lock", "lockToRemove"}
  /\ \/ /\ digestLock = Open /\ digestLock' = u
        /\ Go(u, IF stage[u] = "lock" THEN "rename" ELSE "stat") /\ UNCHANGED staging
     \/ /\ digestLock # Open
        /\ Go(u, "out") /\ staging' = staging \ {u} /\ UNCHANGED digestLock
  /\ UNCHANGED <<entry, strays, cleared, cut>>

\* commit.  A rename onto a directory with something in it fails.
commit(u) ==
  /\ stage[u] = "rename"
  /\ \/ entry # "whole" /\ entry' = "whole" /\ staging' = staging \ {u} /\ Go(u, "unlock")
     \/ entry # "none" /\ Go(u, "check") /\ UNCHANGED <<entry, staging>>
     \/ Go(u, "fail") /\ UNCHANGED <<entry, staging>>   \* nothing is there, and it fails
  /\ UNCHANGED <<digestLock, strays, cleared, cut>>

\* Somebody else's package is this one; half of one is replaced.
commitOver(u) ==
  /\ stage[u] = "check"
  /\ IF isCompletePackage(entry) THEN Go(u, "unlock") ELSE Go(u, "replace")
  /\ UNCHANGED <<entry, digestLock, staging, strays, cleared, cut>>

replace(u) ==
  /\ \/ /\ stage[u] = "replace"
        /\ \/ entry' = "none" /\ Go(u, "renameAgain")
           \/ Go(u, "fail") /\ UNCHANGED entry
        /\ UNCHANGED staging
     \/ /\ stage[u] = "renameAgain"
        /\ \/ entry # "whole" /\ entry' = "whole" /\ staging' = staging \ {u} /\ Go(u, "unlock")
           \/ Go(u, "fail") /\ UNCHANGED <<entry, staging>>
  /\ UNCHANGED <<digestLock, strays, cleared, cut>>

\* The lock file goes, or it stays and the Put counts as failed.
unlockDigest(u) ==
  /\ stage[u] \in {"unlock", "fail"}
  /\ \/ /\ stage[u] = "unlock" /\ digestLock' = Open /\ Found(u)
     \/ /\ stage[u] = "fail" /\ digestLock' = Open /\ Go(u, "out") /\ UNCHANGED cleared
     \/ digestLock' = Abandoned /\ Go(u, "out") /\ UNCHANGED cleared
  /\ staging' = staging \ {u}
  /\ UNCHANGED <<entry, strays, cut>>

(***************************************************************************)
(* What is done with a package: it loads, or it does not, or it is not     *)
(* trusted and is evicted.                                                 *)
(***************************************************************************)
Load(u) ==
  /\ stage[u] = "got" /\ Go(u, "out")
  /\ UNCHANGED <<entry, digestLock, staging, strays, cleared, cut>>

EvictUntrusted(u) ==
  /\ stage[u] = "got" /\ isCompletePackage(entry) /\ Go(u, "look")
  /\ UNCHANGED <<entry, digestLock, staging, strays, cleared, cut>>

\* `agent plugins cache remove`, or prune.
Ask(u) ==
  /\ stage[u] = "out" /\ Go(u, "look")
  /\ UNCHANGED <<entry, digestLock, staging, strays, cleared, cut>>

\* Remove: a look before the lock, and one under it.
look(u) ==
  /\ stage[u] = "look"
  /\ Go(u, IF entry = "none" THEN "out" ELSE "lockToRemove")
  /\ UNCHANGED <<entry, digestLock, staging, strays, cleared, cut>>

\* Its files go one by one, the directory last; it may stop on the way.
RemovePackage(u) ==
  /\ \/ /\ stage[u] = "stat"
        /\ Go(u, IF entry = "none" THEN "removed" ELSE "delete") /\ UNCHANGED <<entry, cleared, cut>>
     \/ /\ stage[u] = "delete"
        /\ entry' = "half" /\ cleared' = Users
        /\ \/ Go(u, "deleteRest") /\ UNCHANGED cut
           \/ Go(u, "removed") /\ cut' = TRUE
     \/ /\ stage[u] = "deleteRest"
        /\ entry' = "none" /\ Go(u, "removed") /\ UNCHANGED <<cleared, cut>>
  /\ UNCHANGED <<digestLock, staging, strays>>

releaseDigest(u) ==
  /\ stage[u] = "removed"
  /\ digestLock' \in {Open, Abandoned} /\ Go(u, "out")
  /\ UNCHANGED <<entry, staging, strays, cleared, cut>>

Die(u) ==
  /\ stage[u] # "out" /\ Go(u, "out")
  /\ digestLock' = IF digestLock = u THEN Abandoned ELSE digestLock
  /\ staging' = staging \ {u} /\ strays' = IF u \in staging THEN strays \cup {u} ELSE strays
  /\ cut' = (cut \/ stage[u] \in {"deleteRest", "replace"})
  /\ UNCHANGED <<entry, cleared>>

\* The operator, as the error of a lock that stays asks.
DropLock ==
  /\ digestLock = Abandoned /\ digestLock' = Open
  /\ UNCHANGED <<entry, staging, strays, stage, cleared, cut>>

\* Staging directories older than any download.
RemoveStaleStaging ==
  /\ strays # {} /\ strays' = {}
  /\ UNCHANGED <<entry, digestLock, staging, stage, cleared, cut>>

CacheNext ==
  \/ \E u \in Users :
       \/ Has(u) \/ Fetch(u) \/ Unpack(u) \/ lockDigestDir(u)
       \/ commit(u) \/ commitOver(u) \/ replace(u) \/ unlockDigest(u)
       \/ Load(u) \/ EvictUntrusted(u) \/ Ask(u) \/ look(u) \/ RemovePackage(u) \/ releaseDigest(u) \/ Die(u)
  \/ DropLock \/ RemoveStaleStaging

CacheSpec == CacheInit /\ [][CacheNext]_cacheVars

(***************************************************************************)
(* Properties.                                                             *)
(***************************************************************************)
Inside == {"rename", "check", "replace", "renameAgain", "unlock", "fail",
           "stat", "delete", "deleteRest", "removed"}

\* Types; a lock file named for a process is one whose process is at work.
CacheTypeOK ==
  /\ digestLock \in Users => stage[digestLock] \in Inside
  /\ entry \in {"none", "half", "whole"} /\ digestLock \in Users \cup {Open, Abandoned}
  /\ staging \subseteq Users /\ strays \subseteq Users /\ cleared \subseteq Users /\ cut \in BOOLEAN
  /\ \A u \in Users : stage[u] \in Inside \cup {"out", "fetch", "unpack", "lock", "lockToRemove", "got", "look"}

\* Half a package is one being removed, or the rest of a removal that stopped:
\* no install leaves one behind, whatever fails and whoever dies.
HalfIsARemoval == entry = "half" /\ ~cut => \E u \in Users : stage[u] = "deleteRest"

\* A directory that an install or a look has handed out holds the whole
\* package until somebody begins to remove it.
HandedOutWhole == \A u \in Users : stage[u] = "got" => entry = "whole" \/ u \in cleared

(* Nobody is handed half a package: an install leaves a whole one or none, and
   only a removal that was cut off leaves half, whoever else installs, looks
   and removes at once, and wherever a process dies. *)
CacheSafe ==
  /\ [](CacheTypeOK /\ HalfIsARemoval /\ HandedOutWhole)
===============================================================================
