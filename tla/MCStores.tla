------------------------------- MODULE MCStores -------------------------------
(* Four stores that several processes or requests share: the plugin trust     *)
(* list, one digest of the package cache, one task of the task ledger, and    *)
(* the session rows.  An initial state chooses, since they share no step.     *)
(* The trust list's second document leaves out what the first revoked.        *)
(* Nothing tells the processes of the trust list apart, nor those of the      *)
(* ledger or two of the cache's users, which go by the same names.  The       *)
(* ledger's part does not look beyond a lock that was taken from a process at *)
(* work.                                                                      *)
EXTENDS TrustList, PackageCache, TaskLedger, SessionRows, TLC

CONSTANTS d1, d2, k1, k2, o1, o2, m1

MCSerial == (d1 :> 1) @@ (d2 :> 2)
MCRevokedIn == (d1 :> {k1}) @@ (d2 :> {k2})
MCKeysIn == (d1 :> {k1, k2}) @@ (d2 :> {k1, k2})

Creates == [type |-> "created", owner |-> NoOwner, status |-> "planned", key |-> 1]
Claims(o, k) == [type |-> "claimed", owner |-> o, status |-> "", key |-> k]
Finishes == [type |-> "status", owner |-> NoOwner, status |-> "done", key |-> 4]
Replans == [type |-> "status", owner |-> NoOwner, status |-> "planned", key |-> 5]
MCLedgerEvents == {Creates, Claims(o1, 2), Claims(o2, 3), Finishes, Replans}
MCOldLogs == {<<Creates>>, <<Creates, Claims(o1, 2)>>}

MCSymmetry == Permutations(Procs)

VARIABLE part

\* One ledger for the other parts, so that they are not explored for each; an
\* owner index is lost where there is a claim in it to lose.
MCInit ==
  /\ part \in {"trust", "packages", "ledger", "sessions"}
  /\ TrustInit /\ CacheInit /\ LedgerInit /\ SessionsInit
  /\ part # "ledger" => eventLog = <<Creates>>
  /\ owners = Lost => Len(eventLog) > 1

\* Nothing happens between the begin of a call to the ledger and its first try
\* for the lock: beginning it later comes to the same.
Prompt == \A w \in Writers : call[w].at = "create" /\ call[w].job # "follow" => call'[w] # call[w]

\* BOUND: one bare rebuild at a time; a status is set back only on a task that
\* was finished; of what the log holds already the creation alone is asked
\* again.
Asked(r) == \E i \in 1..Len(eventLog) : eventLog[i] = r
Apt(r) == (r \in {Creates, Replans} => Asked(Finishes)) /\ (r # Creates => ~Asked(r))
Late == \A w \in Writers :
  call[w].at = "idle" /\ call'[w].at = "create" /\ call'[w].job = "append" => Apt(call'[w].event)
OneRebuild == \A v, w \in Writers : call'[v].job = "rebuild" /\ call'[w].job = "rebuild" => v = w

MCNext ==
  \/ part = "trust" /\ TrustNext /\ UNCHANGED <<part, cacheVars, ledgerVars, sessionVars>>
  \/ part = "packages" /\ CacheNext /\ UNCHANGED <<part, trustVars, ledgerVars, sessionVars>>
  \/ part = "ledger" /\ ~robbed /\ LedgerNext /\ Prompt /\ Late /\ OneRebuild
     /\ UNCHANGED <<part, trustVars, cacheVars, sessionVars>>
  \/ part = "sessions" /\ SessionsNext /\ UNCHANGED <<part, trustVars, cacheVars, ledgerVars>>
MCSpec == MCInit /\ [][MCNext]_<<part, trustVars, cacheVars, ledgerVars, sessionVars>>
=============================================================================
