------------------------------ MODULE MCPlugins ------------------------------
(* The instance pool of one plugin, or the loader of three: an initial state  *)
(* chooses, since they share no step.  Of the packages, two are versions of   *)
(* one plugin: the first provides a service another plugin claims too, the    *)
(* second a tool a third plugin has.  The calls are alike: q1 is the one      *)
(* whose instance may not close, and of the others q2 comes first.            *)
EXTENDS PluginPool, PluginLoader, TLC

CONSTANTS a, b, c, a1, a2, b1, c1, q1, q2, q3

MCOrder == <<b, a, c>>
MCNameOf == (a1 :> a) @@ (a2 :> a) @@ (b1 :> b) @@ (c1 :> c)
MCToolsOf == (a1 :> {"ta"}) @@ (a2 :> {"ta", "tc"}) @@ (b1 :> {"tb"}) @@ (c1 :> {"tc"})
MCServicesOf == (a1 :> {"s"}) @@ (a2 :> {}) @@ (b1 :> {"s"}) @@ (c1 :> {})
MCRequires == (a1 :> {"host"}) @@ (a2 :> {}) @@ (b1 :> {"ta"}) @@ (c1 :> {"s"})
MCKeyOf == (a1 :> "k1") @@ (a2 :> "k2") @@ (b1 :> "k1") @@ (c1 :> "k2")

Named == (at[q3] # "out" => at[q2] # "out") /\ failed \subseteq {q1}

VARIABLE part

MCInit == part \in {"pool", "loader"} /\ PoolInit /\ LoaderInit
MCNext ==
  \/ part = "pool" /\ PoolNext /\ Named' /\ UNCHANGED <<part, loaderVars>>
  \/ part = "loader" /\ LoaderNext /\ UNCHANGED <<part, poolVars>>
MCSpec == MCInit /\ [][MCNext]_<<part, poolVars, loaderVars>> /\ PoolFairness
=============================================================================
