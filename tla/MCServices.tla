------------------------------ MODULE MCServices ------------------------------
(* Four services around the core: the consent to plugins, the browser's       *)
(* sessions, what is seen of one, and a batch of input to it.  An initial     *)
(* state chooses, since they share no step; the choices a part makes in its   *)
(* initial states are made for it alone.  Nothing tells the browser's agents  *)
(* or the consoles apart.                                                     *)
EXTENDS PluginConsent, BrowserSessions, BrowserView, InputBatch, TLC

CONSTANTS v1, v2, a1, a2

MCDeclares == (v1 :> {a1}) @@ (v2 :> {a1, a2})
MCSymmetry == Permutations(Agents) \cup Permutations(Consoles)

VARIABLE part

MCInit ==
  /\ part \in {"consent", "sessions", "view", "input"}
  /\ ConsentInit /\ BrowserInit /\ ViewInit /\ InputInit
  /\ part # "consent" => deployment = [p \in Plugins |-> NoEntry]
  /\ part # "input" => pressed = {}
MCNext ==
  \/ part = "consent" /\ ConsentNext /\ UNCHANGED <<part, browserVars, viewVars, inputVars>>
  \/ part = "sessions" /\ BrowserNext /\ UNCHANGED <<part, consentVars, viewVars, inputVars>>
  \/ part = "view" /\ ViewNext /\ UNCHANGED <<part, consentVars, browserVars, inputVars>>
  \/ part = "input" /\ InputNext /\ UNCHANGED <<part, consentVars, browserVars, viewVars>>
MCSpec == MCInit /\ [][MCNext]_<<part, consentVars, browserVars, viewVars, inputVars>>
===============================================================================
