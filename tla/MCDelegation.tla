----------------------------- MODULE MCDelegation -----------------------------
(* Work inside the service and what is told of it; an initial state chooses.  *)
(*  - delegation: a task with two children in a batch and one in the          *)
(*    background;                                                             *)
(*  - feed: one event stream against three publishers, the close of the bus   *)
(*    and a rotation;                                                         *)
(*  - pages: a reader of a session's growing log;                             *)
(*  - calls: a sensitive call and a wrapped call of a plugin's tool in one    *)
(*    round, in every mode, through one exchange of the plugin.               *)
EXTENDS Delegation, EventFeed, ToolCalls

CONSTANTS t1, b1, b2, g1

MCKindOf == [l \in Legs |-> CASE l \in {b1, b2} -> "batch" [] l = g1 -> "background" [] OTHER -> "task"]
MCParentOf == [l \in Legs |-> t1]

MCCallTool == <<"write", "plug">>
MCDisabledSets == {{}, {"read"}}

VARIABLE part

\* A part that does not run has one initial state.
Still ==
  part # "calls" => mode = "auto" /\ disabled = {} /\ plugin.answer = "allow" /\ ~plugin.sensitive
MCInit == part \in {"delegation", "feed", "pages", "calls"} /\ DelegationInit /\ FeedInit /\ ToolCallsInit /\ Still
MCNext ==
  \/ part = "delegation" /\ DelegationNext /\ UNCHANGED <<part, feedVars, toolVars>>
  \/ part = "feed" /\ BusNext /\ UNCHANGED <<part, delegationVars, toolVars>>
  \/ part = "pages" /\ PageNext /\ UNCHANGED <<part, delegationVars, toolVars>>
  \/ part = "calls" /\ ToolCallsNext /\ UNCHANGED <<part, delegationVars, feedVars>>
MCSpec ==
  /\ MCInit /\ [][MCNext]_<<part, delegationVars, feedVars, toolVars>>
  /\ (part = "delegation" => DelegationFairness) /\ (part = "feed" => FeedFairness)
===============================================================================
