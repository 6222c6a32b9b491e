------------------------------ MODULE MCAgents ------------------------------
(* What an agent is given to work with; an initial state chooses the part.    *)
(*  - scopes: delegations below a task, to clones and to configured agents;   *)
(*  - exchange: one task's rounds with its model, with and without a history. *)
(*  - skills: syncs, installations and sweeps below tasks that select and list. *)
EXTENDS Scopes, Conversation, Skills

MCAgentsOf == [a1 |-> [denied |-> {"write"}, sound |-> TRUE], a2 |-> [denied |-> {}, sound |-> FALSE],
  a3 |-> [denied |-> {"plug"}, sound |-> TRUE]]
Spec(a, r, t) == [agent |-> a, role |-> r, toolsets |-> t]
MCSingles == {Spec("none", "", {}), Spec("none", "", {"plug", "write"}), Spec("none", "orchestrator", {"delegate_task"}),
  Spec("a1", "", {}), Spec("a1", "leaf", {"write", "plug"}), Spec("a2", "", {}), Spec("a1", "orchestrator", {}),
  Spec("ghost", "", {}), Spec("a3", "", {"read", "plug"})}
MCBatches == {<<s>> : s \in MCSingles} \cup {<<Spec("none", "", {"plug"}), Spec("a1", "", {"write"})>>,
  <<Spec("none", "", {}), Spec("a3", "", {})>>, <<Spec("a1", "", {}), Spec("ghost", "", {})>>}

C(t, l) == [tool |-> t, loads |-> l]
MCAsks == [reads |-> <<C("read", <<>>), C("read", <<>>)>>, plugs |-> <<C("plug", <<>>), C("load", <<"c1">>)>>,
  loads |-> <<C("load", <<"c1", "c2">>), C("load", <<"c3", "x">>)>>]
MCHistory == {<<>>, <<User("old"), Msg("assistant", "reads", 0, <<>>), Msg("tool", "reads", 1, <<>>), Msg("tool", "reads", 2, <<>>),
  Msg("assistant", Answer, 0, <<>>)>>}

Pk(i, v, b) == [id |-> i, ver |-> v, status |-> "enabled", bad |-> b, summary |-> TRUE]
MCPackages == [p1 |-> Pk("s1", 1, "no"), p2 |-> Pk("s1", 2, "body"), p3 |-> Pk("s1", 3, "no")]
MCDirs == <<"m2", "s1">>
MCSources == [u1 |-> {"p1", "p2"}]
MCIndex == <<[id |-> "s1", ver |-> 2, pkg |-> "p2"], [id |-> "m2", ver |-> 3, pkg |-> "p3"]>>
MCOwnSkills == {{}, {<<"s1", 2>>}}

VARIABLE part

Still == (part # "exchange" => taskStart = 1 /\ resp = Answer) /\ (part # "skills" => ops = 0)
MCInit == part \in {"scopes", "exchange", "skills"} /\ ScopesInit /\ ConversationInit /\ SkillsInit /\ Still
  /\ (part # "scopes" => ~plug /\ tree[1].agent = "none")
MCNext ==
  \/ part = "scopes" /\ ScopesNext /\ UNCHANGED <<part, convVars, skillVars>>
  \/ part = "exchange" /\ ConversationNext /\ UNCHANGED <<part, scopeVars, skillVars>>
  \/ part = "skills" /\ SkillsNext /\ UNCHANGED <<part, scopeVars, convVars>>
MCSpec == MCInit /\ [][MCNext]_<<part, scopeVars, convVars, skillVars>>
===============================================================================
