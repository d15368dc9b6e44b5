----------------------------- MODULE MCGraphRun -----------------------------
(***************************************************************************)
(* The default policy of three attempts; three roles, with every chaos spec  *)
(* that differs for the first, the second or no role at all; an agent with *)
(* one tool, an LLM that asks for it, for one it made up or for both, and  *)
(* a limit of three turns.                                                 *)
(***************************************************************************)
EXTENDS GraphRun

MCRoles      == <<"intake", "inventory", "pricing">>
MCTools      == <<"current_time">>
MCLlmReplies == {<<>>, <<"current_time">>, <<"made_up", "current_time">>}
MCRunSpecs   == [target : {"intake", "inventory"}, mode : Modes, attempts : {0, 2, 3}]
                    \cup {NoChaos, [target |-> "", mode |-> "permanent_error", attempts |-> 0]}
MCChaosSpecs == {ChaosFor(s, n) : s \in MCRunSpecs, n \in Nodes}
=============================================================================
