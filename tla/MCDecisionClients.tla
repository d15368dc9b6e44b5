------------------------- MODULE MCDecisionClients -------------------------
(***************************************************************************)
(* Two people decide one order, from the UI and from the command line, and *)
(* a raw signal may come as well.  The order is any that takes a path of   *)
(* its own: no percentage, one at the threshold, one above it among others; *)
(* forced gate; gate disabled; both modes; both timeout policies; with and *)
(* without the incident leg, and a history from before the patch.          *)
(***************************************************************************)
EXTENDS DecisionClients

Request(P, hitl, mode, policy, force, incidents, patch) ==
    [percents |-> P, discount_threshold |-> 15, hitl_enabled |-> hitl, hitl_mode |-> mode,
     on_timeout |-> policy, force_hitl |-> force, open_incident |-> incidents, patched |-> patch]

MCRequests ==
    {Request({10, 20}, TRUE, m, p, FALSE, TRUE, TRUE) :
        m \in {"inline", "child"}, p \in {"reject", "approve"}}
    \cup {Request({}, TRUE, "inline", "reject", TRUE, TRUE, FALSE),
          Request({15}, TRUE, "child", "reject", FALSE, TRUE, TRUE),
          Request({20}, FALSE, "inline", "reject", TRUE, FALSE, TRUE)}

MCPipeline   == <<"fulfillment">>
MCOrderCalls == {ToOrder(u) : u \in Uis \cup Clis} \cup Signals
MCGateCalls  == {ToGate(u) : u \in Uis \cup Clis}
=============================================================================
