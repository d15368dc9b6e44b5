---------------------------- MODULE ApprovalGate ----------------------------
(***************************************************************************)
(* What an approval gate promises, whichever workflow hosts it: at most    *)
(* one decision is ever taken, a human's or the timeout policy's, and what *)
(* the order reports is that decision.  A gate may be abandoned (its       *)
(* workflow timed out or was terminated): then it never reports.           *)
(***************************************************************************)

CONSTANTS
    Calls,   \* the decisions humans may submit, one identity per message
    NoCall   \* the approver of a decision no human took

VARIABLES
    policy,    \* "reject" or "approve": what the deadline decides
    decision,  \* the decision taken, Undecided before
    reported   \* the decision the host reports, Undecided before

gateVars == <<policy, decision, reported>>

Undecided      == [approved |-> FALSE, by |-> NoCall, via |-> ""]
HumanDecided(c, a) == [approved |-> a, by |-> c, via |-> "human"]
TimeoutDecided(p)  == [approved |-> p = "approve", by |-> NoCall, via |-> "timeout"]

GateInit ==
    /\ policy \in {"reject", "approve"}
    /\ decision = Undecided
    /\ reported = Undecided

\* The first human decision to arrive is the gate's decision.
Decide ==
    /\ decision = Undecided
    /\ \E c \in Calls, a \in BOOLEAN : decision' = HumanDecided(c, a)
    /\ UNCHANGED <<policy, reported>>

\* Only an undecided gate is decided by its policy; the host may report it at once.
Expire ==
    /\ decision = Undecided
    /\ decision' = TimeoutDecided(policy)
    /\ reported' \in {reported, TimeoutDecided(policy)}
    /\ UNCHANGED policy

Report ==
    /\ decision # Undecided
    /\ reported = Undecided
    /\ reported' = decision
    /\ UNCHANGED <<policy, decision>>

GateNext == Decide \/ Expire \/ Report

GateSpec == GateInit /\ [][GateNext]_gateVars
=============================================================================
