--------------------------- MODULE OrderWorkflow ---------------------------
(***************************************************************************)
(* One order: src/app/workflows/order_workflow.py, with the approval child *)
(* it starts in child mode (ApprovalWorkflow, instantiated below).  The    *)
(* pipeline's stages and the incident call are each one step with every    *)
(* outcome the retry policy can leave: NodeActivity and IncidentLeg model  *)
(* what happens inside them.                                               *)
(*                                                                         *)
(* As in ApprovalWorkflow, a message handler is one step and so is `run`   *)
(* between two awaits.                                                     *)
(***************************************************************************)
EXTENDS Integers, Sequences, FiniteSetsExt

CONSTANTS
    Requests,    \* the OrderWorkflowInputs an order may be started with
    Pipeline,    \* multi_agent.pipeline: the roles, in order
    OrderCalls,  \* messages humans send to the order's own id
    GateCalls,   \* messages humans send to "<order>-approval"
    NoCall       \* "nobody"

ASSUME OrderAssumption ==
    /\ Requests \subseteq [percents : SUBSET Nat, discount_threshold : Nat,
                           hitl_enabled : BOOLEAN, hitl_mode : {"inline", "child"},
                           on_timeout : {"reject", "approve"}, force_hitl : BOOLEAN,
                           open_incident : BOOLEAN, patched : BOOLEAN]
    /\ \A r \in Requests : IsFiniteSet(r.percents)
    /\ Pipeline \in Seq({"intake", "inventory", "pricing", "fulfillment", "account", "supervisor"})
    /\ Pipeline # <<>>
    /\ OrderCalls \cap GateCalls = {}
    /\ NoCall \notin OrderCalls \cup GateCalls

VARIABLES
    req,       \* the input: the percentages its text mentions, the gate's options,
               \* open_incident = servicenow_a2a_url and open_incident_on_risk,
               \* patched = what workflow.patched answers for this history
    status,    \* the execution's status on the server
    pc,        \* the await at which run() stands
    stage,     \* stages of the pipeline completed
    risk,      \* detect_risk of the fulfillment stage's text
    decision,  \* _decided, _approver, _via
    pending,   \* _pending is set
    calls,     \* the messages addressed to the order
    approval,  \* out["approval"], Undecided until run() sets it
    incident,  \* out["incident"]
    childStatus, childReq, childDecision, childCalls, childResult

orderVars == <<req, status, pc, stage, risk, decision, pending, calls, approval, incident>>
childVars == <<childStatus, childReq, childDecision, childCalls, childResult>>
vars == <<orderVars, childVars>>

Child == INSTANCE ApprovalWorkflow WITH
    Calls <- GateCalls, status <- childStatus, policy <- req.on_timeout, req <- childReq,
    decision <- childDecision, calls <- childCalls, result <- childResult

Undecided          == Child!Undecided
HumanDecided(c, a) == Child!HumanDecided(c, a)
TimeoutDecided(p)  == Child!TimeoutDecided(p)
AutoApproved       == [approved |-> TRUE, by |-> NoCall, via |-> "auto"]

-----------------------------------------------------------------------------

\* parse_discount: the highest percentage mentioned; needs_approval: strictly above.
NeedsApproval == req.percents # {} /\ Max(req.percents) > req.discount_threshold

Required == req.hitl_enabled /\ (NeedsApproval \/ req.force_hitl)

IncidentDue == req.patched /\ req.open_incident /\ risk

Init ==
    /\ req \in Requests
    /\ status = "running"
    /\ pc = "pipeline"
    /\ stage = 0
    /\ risk = FALSE
    /\ decision = Undecided
    /\ pending = FALSE
    /\ calls = [c \in OrderCalls |-> Child!Unsent]
    /\ approval = Undecided
    /\ incident = "none"
    /\ Child!Init

-----------------------------------------------------------------------------
(* Messages addressed to the order. *)

Send(c, kind, approved) ==
    /\ calls[c].state = "idle"
    /\ calls' = [calls EXCEPT ![c] = [kind |-> kind, approved |-> approved, state |-> "sent"]]
    /\ UNCHANGED <<req, status, pc, stage, risk, decision, pending, approval, incident, childVars>>

Answer(c, a) == calls' = [calls EXCEPT ![c].state = a]

\* Fault: the last decision wins.
LastWins(c) == HumanDecided(c, calls[c].approved)

\* _record: first wins, whether or not a gate is open.
Record(c) ==
    IF decision = Undecided THEN HumanDecided(c, calls[c].approved) ELSE decision

\* Fault: the validator forgets that somebody decided.
AcceptsDecided == pending

\* _validate_decide passes.
Accepts == decision = Undecided /\ pending

HandleSignal(c) ==
    /\ status = "running"
    /\ calls[c].state = "sent" /\ calls[c].kind = "signal"
    /\ decision' = Record(c)
    /\ Answer(c, "handled")
    /\ UNCHANGED <<req, status, pc, stage, risk, pending, approval, incident, childVars>>

HandleUpdate(c) ==
    /\ status = "running"
    /\ calls[c].state = "sent" /\ calls[c].kind = "update"
    /\ \/ Accepts /\ decision' = Record(c) /\ Answer(c, "confirmed")
       \/ ~Accepts /\ UNCHANGED decision /\ Answer(c, "rejected")
    /\ UNCHANGED <<req, status, pc, stage, risk, pending, approval, incident, childVars>>

NotFound(c) ==
    /\ status # "running"
    /\ calls[c].state = "sent"
    /\ Answer(c, "not_found")
    /\ UNCHANGED <<req, status, pc, stage, risk, decision, pending, approval, incident, childVars>>

-----------------------------------------------------------------------------
(* run() *)

\* run() ends and the server closes the execution.
Close(s) == status' = s /\ pc' = "closed"

\* A stage's activity completes; the fulfillment stage's text is what is searched for risk.
StageCompletes ==
    /\ pc = "pipeline" /\ stage < Len(Pipeline)
    /\ stage' = stage + 1
    /\ risk' \in IF Pipeline[stage + 1] = "fulfillment" THEN BOOLEAN ELSE {risk}
    /\ UNCHANGED <<req, status, pc, decision, pending, calls, approval, incident, childVars>>

\* A stage's activity has no attempt left: its failure fails the order.
StageFails ==
    /\ pc = "pipeline" /\ stage < Len(Pipeline)
    /\ Close("failed")
    /\ UNCHANGED <<req, stage, risk, decision, pending, calls, approval, incident, childVars>>

\* run() from its decision d to its next await or its end.
Proceed(d) ==
    /\ approval' = d
    /\ \/ IncidentDue /\ pc' = "incident" /\ UNCHANGED status
       \/ ~IncidentDue /\ Close("completed")

\* Fault: _pending is set before the mode is looked at.
PendingInBothModes ==
    /\ pc = "pipeline" /\ stage = Len(Pipeline)
    /\ \/ Required /\ pc' = (IF req.hitl_mode = "inline" THEN "gate" ELSE "await_child")
          /\ pending' = TRUE /\ UNCHANGED <<status, approval>>
       \/ ~Required /\ Proceed(AutoApproved) /\ UNCHANGED pending
    /\ UNCHANGED <<req, stage, risk, decision, calls, incident, childVars>>

\* The graph has returned: open the gate where hitl_mode puts it, or go on.
PipelineDone ==
    /\ pc = "pipeline" /\ stage = Len(Pipeline)
    /\ \/ /\ Required /\ req.hitl_mode = "inline"
          /\ pc' = "gate" /\ pending' = TRUE
          /\ UNCHANGED <<status, approval>>
       \/ /\ Required /\ req.hitl_mode = "child"
          /\ pc' = "await_child"
          /\ UNCHANGED <<status, pending, approval>>
       \/ ~Required /\ Proceed(AutoApproved) /\ UNCHANGED pending
    /\ UNCHANGED <<req, stage, risk, decision, calls, incident, childVars>>

\* Fault: the timeout branch is taken whatever was decided.
ResolvedByPolicy ==
    /\ pc = "gate" /\ decision # Undecided
    /\ pending' = FALSE
    /\ Proceed(TimeoutDecided(req.on_timeout))
    /\ UNCHANGED <<req, stage, risk, decision, calls, incident, childVars>>

\* The inline gate's wait_condition returns: somebody decided.
GateResolved ==
    /\ pc = "gate" /\ decision # Undecided
    /\ pending' = FALSE
    /\ Proceed(decision)
    /\ UNCHANGED <<req, stage, risk, decision, calls, incident, childVars>>

\* Fault: there is no timer.
NoTimer == FALSE

\* The inline gate's timer fires first.
GateTimesOut ==
    /\ pc = "gate" /\ decision = Undecided
    /\ pending' = FALSE
    /\ decision' = TimeoutDecided(req.on_timeout)
    /\ Proceed(TimeoutDecided(req.on_timeout))
    /\ UNCHANGED <<req, stage, risk, calls, incident, childVars>>

\* The server starts the approval child.
StartChild ==
    /\ pc = "await_child"
    /\ UNCHANGED orderVars
    /\ Child!Start

\* Fault: what was decided at the parent goes before the child's result.
ParentDecides ==
    /\ pc = "await_child" /\ childStatus = "completed"
    /\ Proceed(IF decision # Undecided THEN decision ELSE childResult)
    /\ UNCHANGED <<req, stage, risk, decision, pending, calls, incident, childVars>>

\* execute_child_workflow returns the child's result, and nothing else counts.
ChildCompleted ==
    /\ pc = "await_child" /\ childStatus = "completed"
    /\ Proceed(childResult)
    /\ UNCHANGED <<req, stage, risk, decision, pending, calls, incident, childVars>>

\* execute_child_workflow raises: the child is not retried and run() does not catch.
ChildFailed ==
    /\ pc = "await_child" /\ childStatus \in {"timed_out", "terminated"}
    /\ Close("failed")
    /\ UNCHANGED <<req, stage, risk, decision, pending, calls, approval, incident, childVars>>

\* Fault: the call's failure is not caught.
IncidentFailsOrder ==
    /\ pc = "incident"
    /\ \/ incident' = "opened" /\ Close("completed")
       \/ incident' = "error" /\ Close("failed")
    /\ UNCHANGED <<req, stage, risk, decision, pending, calls, approval, childVars>>
\* The incident call returns, or raises and is caught: the order completes either way.
IncidentDone ==
    /\ pc = "incident"
    /\ incident' \in {"opened", "error"}
    /\ Close("completed")
    /\ UNCHANGED <<req, stage, risk, decision, pending, calls, approval, childVars>>

-----------------------------------------------------------------------------
(* The server *)

\* The order's own execution_timeout, wherever run() stands.
ExecutionTimesOut ==
    /\ status = "running"
    /\ Close("timed_out")
    /\ UNCHANGED <<req, stage, risk, decision, pending, calls, approval, incident, childVars>>

\* ParentClosePolicy.TERMINATE reaches a child that outlived its parent.
TerminateChild ==
    /\ status # "running"
    /\ UNCHANGED orderVars
    /\ Child!Terminate

ChildStep(A) == UNCHANGED orderVars /\ A

-----------------------------------------------------------------------------

Run ==
    \/ StageCompletes \/ StageFails \/ PipelineDone
    \/ GateResolved \/ GateTimesOut
    \/ ChildCompleted \/ ChildFailed
    \/ IncidentDone

Server == StartChild \/ TerminateChild

Deliver(c) == HandleSignal(c) \/ HandleUpdate(c) \/ NotFound(c)

DeliverToChild(c) ==
    ChildStep(Child!HandleSignal(c) \/ Child!HandleUpdate(c) \/ Child!NotFound(c))

System ==
    \/ Run \/ Server \/ ExecutionTimesOut
    \/ ChildStep(Child!Run) \/ ChildStep(Child!ExecutionTimesOut)
    \/ \E c \in OrderCalls : Deliver(c)
    \/ \E c \in GateCalls : DeliverToChild(c)

Humans ==
    \E k \in Child!Kinds, a \in BOOLEAN :
        \/ \E c \in OrderCalls : Send(c, k, a)
        \/ \E c \in GateCalls : ChildStep(Child!Send(c, k, a))

Next == System \/ Humans

\* A worker serves both workflows and the server starts a child it was told to; no
\* fairness for humans, the delivery of their messages nor for execution timeouts.
Fairness == WF_vars(Run) /\ WF_vars(StartChild) /\ WF_vars(ChildStep(Child!Run))

Spec == Init /\ [][Next]_vars /\ Fairness

-----------------------------------------------------------------------------

Decisions == [approved : BOOLEAN, by : OrderCalls \cup {NoCall}, via : {"", "human", "timeout"}]
Approvals == [approved : BOOLEAN, by : OrderCalls \cup GateCalls \cup {NoCall},
              via : {"", "human", "timeout", "auto"}]

\* The type invariant.
TypeOK ==
    /\ req \in Requests
    /\ status \in {"running", "completed", "failed", "timed_out"}
    /\ pc \in {"pipeline", "gate", "await_child", "incident", "closed"}
    /\ stage \in 0..Len(Pipeline)
    /\ risk \in BOOLEAN
    /\ decision \in Decisions
    /\ pending \in BOOLEAN
    /\ calls \in [OrderCalls -> Child!Message]
    /\ approval \in Approvals
    /\ incident \in {"none", "opened", "error"}
    /\ Child!TypeOK

\* A decision its sender saw confirmed, at whichever of the two ids, is the one
\* the order goes on with: no other human, timer or gate can replace it.
ConfirmedIsOutcome ==
    /\ \A c \in OrderCalls : calls[c].state = "confirmed" =>
           approval \in {Undecided, HumanDecided(c, calls[c].approved)}
    /\ \A c \in GateCalls : childCalls[c].state = "confirmed" =>
           approval \in {Undecided, HumanDecided(c, childCalls[c].approved)}

\* Nobody but the gate the request calls for settles an order: an order that needs
\* approval is never auto-approved, one that does not is never gated, and in child
\* mode what was said to the parent ("signalling the parent does nothing") or
\* decided there never leaks into the outcome.  What is settled stays so: such an order
\* never ends as failed ("keep the order resilient to the 3rd-party call").
RightAuthority ==
    approval # Undecided =>
        /\ status # "failed"
        /\ IF ~Required THEN approval = AutoApproved
           ELSE IF req.hitl_mode = "child" THEN approval = childResult /\ approval.by \notin OrderCalls
           ELSE approval = decision /\ approval.by \notin GateCalls

\* The two gates are exclusive, and the child's is open to decisions only for an
\* order that waits for it or has just been closed over it.
OneGate ==
    childStatus = "running" =>
        /\ ~pending /\ Required /\ req.hitl_mode = "child"
        /\ pc \in {"await_child", "closed"} /\ approval = Undecided

\* Every order closes, with no human answering its gate, and no gate stays open after it.
OrderCloses == <>[](status # "running" /\ childStatus # "running")

\* Inline or child, the order's gate is the abstract gate.
Gate == INSTANCE ApprovalGate WITH
    Calls <- OrderCalls \cup GateCalls,
    policy <- req.on_timeout,
    decision <- IF req.hitl_mode = "child" THEN childDecision ELSE decision,
    reported <- IF approval.via = "auto" THEN Undecided ELSE approval

ImplementsGate == Gate!GateSpec

\* What the demo UI tells a person who rejected an order (studio.js:402): "The order
\* was rejected, so the ServiceNow handoff was skipped."
RejectedSkipsServiceNow ==
    approval # Undecided /\ ~approval.approved => pc # "incident" /\ incident = "none"
=============================================================================
