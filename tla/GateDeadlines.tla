--------------------------- MODULE GateDeadlines ---------------------------
(***************************************************************************)
(* Three clocks run over one approval gate: the gate's own timer, the      *)
(* order's execution_timeout, which started with the pipeline, and in      *)
(* child mode the child's execution_timeout of the gate plus ChildSlack.   *)
(* The server enforces the execution timeouts punctually; the gate's timer *)
(* takes effect only when a worker runs the workflow task it causes.       *)
(***************************************************************************)
EXTENDS Integers

CONSTANTS
    Executions,  \* temporal.workflow.execution_timeout_seconds a deployment may set
    Approvals,   \* hitl.approval_timeout_seconds it may set
    Overrides,   \* `--timeout` values of the order command line
    ChildSlack   \* the 300 seconds of order_workflow.py:115, in ticks

ASSUME DeadlineAssumption ==
    /\ Executions \subseteq Nat /\ Approvals \subseteq Nat /\ Overrides \subseteq Nat
    /\ ChildSlack \in Nat

VARIABLES
    execution,   \* the order's execution timeout
    configured,  \* the approval timeout of the settings
    approval,    \* the approval timeout the order was started with
    mode,        \* hitl_mode
    now,         \* ticks since the order started
    phase,       \* what the order is doing, or how it ended
    gateAt,      \* when the pipeline ended and the gate was asked for
    waitingAt,   \* when the gate's timer started
    lag          \* ticks for which a workflow task was due and no worker ran it

vars == <<execution, configured, approval, mode, now, phase, gateAt, waitingAt, lag>>
input == <<execution, configured, approval, mode>>

\* AppSettings._validate_timeouts; the command line's override is not validated.
Validated(e, a) == a < e

Init ==
    /\ execution \in Executions
    /\ configured \in Approvals
    /\ Validated(execution, configured)
    /\ approval \in {configured} \cup Overrides
    /\ mode \in {"inline", "child"}
    /\ now = 0
    /\ phase = "pipeline"
    /\ gateAt = 0
    /\ waitingAt = 0
    /\ lag = 0

-----------------------------------------------------------------------------

AtGate       == phase \in {"opening", "waiting"}
Live         == phase = "pipeline" \/ AtGate
TimerDueLate == phase = "waiting" /\ now > waitingAt + approval        \* fault: a tick late
TimerDue     == phase = "waiting" /\ now >= waitingAt + approval
TaskDue      == phase = "opening" \/ TimerDue
OrderExpires == now >= execution
NoSlack      == mode = "child" /\ AtGate /\ now >= gateAt + approval   \* fault: no slack
ChildExpires == mode = "child" /\ AtGate /\ now >= gateAt + approval + ChildSlack

\* Time passes, but not beyond what the server enforces itself.
Tick ==
    /\ Live /\ ~OrderExpires /\ ~ChildExpires
    /\ now' = now + 1
    /\ lag' = IF TaskDue THEN lag + 1 ELSE lag
    /\ UNCHANGED <<input, phase, gateAt, waitingAt>>

\* Fault: the gate is dated back by its window.
PipelineEndsEarly ==
    /\ phase = "pipeline"
    /\ gateAt' = now - approval
    /\ \/ mode = "inline" /\ phase' = "waiting" /\ waitingAt' = now
       \/ mode = "child" /\ phase' = "opening" /\ UNCHANGED waitingAt
    /\ UNCHANGED <<input, now, lag>>

\* The pipeline took until now; inline, the gate's timer starts at once.
PipelineEnds ==
    /\ phase = "pipeline"
    /\ gateAt' = now
    /\ \/ mode = "inline" /\ phase' = "waiting" /\ waitingAt' = now
       \/ mode = "child" /\ phase' = "opening" /\ UNCHANGED waitingAt
    /\ UNCHANGED <<input, now, lag>>

\* A worker runs the child's first task: its timer starts only now.
ChildRuns ==
    /\ phase = "opening"
    /\ phase' = "waiting" /\ waitingAt' = now
    /\ UNCHANGED <<input, now, gateAt, lag>>

HumanDecides ==
    /\ phase = "waiting"
    /\ phase' = "decided"
    /\ UNCHANGED <<input, now, gateAt, waitingAt, lag>>

TimerFires ==
    /\ TimerDue
    /\ phase' = "policy"
    /\ UNCHANGED <<input, now, gateAt, waitingAt, lag>>

\* The order is timed out by the server, in its pipeline or over its open gate.
OrderTimesOut ==
    /\ Live /\ OrderExpires
    /\ phase' = IF AtGate THEN "killed_at_gate" ELSE "killed"
    /\ UNCHANGED <<input, now, gateAt, waitingAt, lag>>

\* The child is timed out, which fails the order.
ChildTimesOut ==
    /\ ChildExpires
    /\ phase' = "child_killed"
    /\ UNCHANGED <<input, now, gateAt, waitingAt, lag>>

Next == \/ Tick \/ PipelineEnds \/ ChildRuns \/ HumanDecides \/ TimerFires
        \/ OrderTimesOut \/ ChildTimesOut

Spec == Init /\ [][Next]_vars

-----------------------------------------------------------------------------

\* The type invariant.
TypeOK ==
    /\ execution \in Nat /\ configured \in Nat /\ approval \in Nat
    /\ mode \in {"inline", "child"}
    /\ now \in Nat /\ gateAt \in Nat /\ waitingAt \in Nat /\ lag \in Nat
    /\ phase \in {"pipeline", "opening", "waiting", "decided", "policy",
                  "killed", "killed_at_gate", "child_killed"}

\* The order's deadline cuts an open gate short only when what the pipeline took,
\* the approval window and the workers' lag do not fit into the execution timeout.
KilledOnlyIfItDoesNotFit ==
    phase = "killed_at_gate" => gateAt + approval + lag >= execution

\* "the child must be able to wait the full approval window" (order_workflow.py:112):
\* the child's own deadline strikes only after workers were absent for all the slack.
ChildWaitsItsWindow == phase = "child_killed" => lag >= ChildSlack

\* The policy never decides before people had the whole window.
PolicyWaitsTheWindow ==
    phase = "policy" => /\ now >= gateAt + approval
                        /\ mode = "inline" => waitingAt = gateAt
=============================================================================
