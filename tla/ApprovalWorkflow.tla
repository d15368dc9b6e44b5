-------------------------- MODULE ApprovalWorkflow --------------------------
(***************************************************************************)
(* One execution of src/app/workflows/approval_workflow.py: the gate a     *)
(* child workflow hosts.  Humans address it with `decide` signals and      *)
(* `decide_update` updates that arrive in any order, before `run` has      *)
(* started, after the deadline, or after the execution has closed.         *)
(*                                                                         *)
(* A handler has no await, so Temporal runs it to its end before anything  *)
(* else: one action per delivered message.  `run` is two actions, up to    *)
(* its wait_condition and after it.  Within one activation Temporal        *)
(* applies messages before timers, so a message can be handled between the *)
(* decision and the resumption of `run`: those are separate steps here.    *)
(* Replay after a worker crash rebuilds exactly this state and is a        *)
(* stuttering step.                                                        *)
(***************************************************************************)

CONSTANTS
    Calls,   \* identities of the messages humans send to this gate
    NoCall   \* "nobody": the approver of a timed-out gate

ASSUME NoCallAssumption == NoCall \notin Calls

VARIABLES
    status,    \* execution status on the Temporal server; "none" before it is started
    policy,    \* on_timeout of the workflow's input
    req,       \* TRUE once run() has set self._req
    decision,  \* _decided, _approver and _via; via = "" is `_decided is None`
    calls,     \* calls[c]: the message c, where it is, what its sender was told
    result     \* what run() returned, Undecided before

vars == <<status, policy, req, decision, calls, result>>

Gate == INSTANCE ApprovalGate WITH reported <- result

Undecided          == Gate!Undecided
HumanDecided(c, a) == Gate!HumanDecided(c, a)
\* Fault: the policy is recorded as the way the decision came about.
PolicyAsVia(p) == [approved |-> p = "approve", by |-> NoCall, via |-> p]
TimeoutDecided(p)  == Gate!TimeoutDecided(p)

Kinds    == {"signal", "update"}
Policies == {"reject", "approve"}
Statuses == {"none", "running", "completed", "timed_out", "terminated"}

\* "handled": the signal's handler ran, its sender learns nothing of the outcome.
\* "confirmed" / "rejected" / "not_found": the update returned, its validator
\* raised, or no execution was running at that id.
Answers  == {"handled", "confirmed", "rejected", "not_found"}
Message  == [kind : Kinds, approved : BOOLEAN, state : {"idle", "sent"} \cup Answers]
Unsent   == [kind |-> "signal", approved |-> FALSE, state |-> "idle"]

-----------------------------------------------------------------------------

Init ==
    /\ status = "none"
    /\ policy \in Policies
    /\ req = FALSE
    /\ decision = Undecided
    /\ calls = [c \in Calls |-> Unsent]
    /\ result = Undecided

\* The parent's StartChildWorkflowExecution command takes effect.
Start ==
    /\ status = "none"
    /\ status' = "running"
    /\ UNCHANGED <<policy, req, decision, calls, result>>

\* A human sends decision c, at any time.
Send(c, kind, approved) ==
    /\ calls[c].state = "idle"
    /\ calls' = [calls EXCEPT ![c] = [kind |-> kind, approved |-> approved, state |-> "sent"]]
    /\ UNCHANGED <<status, policy, req, decision, result>>

Answer(c, a) == calls' = [calls EXCEPT ![c].state = a]

\* Fault: the last decision wins.
LastWins(c)    == HumanDecided(c, calls[c].approved)
\* _record: first wins, shared by the signal and the update.
Record(c) ==
    IF decision = Undecided THEN HumanDecided(c, calls[c].approved) ELSE decision

\* _validate_decide passes; the pending query answers True.
Accepts == decision = Undecided /\ req

HandleSignal(c) ==
    /\ status = "running"
    /\ calls[c].state = "sent" /\ calls[c].kind = "signal"
    /\ decision' = Record(c)
    /\ Answer(c, "handled")
    /\ UNCHANGED <<status, policy, req, result>>

\* Fault: the decision is recorded before the validator is asked.
RecordsFirst(c) ==
    /\ status = "running"
    /\ calls[c].state = "sent" /\ calls[c].kind = "update"
    /\ decision' = Record(c)
    /\ Answer(c, IF Accepts THEN "confirmed" ELSE "rejected")
    /\ UNCHANGED <<status, policy, req, result>>

HandleUpdate(c) ==
    /\ status = "running"
    /\ calls[c].state = "sent" /\ calls[c].kind = "update"
    /\ \/ Accepts /\ decision' = Record(c) /\ Answer(c, "confirmed")
       \/ ~Accepts /\ UNCHANGED decision /\ Answer(c, "rejected")
    /\ UNCHANGED <<status, policy, req, result>>

\* The server has no running execution to give the message to.
NotFound(c) ==
    /\ status # "running"
    /\ calls[c].state = "sent"
    /\ Answer(c, "not_found")
    /\ UNCHANGED <<status, policy, req, decision, result>>

\* run() up to its wait_condition.
RunStarts ==
    /\ status = "running" /\ ~req
    /\ req' = TRUE
    /\ UNCHANGED <<status, policy, decision, calls, result>>

Return(d) == status' = "completed" /\ result' = d

\* Faults: the lambda is the decision itself, so a rejection wakes nobody; the timeout
\* branch is taken whatever was decided.
WakesIfApproved ==
    /\ status = "running" /\ req /\ decision.approved
    /\ Return(decision)
    /\ UNCHANGED <<policy, req, decision, calls>>
ResolvedByPolicy ==
    /\ status = "running" /\ req /\ decision # Undecided
    /\ Return(TimeoutDecided(policy))
    /\ UNCHANGED <<policy, req, decision, calls>>

\* The wait_condition's lambda is true: run() returns the decision.
GateResolved ==
    /\ status = "running" /\ req /\ decision # Undecided
    /\ Return(decision)
    /\ UNCHANGED <<policy, req, decision, calls>>

\* The wait's timer fires first: on_timeout decides.
GateTimesOut ==
    /\ status = "running" /\ req /\ decision = Undecided
    /\ decision' = TimeoutDecided(policy)
    /\ Return(TimeoutDecided(policy))
    /\ UNCHANGED <<policy, req, calls>>

\* The server closes the execution from outside: its own execution_timeout
\* (no worker was there to fire the timer), or ParentClosePolicy.TERMINATE.
CloseAs(s) ==
    /\ status = "running"
    /\ status' = s
    /\ UNCHANGED <<policy, req, decision, calls, result>>

ExecutionTimesOut == CloseAs("timed_out")
Terminate         == CloseAs("terminated")

-----------------------------------------------------------------------------

Run     == RunStarts \/ GateResolved \/ GateTimesOut
Deliver == \E c \in Calls : HandleSignal(c) \/ HandleUpdate(c) \/ NotFound(c)
Humans  == \E c \in Calls, k \in Kinds, a \in BOOLEAN : Send(c, k, a)

Next == Start \/ Humans \/ Deliver \/ Run \/ ExecutionTimesOut \/ Terminate

\* A worker polls the task queue and runs what can go on; nothing obliges a human to
\* send, a parent to start the gate or a server to kill it.
Fairness == WF_vars(Run)

Spec == Init /\ [][Next]_vars /\ Fairness

-----------------------------------------------------------------------------

Decisions == [approved : BOOLEAN, by : Calls \cup {NoCall}, via : {"", "human", "timeout"}]

\* The type invariant of the gate's state.
TypeOK ==
    /\ status \in Statuses
    /\ policy \in Policies
    /\ req \in BOOLEAN
    /\ decision \in Decisions
    /\ calls \in [Calls -> Message]
    /\ result \in Decisions

\* An update whose sender got an answer took effect: it is the gate's decision,
\* with its own approver and verdict, whatever signals, updates and the deadline
\* raced with it (decide_update's "confirms the decision atomically").
ConfirmedIsDecision ==
    \A c \in Calls : calls[c].state = "confirmed" =>
        /\ decision = HumanDecided(c, calls[c].approved)
        /\ result \in {Undecided, decision}

\* The deadline never overrides a human: if run() returned the timeout policy,
\* no signal was handled and no update confirmed before it.
TimeoutOverridesNobody ==
    result.via = "timeout" =>
        \A c \in Calls : calls[c].state \notin {"handled", "confirmed"}

\* Nobody is told his decision stands because of another's, and a human decision
\* is always somebody's delivered message, with that message's verdict.
DecisionHasAuthor ==
    decision.via = "human" =>
        /\ decision.by \in Calls
        /\ calls[decision.by].state \in {"handled", "confirmed"}
        /\ decision.approved = calls[decision.by].approved

\* Once decided, a gate never changes its mind, and what run() returned is final.
DecisionIsFinal ==
    [][/\ decision # Undecided => decision' = decision
       /\ result # Undecided => result' = result]_vars

\* A decision that was taken, also before run() looked for one, is returned, unless
\* the execution is killed before; no further message or timer is needed for it.
DecisionReturned ==
    \A d \in Decisions \ {Undecided} :
        decision = d ~> result = d \/ status \in {"timed_out", "terminated"}

\* The child workflow implements the abstract gate.
ImplementsGate == Gate!GateSpec
=============================================================================
