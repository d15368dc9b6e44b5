-------------------------- MODULE DecisionClients --------------------------
(***************************************************************************)
(* Everybody who decides an order's gate through the repository's own      *)
(* clients, racing with the order and with each other: POST                *)
(* /api/orders/{id}/decision of src/app/ui/server.py and the command line  *)
(* of src/app/entrypoints/approve.py.  Both look for the gate first and    *)
(* send an update afterwards; the order moves between the two.             *)
(***************************************************************************)
EXTENDS OrderWorkflow

CONSTANTS
    Uis,      \* requests to the UI server, one decision each
    Clis,     \* invocations of the command line, one decision each
    Signals   \* raw `decide` signals sent to the order by other tools

Clients     == Uis \cup Clis
ToOrder(u)  == <<u, "order">>
ToGate(u)   == <<u, "gate">>

ASSUME ClientsAssumption ==
    /\ Uis \cap Clis = {}
    /\ \A u \in Clients : ToOrder(u) \notin Signals
    /\ OrderCalls = {ToOrder(u) : u \in Clients} \cup Signals
    /\ GateCalls = {ToGate(u) : u \in Clients}

VARIABLES
    at,      \* at[u]: the await at which client u stands
    wants,   \* wants[u]: TRUE to approve
    target,  \* target[u]: where u believes the gate to be
    told     \* told[u]: what u's person was told

clientVars == <<at, wants, target, told>>
allVars == <<vars, clientVars>>

ClientInit ==
    /\ at = [u \in Clients |-> "idle"]
    /\ wants \in [Clients -> BOOLEAN]
    /\ target = [u \in Clients |-> "order"]
    /\ told = [u \in Clients |-> "nothing"]

Go(u, place)     == at' = [at EXCEPT ![u] = place]
Tell(u, outcome) == Go(u, "answered") /\ told' = [told EXCEPT ![u] = outcome]
Aim(u, place)    == target' = [target EXCEPT ![u] = place]

\* An RPCError of Temporal's client: the server handles none, the command says it could
\* not record the decision.
BreaksOff(u) ==
    /\ Go(u, "broken")
    /\ told' = [told EXCEPT ![u] = IF u \in Uis THEN "500" ELSE "could not record"]

\* decide(): describe() answers, and a closed order is a 409.
UiDescribes(u) ==
    /\ at[u] = "idle"
    /\ \/ status = "running" /\ Go(u, "described") /\ UNCHANGED told
       \/ status # "running" /\ Tell(u, "409")
       \/ BreaksOff(u)
    /\ UNCHANGED <<vars, wants, target>>

\* execution_view: the history names the child once it was started.
UiReadsHistory(u) ==
    /\ at[u] = "described"
    /\ \/ /\ Aim(u, IF childStatus # "none" THEN "gate" ELSE "order")
          /\ Go(u, "aimed") /\ UNCHANGED told
       \/ BreaksOff(u) /\ UNCHANGED target
    /\ UNCHANGED <<vars, wants>>

\* _resolve_gate: the child if it is seen running, else the order: also when
\* describing the child fails for another reason than that there is none.
CliResolves(u) ==
    /\ at[u] = "idle"
    /\ \/ childStatus = "running" /\ Aim(u, "gate")
       \/ Aim(u, "order")
    /\ Go(u, "aimed")
    /\ UNCHANGED <<vars, wants, told>>

\* execute_update is sent to the handle found before.
SendsUpdate(u) ==
    /\ at[u] = "aimed"
    /\ \/ target[u] = "order" /\ Send(ToOrder(u), "update", wants[u])
       \/ target[u] = "gate" /\ ChildStep(Child!Send(ToGate(u), "update", wants[u]))
    /\ Go(u, "waiting")
    /\ UNCHANGED <<wants, target, told>>

AnswerTo(u) == IF target[u] = "order" THEN calls[ToOrder(u)].state ELSE childCalls[ToGate(u)].state

\* The update never reaches Temporal, or what it answers never comes back: the update
\* may still be on its way then, or have been taken.
LosesContact(u) ==
    /\ at[u] \in {"aimed", "waiting"}
    /\ BreaksOff(u)
    /\ UNCHANGED <<vars, wants, target>>

\* WorkflowUpdateFailedError is a 409; an id whose execution has closed is an RPCError.
UiAnswer(a)  == CASE a = "confirmed" -> "200" [] a = "rejected" -> "409" [] a = "not_found" -> "500"
\* Both exceptions end the command with a message.
CliAnswer(a) == CASE a = "confirmed" -> "decided" [] a = "rejected" -> "rejected"
                  [] a = "not_found" -> "could not record"

GetsAnswer(u) ==
    /\ at[u] = "waiting"
    /\ AnswerTo(u) \in {"confirmed", "rejected", "not_found"}
    /\ Tell(u, IF u \in Uis THEN UiAnswer(AnswerTo(u)) ELSE CliAnswer(AnswerTo(u)))
    /\ UNCHANGED <<vars, wants, target>>

ClientNext ==
    \/ \E u \in Uis  : UiDescribes(u) \/ UiReadsHistory(u)
    \/ \E u \in Clis : CliResolves(u)
    \/ \E u \in Clients : SendsUpdate(u) \/ GetsAnswer(u) \/ LosesContact(u)

RawSignal == \E c \in Signals, a \in BOOLEAN : Send(c, "signal", a)

ClientsInit == Init /\ ClientInit
ClientsNext == ClientNext \/ ((System \/ RawSignal) /\ UNCHANGED clientVars)

\* Clients owe nothing; the order goes on as it does without them.
ClientsSpec == ClientsInit /\ [][ClientsNext]_allVars /\ Fairness

-----------------------------------------------------------------------------

\* The type invariant of the order and its clients.
ClientTypeOK ==
    /\ TypeOK
    /\ at \in [Clients -> {"idle", "described", "aimed", "waiting", "answered", "broken"}]
    /\ wants \in [Clients -> BOOLEAN]
    /\ target \in [Clients -> {"order", "gate"}]
    /\ told \in [Clients -> {"nothing", "200", "409", "500", "decided", "rejected", "could not record"}]

Agreed(u) == told[u] \in {"200", "decided"}
Refused(u) ==
    \/ told[u] \in {"409", "rejected"}
    \/ at[u] = "answered" /\ ~Agreed(u)
Mine(u, d) == d.by \in {ToOrder(u), ToGate(u)}

\* "ok" means it: whoever is told that his decision was taken sees the order go on
\* with his verdict, however long ago he looked for the gate; so two people are
\* never both told so.  A client that looked too early or too late for the child sends
\* its decision to an id where it is refused: only the gate that is open takes one.
AgreedIsOutcome ==
    \A u \in Clients : Agreed(u) =>
        /\ approval # Undecided => Mine(u, approval) /\ approval.approved = wants[u]
        /\ status = "completed" => approval # Undecided
        /\ \A v \in Clients \ {u} : ~Agreed(v)
        /\ target[u] = "gate" <=> req.hitl_mode = "child"

\* A refusal means it too: nobody who was told that his decision was refused, or whose
\* request Temporal answered with an error, decided the order.  The same words after a lost
\* answer mean nothing: "could not record" and 500 may stand beside a decision that does.
RefusedHasNoEffect ==
    \A u \in Clients : Refused(u) => ~Mine(u, approval) /\ ~Mine(u, decision) /\ ~Mine(u, childDecision)

\* server.py:200 "the validator atomically rejects a decision when no gate is open
\* or one was already made" and tests/test_ui.py: a decision that Temporal refused is a 409.
UiConflictIs409 ==
    \A u \in Uis : at[u] = "answered" /\ AnswerTo(u) \in {"rejected", "not_found"} => told[u] = "409"
=============================================================================
