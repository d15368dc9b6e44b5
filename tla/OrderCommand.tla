---------------------------- MODULE OrderCommand ----------------------------
(***************************************************************************)
(* `python -m app.entrypoints.order` beside the order it starts: it starts *)
(* the workflow, looks a limited number of times whether an approval is    *)
(* pending to tell the operator, then waits for the result.  Queries need  *)
(* a worker, every request can fail, and the order moves in between.  One  *)
(* tick is the pause between two looks.                                    *)
(***************************************************************************)
EXTENDS GateDeadlines

CONSTANT Looks  \* the 30 rounds of order.py:73

ASSUME LooksAssumption == Looks \in Nat \ {0}

VARIABLES
    started,  \* the server has the order
    cmd,      \* where the command stands, or how it ended
    rounds,   \* rounds of the loop that are over
    wakeAt,   \* when its sleep ends
    told,     \* the approval request was printed
    blind     \* a query failed while the gate was open

commandVars == <<started, cmd, rounds, wakeAt, told, blind>>
allVars == <<vars, commandVars>>

CommandInit ==
    /\ Init
    /\ started = FALSE
    /\ cmd = "starting"
    /\ rounds = 0
    /\ wakeAt = 0
    /\ told = FALSE
    /\ blind = FALSE

-----------------------------------------------------------------------------

\* The order's clocks, workers and people.
OrderStep == started /\ Next /\ UNCHANGED commandVars

\* The server takes the start; its answer may still be lost.
ServerStarts ==
    /\ cmd = "starting" /\ ~started
    /\ started' = TRUE
    /\ UNCHANGED <<vars, cmd, rounds, wakeAt, told, blind>>

StartReturns ==
    /\ cmd = "starting" /\ started
    /\ cmd' = "querying"
    /\ UNCHANGED <<vars, started, rounds, wakeAt, told, blind>>

\* start_workflow raises: no server, an id that was used, or the answer got lost.
StartFails ==
    /\ cmd = "starting"
    /\ cmd' = "raised"
    /\ UNCHANGED <<vars, started, rounds, wakeAt, told, blind>>

\* OrderWorkflow.pending: only the inline gate sets it; a child's gate never does.
Pending == phase = "waiting" /\ mode = "inline"

\* A worker answers the query; told once, the command looks no further.
QueryReturns ==
    /\ cmd = "querying"
    /\ told' = Pending
    /\ cmd' = IF Pending THEN "awaiting" ELSE "describing"
    /\ UNCHANGED <<vars, started, rounds, wakeAt, blind>>

\* Fault: the query is repeated until it is answered.
AsksUntilAnswered ==
    /\ cmd = "querying"
    /\ blind' = (blind \/ Pending)
    /\ UNCHANGED <<vars, started, cmd, rounds, wakeAt, told>>

\* Any error counts as nothing pending.
QueryFails ==
    /\ cmd = "querying"
    /\ blind' = (blind \/ Pending)
    /\ cmd' = "describing"
    /\ UNCHANGED <<vars, started, rounds, wakeAt, told>>

\* The order is RUNNING; behind its gate it may be so for a while.
MayRun   == phase \in {"pipeline", "opening", "waiting", "decided", "policy"}
MayEnded == ~Live

\* Fault: the loop ends as long as the order runs.
StopsWhileRunning ==
    /\ cmd = "describing"
    /\ \/ MayRun /\ cmd' = "awaiting" /\ UNCHANGED wakeAt
       \/ MayEnded /\ cmd' = "sleeping" /\ wakeAt' = now + 1
    /\ UNCHANGED <<vars, started, rounds, told, blind>>

\* A description needs the server only; an order that has ended ends the loop.
DescribeReturns ==
    /\ cmd = "describing"
    /\ \/ MayRun /\ cmd' = "sleeping" /\ wakeAt' = now + 1
       \/ MayEnded /\ cmd' = "awaiting" /\ UNCHANGED wakeAt
    /\ UNCHANGED <<vars, started, rounds, told, blind>>

\* Nothing catches an error of describe(): the command ends, the order goes on.
DescribeFails ==
    /\ cmd = "describing"
    /\ cmd' = "raised"
    /\ UNCHANGED <<vars, started, rounds, wakeAt, told, blind>>

\* The sleep is over, at the latest when the model's clock has stopped with the order.
WakesUp ==
    /\ cmd = "sleeping"
    /\ now >= wakeAt \/ ~Live
    /\ rounds' = rounds + 1
    /\ cmd' = IF rounds + 1 = Looks THEN "awaiting" ELSE "querying"
    /\ UNCHANGED <<vars, started, wakeAt, told, blind>>

\* handle.result() of an order that passed its gate.
ResultReturns ==
    /\ cmd = "awaiting" /\ phase \in {"decided", "policy"}
    /\ cmd' = "reported"
    /\ UNCHANGED <<vars, started, rounds, wakeAt, told, blind>>

\* It raises for an order that failed, or when the connection does.
ResultFails ==
    /\ cmd = "awaiting"
    /\ cmd' = "raised"
    /\ UNCHANGED <<vars, started, rounds, wakeAt, told, blind>>

\* What the command and the server do by themselves: a query no worker answers times out.
Execute ==
    \/ StartReturns \/ QueryFails \/ DescribeReturns \/ WakesUp
    \/ ResultReturns \/ (ResultFails /\ ~Live)

CommandNext ==
    \/ OrderStep \/ ServerStarts \/ Execute
    \/ QueryReturns \/ StartFails \/ DescribeFails \/ ResultFails

\* Time passes, the server takes the start and enforces the timeouts, and the command
\* goes on; no worker and no person is obliged to do anything.
CommandFairness ==
    /\ WF_allVars(OrderStep /\ (Tick \/ OrderTimesOut \/ ChildTimesOut))
    /\ WF_allVars(ServerStarts) /\ WF_allVars(Execute)

CommandSpec == CommandInit /\ [][CommandNext]_allVars /\ CommandFairness

-----------------------------------------------------------------------------

Ended == cmd \in {"reported", "raised"}

\* order.py:72 "Surface a pending approval (if the gate trips) so the operator knows
\* how to act": a command that waits beside an open inline gate has told the operator,
\* unless the gate opened when the looks were used up or a query failed over it.
OperatorIsTold ==
    cmd = "awaiting" /\ ~told /\ Pending /\ ~blind => waitingAt >= Looks - 1

\* The command always returns or raises, with no worker and nobody at the gate: its
\* looks are bounded and the order has a deadline the server enforces.
CommandEnds == <>Ended
=============================================================================
