--------------------------- MODULE ExecutionView ---------------------------
(***************************************************************************)
(* What the workflow explorer shows of one order while it moves.  A poll   *)
(* of the page (studio.js) is one GET of order_status (server.py), which   *)
(* reads three things one after the other: the description, the history    *)
(* (merged with the description by execution_view), and then the gate or   *)
(* the result.  The order may move between any two of these reads.  The    *)
(* page waits for one answer at a time, and a request it gave up on changes *)
(* nothing, so one request is all there is.                                *)
(***************************************************************************)
EXTENDS Naturals

CONSTANTS
    Stages,      \* number of agents in the pipeline
    MaxAttempts  \* attempts of an activity

ASSUME ViewAssumption ==
    /\ Stages \in Nat \ {0}
    /\ MaxAttempts \in Nat \ {0}

Gate       == Stages + 1
Incident   == Stages + 2
Last       == Stages + 3
Activities == 1..Stages \cup {Incident}
Statuses   == {"RUNNING", "COMPLETED", "FAILED", "TIMED_OUT"}

VARIABLES
    at,       \* the order: the place it has reached, 1..Last
    act,      \* what goes on there
    attempt,  \* attempt of the activity there, 0 if there is none
    taken,    \* taken[s]: the attempt in which activity s completed, 0 before
    child,    \* the history shows an approval child
    status,   \* the status of the execution
    req,      \* the request: how far it got, what it described, what it read
    shown,    \* the view the page shows; status "none" until one is loaded
    visible,  \* the page is not hidden
    up        \* the UI server and Temporal answer, and do so in time

order == <<at, act, attempt, taken, child, status>>
vars  == <<order, req, shown, visible, up>>

NoStage == [state |-> "waiting", attempt |-> 0]
NoView  == [status |-> "none", stages |-> [s \in Activities |-> NoStage],
            pending |-> "no", result |-> FALSE]
NoDesc  == [status |-> "none", step |-> 0, attempt |-> 0, running |-> FALSE]
Free    == [pc |-> "free", desc |-> NoDesc, view |-> NoView, child |-> FALSE]

Init ==
    /\ at = 1 /\ act = "idle" /\ attempt = 0
    /\ taken = [s \in Activities |-> 0]
    /\ child = FALSE
    /\ status = "RUNNING"
    /\ req = Free
    /\ shown = NoView
    /\ visible = TRUE
    /\ up = TRUE

-----------------------------------------------------------------------------
(* The order, as far as its history and its description tell.              *)

GoTo(place, what) == at' = place /\ act' = what

Schedule ==
    /\ status = "RUNNING" /\ act = "idle" /\ at \in Activities
    /\ act' = "queued" /\ attempt' = 1
    /\ UNCHANGED <<at, taken, child, status>>

AttemptStarts ==
    /\ status = "RUNNING" /\ act = "queued"
    /\ act' = "running"
    /\ UNCHANGED <<at, attempt, taken, child, status>>

AttemptFails ==
    /\ status = "RUNNING" /\ act = "running"
    /\ \/ attempt < MaxAttempts /\ act' = "queued" /\ attempt' = attempt + 1
       \/ act' = "failed" /\ UNCHANGED attempt
    /\ UNCHANGED <<at, taken, child, status>>

ActivityCompletes ==
    /\ status = "RUNNING" /\ act = "running"
    /\ taken' = [taken EXCEPT ![at] = attempt]
    /\ attempt' = 0
    /\ GoTo(at + 1, "idle")
    /\ UNCHANGED <<child, status>>

\* The approval gate: not needed, inline, or in a child.
GateOpens ==
    /\ status = "RUNNING" /\ at = Gate /\ act = "idle"
    /\ act' = "open" /\ child' \in BOOLEAN
    /\ UNCHANGED <<at, attempt, taken, status>>

GatePasses ==
    /\ status = "RUNNING" /\ at = Gate
    /\ GoTo(Incident, "idle")
    /\ UNCHANGED <<attempt, taken, child, status>>

\* run() returns, without an incident, after one, or after one that failed.
RunReturns ==
    /\ status = "RUNNING"
    /\ \/ at \in {Incident, Last} /\ act = "idle"
       \/ at = Incident /\ act = "failed"
    /\ status' = "COMPLETED"
    /\ UNCHANGED <<at, act, attempt, taken, child>>

\* A failed agent fails the order; the server may end it at any time.
RunEnds ==
    /\ status = "RUNNING"
    /\ \/ at <= Stages /\ act = "failed" /\ status' = "FAILED"
       \/ status' = "TIMED_OUT"
    /\ UNCHANGED <<at, act, attempt, taken, child>>

OrderMoves ==
    /\ \/ Schedule \/ AttemptStarts \/ AttemptFails \/ ActivityCompletes
       \/ GateOpens \/ GatePasses \/ RunReturns \/ RunEnds
    /\ UNCHANGED <<req, shown, visible, up>>

-----------------------------------------------------------------------------
(* order_status and execution_view.                                        *)

\* A stage as history alone tells it: retries and running attempts are not there.
Recorded(s) ==
    IF taken[s] > 0 THEN [state |-> "completed", attempt |-> taken[s]]
    ELSE IF at # s \/ act = "idle" THEN NoStage
    ELSE IF act = "failed" THEN [state |-> "failed", attempt |-> attempt]
    ELSE [state |-> "scheduled", attempt |-> 0]

\* Fault: an activity that is not among the pending ones is taken to be done.
MergedByAbsence(desc, s) ==
    IF Recorded(s).state # "scheduled" THEN Recorded(s)
    ELSE IF s # desc.step THEN [state |-> "completed", attempt |-> 1]
    ELSE [state |-> IF desc.running THEN "running"
                    ELSE IF desc.attempt > 1 THEN "retrying" ELSE "scheduled",
          attempt |-> desc.attempt]

\* Fault: the attempt to come is shown.
MergedCountsNext(desc, s) ==
    IF Recorded(s).state # "scheduled" \/ s # desc.step THEN Recorded(s)
    ELSE [state |-> IF desc.running THEN "running" ELSE "retrying",
          attempt |-> desc.attempt + 1]
\* Fault: the description is laid over stages that history has settled.
MergedOverSettled(desc, s) ==
    IF Recorded(s).state = "waiting" \/ s # desc.step THEN Recorded(s)
    ELSE [state |-> IF desc.running THEN "running"
                    ELSE IF desc.attempt > 1 THEN "retrying" ELSE "scheduled",
          attempt |-> desc.attempt]
\* Fault: attempts that wait for their retry are not laid over.
MergedWhenRunning(desc, s) ==
    IF Recorded(s).state # "scheduled" \/ s # desc.step \/ ~desc.running THEN Recorded(s)
    ELSE [state |-> "running", attempt |-> desc.attempt]

\* The pending activity of the description is laid over a stage that history
\* has not settled.
Merged(desc, s) ==
    IF Recorded(s).state # "scheduled" \/ s # desc.step THEN Recorded(s)
    ELSE [state |-> IF desc.running THEN "running"
                    ELSE IF desc.attempt > 1 THEN "retrying" ELSE "scheduled",
          attempt |-> desc.attempt]

\* The description of an execution that closed may still list an activity.
Describe ==
    /\ req.pc = "asked"
    /\ \E listed \in BOOLEAN :
          /\ act \in {"queued", "running"} /\ status = "RUNNING" => listed
          /\ req' = [req EXCEPT
                !.pc = "described",
                !.desc = IF listed /\ act \in {"queued", "running"}
                         THEN [status |-> status, step |-> at, attempt |-> attempt,
                               running |-> act = "running"]
                         ELSE [NoDesc EXCEPT !.status = status]]
    /\ UNCHANGED <<order, shown, visible, up>>

FetchHistory ==
    /\ req.pc = "described"
    /\ req' = [Free EXCEPT !.pc = "read",
                           !.view.status = req.desc.status,
                           !.view.stages = [s \in Activities |-> Merged(req.desc, s)],
                           !.child = child]
    /\ UNCHANGED <<order, shown, visible, up>>

\* The pending query goes to the child if history showed one, else to the order,
\* which knows nothing of a child's gate.
PendingAnswer(asksChild) == IF act = "open" /\ asksChild = child THEN "yes" ELSE "no"

\* The third read: the gate of a running order, which may be unavailable (a
\* worker restarts), or the result of a completed one, which may be too.
GateAnswers ==
    IF req.view.status # "RUNNING" THEN {"no"}
    ELSE {PendingAnswer(req.child)} \cup (IF up THEN {} ELSE {"unavailable"})
ResultAnswers ==
    IF req.view.status # "COMPLETED" THEN {FALSE}
    ELSE {TRUE} \cup (IF up THEN {} ELSE {FALSE})

\* Fault: the status is read again for the answer.
AnswerWithFreshStatus(p, r) ==
    [req.view EXCEPT !.status = status, !.result = status = "COMPLETED"]
Answer(p, r) == [req.view EXCEPT !.pending = p, !.result = r]

-----------------------------------------------------------------------------
(* The page.                                                               *)

Terminal == Statuses \ {"RUNNING"}

\* A loaded run in a terminal status is not asked for again.
Settled == shown.status \in Terminal

\* stateOf: what the page calls the run.
RunState ==
    CASE shown.pending = "yes"         -> "Needs approval"
      [] shown.pending # "yes" /\ shown.status = "COMPLETED" -> "Completed"
      [] shown.pending # "yes" /\ shown.status \in {"FAILED", "TIMED_OUT"} -> "Failed"
      [] OTHER                         -> "Running"

\* activeRole: the stages the page highlights as the current step.
LiveStages == {s \in Activities : shown.stages[s].state \in {"running", "retrying", "scheduled"}}

\* Fault: a loaded run is not asked for again.
PollOnce ==
    /\ visible /\ req = Free /\ shown.status = "none"
    /\ req' = [req EXCEPT !.pc = "asked"]
    /\ UNCHANGED <<order, shown, visible, up>>

\* poll, for a run that is not settled.
Poll ==
    /\ visible /\ req = Free /\ ~Settled
    /\ req' = [req EXCEPT !.pc = "asked"]
    /\ UNCHANGED <<order, shown, visible, up>>

\* The server answers and the page takes the answer over.
Reply ==
    /\ req.pc = "read"
    /\ \E p \in GateAnswers, r \in ResultAnswers : shown' = Answer(p, r)
    /\ req' = Free
    /\ UNCHANGED <<order, visible, up>>

\* A read fails and the server answers with an error, or there is no answer in
\* twelve seconds and the page gives up: the last view stays.
Fail ==
    /\ ~up /\ req # Free
    /\ req' = Free
    /\ UNCHANGED <<order, shown, visible, up>>

HideOrShow == visible' = ~visible /\ UNCHANGED <<order, req, shown, up>>
UpOrDown   == up' = ~up /\ UNCHANGED <<order, req, shown, visible>>

Serve == Describe \/ FetchHistory \/ Reply

Next == OrderMoves \/ Poll \/ Serve \/ Fail \/ HideOrShow \/ UpOrDown

\* poll runs every second and a server that is up answers; nothing else is owed.
Fairness == WF_vars(Poll) /\ WF_vars(Serve /\ up)

Spec == Init /\ [][Next]_vars /\ Fairness

-----------------------------------------------------------------------------
(* Properties                                                              *)

StageStates == {"waiting", "scheduled", "running", "retrying", "completed", "failed"}
Views == [status : Statuses \cup {"none"},
          stages : [Activities -> [state : StageStates, attempt : 0..MaxAttempts]],
          pending : {"no", "yes", "unavailable"}, result : BOOLEAN]
Descs == [status : Statuses \cup {"none"}, step : {0} \cup Activities,
          attempt : 0..MaxAttempts, running : BOOLEAN]

\* The types of the variables.
TypeOK ==
    /\ at \in 1..Last
    /\ act \in {"idle", "queued", "running", "failed", "open"}
    /\ attempt \in 0..MaxAttempts
    /\ taken \in [Activities -> 0..MaxAttempts]
    /\ child \in BOOLEAN
    /\ status \in Statuses
    /\ req \in [pc : {"free", "asked", "described", "read"}, desc : Descs,
                view : Views, child : BOOLEAN]
    /\ shown \in Views
    /\ visible \in BOOLEAN
    /\ up \in BOOLEAN

\* execution.py:3: no progress is invented. Whatever the page shows has
\* happened: a stage is complete or failed only as history says, in that
\* attempt; a stage under way is scheduled and its attempt was reached; an
\* approval is asked for only at a gate; an end or a result is the order's own.
NoInventedProgress ==
    /\ \A s \in Activities :
          LET seen == shown.stages[s] IN
          /\ seen.state \in {"completed", "failed"} => seen = Recorded(s)
          /\ seen.state \in {"scheduled", "running", "retrying"} =>
                /\ Recorded(s).state \in {"scheduled", "completed", "failed"}
                /\ seen.attempt <= IF taken[s] > 0 THEN taken[s] ELSE attempt
    /\ RunState = "Needs approval" => at > Gate \/ (at = Gate /\ act = "open")
    /\ RunState \in {"Completed", "Failed"} => shown.status = status
    /\ shown.result => status = "COMPLETED"

\* One step at a time is live on the map, and only after every stage before it
\* is complete, although the description is older than the history it is laid
\* over: the agents of an order run one after the other.
OneStepLive ==
    \A s \in LiveStages : \A t \in Activities \ {s} :
        shown.stages[t].state = IF t < s THEN "completed" ELSE "waiting"

\* An order the page no longer asks about is shown whole: its final status,
\* every stage as history settled it, and no request for approval. Both reads
\* after the description can only be newer than the status they go with.
SettledViewIsWhole ==
    Settled =>
        /\ shown.status = status
        /\ RunState # "Needs approval"
        /\ \A s \in Activities :
              \/ shown.stages[s] = Recorded(s)
              \/ Recorded(s).state = "scheduled"

\* From one answer to the next the page never goes back: what it showed as
\* complete or failed stays so, an end is final, and while the order runs no
\* attempt is taken back.
ShownNeverRegresses ==
    [][/\ \A s \in Activities :
             /\ shown.stages[s].state \in {"completed", "failed"} =>
                    shown'.stages[s] = shown.stages[s]
             /\ shown'.status = "RUNNING" =>
                    shown'.stages[s].attempt >= shown.stages[s].attempt
       /\ Settled => shown' = shown]_shown

\* While the page is open and the services answer, an order that waits for a
\* person is shown as waiting, and an order that has ended as ended.
ShownCatchesUp ==
    <>[](visible /\ up) =>
        /\ <>[](status = "RUNNING" /\ act = "open") => <>[](RunState = "Needs approval")
        /\ <>(status # "RUNNING") => <>Settled
=============================================================================
