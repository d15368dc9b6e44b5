# Verification of the durable order agent

TLA+ models, TLC runs and TLAPS proofs kept beside the Temporal-based order
agent of this repository (`src/`). The models are translated from the code; the
file and lines behind every definition are in `PROJECT.json` (`map`).

## The system

A distributor's order runs through a pipeline of LLM agents as one durable
Temporal workflow. When the discount it asks for exceeds a threshold, the order
waits at an approval gate for a person or for a deadline; when the fulfillment
agent reports risk, it opens a ServiceNow incident over A2A (HTTP).

| Part | State it keeps | Operations | What makes it correct |
|---|---|---|---|
| Order workflow `app/workflows/order_workflow.py` | decision, pending, where `run` waits, result | `decide` signal, `decide_update` update and validator, `pending` query, `run` | one decision, the first; only the gate the request calls for decides; a settled order is neither revised nor failed; it always closes |
| Approval workflow `approval_workflow.py` | decision, request | the same handlers, `run` | the same gate as a child workflow: it returns exactly what was decided |
| Decision clients `app/ui/server.py` (`decide`), `app/entrypoints/approve.py` | the target they found | find the gate, then send an update | what a person is told is true of the order; words for a lost answer promise nothing |
| Incident leg `platform/a2a.py`, `temporal/a2a_activity.py`, `entrypoints/servicenow_agent.py`, `integrations/servicenow.py` | incident table (in memory), attempts of the call | post, handle (upsert on the correlation id), reply, retry | one ticket per order however often its call is retried |
| Node activities `agent/multi.py`, `platform/chaos.py`, `temporal/retry.py` | attempts on the server, threads in the worker | inject a fault, call the LLM, report, time out | injected faults cost what the spec says and no more; late threads change nothing |
| Deadlines `config/models.py`, `entrypoints/order.py` | three clocks over one gate | start, expire | people have the window they were promised |
| Run view `ui/execution.py`, `ui/server.py` (status, list, start), `ui/static/studio.js` | run list, history and description, the page's selection | read history, merge, poll, select | shows no progress that did not happen |
| Hello agent `agent/graph.py`, `nodes.py`, `tools.py`, `lyzr.py`, `workflows/agent_workflow.py` | messages, turns | agent, tools, route | every tool call is answered; ends with an answer or at the turn limit |
| Order command line `entrypoints/order.py` | where the command stands, its rounds | start, look for a pending approval, wait for the result | tells the operator of a gate in time, and always ends |
| Worker host `scripts/services.sh`, `entrypoints/worker.py`, `infrastructure/docker.py` | processes, the pid file | start, stop, check and wait for services, build the agents, drain | the script runs one worker at most; "stopped" means stopped unless stop was mistaken; a worker that serves has all its agents |
| Provisioning `scripts/lyzr_provision.py` | the account's agents, the id file | list, create what is missing, write the file | rerunning creates nothing twice |
| Configuration `config/loader.py`, `config/models.py` | exported variables, `.env`, the config files, each process's settings | choose the file, layer, coerce and validate, once per process | the higher layer wins; processes started beside each other mean the same |

Parts interact in four ways. Clients send signals and updates to a workflow id
through the Temporal server, which answers for executions that have closed. The
order starts its gate as a child and waits for the result; the server terminates
the child when the order closes. Workflows schedule activities, which Temporal
retries by attempts while threads of abandoned attempts go on. The incident
activity and its agent exchange HTTP messages that may be late or lost. On the
worker's machine the parts meet through the pid file, signals and the id file.

What is hard here: messages and timers meeting in one activation; clients that
look for a gate and decide later, or lose the answer; deadlines of three workflows over
one wait; retries of calls that took effect; threads that outlive their attempt; a page
that is used while it still loads. The full
list, with the line where each bites, is under `hazards` in `PROJECT.json`.

## Modules

| Module | Models | Correspondence |
|---|---|---|
| `ApprovalGate` | the promise of a gate (abstract) | `decision` is taken once, by a human or by the policy; `reported` is that decision |
| `ApprovalWorkflow` | one child gate | `decision` is `_decided`, `_approver` and `_via` together, `req` is "`_req` is set", `calls` the messages and what their senders learnt; one action per handler, `run` cut at its `wait_condition` |
| `OrderWorkflow` | one order and its child | `pc` is the await `run` stands at, `approval` and `incident` are the entries of `out`; the child is `ApprovalWorkflow`, instantiated as `Child` |
| `DecisionClients` | UI requests, command lines and raw signals around `OrderWorkflow` | `at` is the await a client stands at, `target` the handle it found, `told` its HTTP status or message; at any request it may break off with an `RPCError`, before or after the update took effect |
| `IncidentLeg` | the incident activity, the A2A exchange and the ServiceNow simulator | `store` and `counter` are `IncidentStore`; a request or reply is lost by never being taken |
| `NodeActivity` | one agent node run as an activity | `state` and `attempt` are the server's, `thread[k]` the worker's thread for attempt k |
| `GraphRun` | a LangGraph run, of the order's pipeline or of the hello agent, over `NodeActivity` | the variables of `NodeActivity` are the current node's activity; `channel` is `messages` or the stages with a text, `steps` counts the nodes that returned |
| `ExecutionView` | one order as the page shows it | `at`, `act`, `attempt`, `taken` are what history and description tell; `req` is one `order_status`, cut at its three reads; `shown` is the run object of the page |
| `StudioPage` | the page's list, selection, form and buttons, and the server's run list | `page` is how far `init` is, cut at its two awaits and at the server's answer in between; `stored` and `listed` are what it holds by then; `runs`, `selected`, `busy`, `sent`, `starting` are the page's variables; `disabled` is the start button's, `click[c].at` is the await one `decide()` stands at; `store` is `localStorage`; `early` records that an order was asked for before the list was there |
| `GateDeadlines` | the clocks over a gate | `now` in ticks; `lag` counts the ticks in which a workflow task was due and no worker ran it |
| `OrderCommand` | the order command beside its order, over `GateDeadlines` | `cmd` is the await `_start` stands at, `rounds` its loop variable, one tick its `sleep`; `blind` records that a query failed over an open gate |
| `Settings` | shell, `.env`, config files and the processes that load them | `EnvOverrides` is `_ENV_OVERRIDES`; `disk` says what a directory's paths name, `DefaultConfig` is `_default_config_path`, `Sourced` the head of `services.sh` with its default for an empty address; `LoadSettings` is `load_settings` as a chain of operators named after the functions, its loop over the table a function of the rows applied (`Override`) |
| `AgentRoster` | the Lyzr account and the runs of the provisioning script | `file` is `lyzr_agents.yaml`, `prov` a run's place and its `result`; emptying the file and writing it are two steps |
| `WorkerHost` | the worker's life and `services.sh`, over `AgentRoster` | `proc[p]` is what process `p` is and does, `owner[p]` who started it (`make worker` and the app's container start workers beside the script, the latter as another user), `Answers` is `kill -0`, `pidfile` is `.run/worker.pid`, `cmd` the place in a command, `told` its last line |
| `ApprovalWorkflowProofs`, `OrderWorkflowProofs`, `IncidentLegProofs`, `OrderCommandProofs`, `GraphRunProofs`, `ExecutionViewProofs`, `StudioPageProofs`, `WorkerHostProofs` | theorems about those modules and the ones they extend | `OrderWorkflowProofs` also about `DecisionClients`, `OrderCommandProofs` about `GateDeadlines` and `Settings`, `GraphRunProofs` about `NodeActivity`, `WorkerHostProofs` about `AgentRoster` |
| `MC*` | instances for TLC | |

A handler has no `await`, so Temporal runs it to its end: one action each. `run`
between two awaits is one action as well. Replaying a history after a worker died
rebuilds the same state, so it is a stuttering step. Data is reduced to what the
properties tell apart: a request text is the set of percentages it mentions, an
agent's text is whether it contains a risk keyword, a message is its sender's
identity. The type invariants of `StudioPage`, `WorkerHost`, `DecisionClients`,
`OrderWorkflow` and `IncidentLeg` are in no run; they are proved. The definitions marked
"Fault: ..." in the modules are the plausible bugs against which the runs' properties
are tested (`mutants` in `PROJECT.json`); no specification uses them.

What is outside `src/` is modelled from how the code uses it: the Temporal server
(routes messages, closes executions on their timeout, terminates children, drops
reports of attempts it gave up on), HTTP, and time.

## Runs

| Run | Question | Bounds and why they are enough |
|---|---|---|
| `MCApprovalWorkflow` | Does the child gate keep its promise, and is it the abstract gate? | three messages: two can race in front of the deadline and a third comes when the execution has closed; the proofs lift the bound for safety |
| `MCDecisionClients` | Is what a person is told true? Does every order, inline or child, settle by the right authority, once, and close? | a request for each path through `run`, either mode; one UI request, one command line, one raw signal: every pair of clients' steps interleaves with every step of the order, a message reaches the wrong gate, and an answer is lost before or after it took effect |
| `MCIncidentLeg` | One ticket per order? | an order and an unkeyed A2A run, the code's three attempts, one restart of the agent |
| `MCGraphRun` | Do chaos and retries do what they say, node by node, and does the agent end properly? | the default three attempts; three stages, chaos of every mode at the first, the second or none, with `attempts` below, at and without limit; three model providers, a tool that exists and one that does not, three turns: a turn before and after the one that is cut off |
| `MCOrderCommand` | When may a deadline cut a gate short, what does the operator hear, and does the command end? | all validated pairs of small timeouts, one override above all of them, a slack of two ticks, three looks: gates that open before, between and after the looks |
| `MCSettings` | Which layer decides, and do two processes agree? | eleven rows of the table, two of them for one field, each type of field; a repository with one config file, the other, or two, and a directory without any; a `${VAR}` entry over a default that is not empty; shells and `.env` files that shadow each other, name a config file, hold empty values or words for truth; every sequence of edits, starts and stops |
| `MCExecutionView` | Is what the page shows of an order true, monotone and, in the end, whole? | one agent, the gate, the incident, two attempts each: a step before and a step after every kind of event |
| `MCStudioPage` | Whose feedback, whose decision, which runs? | three orders where two are kept, one of them with a gate (where both clicks meet; the others only fill the lists), two clicks, two reloads, one restart: the list overflows, a decision is let go while others are under way, and a second load finds what an order started during the first has saved |
| `MCWorkerHost` | Who runs, what do the script's words mean, and with which agents does a worker serve? | two pids (a worker and its successor, a stranger or a worker from outside), two roles, three agents and two runs of the script: a run cut off anywhere and its rerun; pids, roles and ids are symmetric, nothing orders them |
| `MCRejectedOrder` (violation) | Does a rejected order skip ServiceNow, as `studio.js:402` and `:500` say? | no: the incident leg never looks at the approval |
| `MCUiConflict` (violation) | Is a decision that comes too late a 409 (`server.py:200`, `tests/test_ui.py:118`)? | not when the target closed after `describe()`: the `RPCError` is not caught |
| `MCNodeActivityPermanent` (violation) | Does `permanent_error` fail on every attempt (`chaos.py:9`)? | no: `attempts`, 1 by default, limits it too |

Deadlock is checked in `MCWorkerHost` and `MCSettings` only: orders, gates, activities and clients
really end, and nobody must send anything after that.

Further facts the models show without a run of their own: a run of
`A2AWorkflow` without a context id opens one ticket for each attempt that reached
the agent (`OneTicketPerOrder` bounds them by the attempts), and the simulator's
Table API (`servicenow.py:173`) drops the correlation id that
`ServiceNowClient` sends it. "could not record decision" (`approve.py:55`) and a 500 of the
decision endpoint may stand beside a decision that took effect, when the connection broke
after the update was accepted; the comment at `approve.py:54` thinks of a closed gate only. Reading `execution_view` for its model showed that the
timeline says "Decision recorded" for every `decide` signal, the ignored ones
included (`execution.py:116`), and labels the closing event with the status of the
older description (`execution.py:125`). `services.sh` kills a worker after five
seconds (`services.sh:193`), although the worker's grace period is there to "let
in-flight activities finish on SIGTERM" (`worker.py:107`) and is longer than any
activity; and it calls the infrastructure up without a look at the OTel collector
(`services.sh:145`), which the worker requires (`docker.py:84`).

The page and the worker's script have gaps which the properties name as exceptions, each
needed: without it TLC finds the property violated. While
`init` awaits `/api/orders` (`studio.js:926`), an order can be started, selected and
decided. The list then selects another run without clearing what was said (`:937`), so
"Decision sent" may stand beside a run it is not about. Starting that order has also
saved a list without the stored runs (`:753`); the list that follows brings them back from
what `init` had read, but they are lost if it fails or the page is reloaded first. After a
failed load `startOrder`'s end enables the button that `init` had disabled (`:774`, `:944`). With a worker of
the script and another from `make worker`, `stop` ends one of them and says "Worker
stopped."; it says so too when its scan found the worker of the app's container, which
another user owns and no signal reaches. `start` calls a worker from outside "already
running" and leaves it at that.

Reading the code for the other models showed more. Timeouts that pass
`AppSettings._validate_timeouts` still let a slow pipeline's open gate be killed,
because the window counts from the gate and the execution timeout from the start
(`models.py:449`; `KilledOnlyIfItDoesNotFit` says exactly when). A child's gate is never
announced by the order command (`order.py:72`): the order sets `pending` for the inline
gate only, so `OperatorIsTold` speaks of that one. An error of `describe()` ends the
command (`order.py:85`), while the order goes on. A `${VAR}` that is not set becomes an
empty string and replaces the model's default instead of being "not provided"
(`loader.py:90`), as for the Arize endpoint of `config.docker.yaml:71`; `MCSettings` has such
an entry, and `LayersInOrder` says what the code does. `APP_CONFIG_FILE` is a variable like
the others, so exported and in `.env` it gives a worker of the script and a command two
different files, and paths count from the working directory: `AgreeUnlessShadowed` speaks
of processes started in one. An address exported empty becomes `localhost:7233` for the script's worker
(`services.sh:43`), while a command falls through to the config file.
`OPENAI_API_KEY` and `LYZR_API_KEY` are two rows for one field, so with both set OpenAI is called with
Lyzr's key. `LyzrChatModel` never gets a `session_id`, so each call starts a session of
its own (`lyzr.py:61`), although its comment has one per instance (`lyzr.py:30`).

### Fairness

A worker serves the task queue, so the steps of `run` are weakly fair in
`ApprovalWorkflow` and `OrderWorkflow`, those of the child included, and the server
starts a child that was asked for; `DecisionClients` runs under the same fairness.
Humans, messages, execution timeouts, worker crashes, restarts and replies are never fair: no liveness property needs a person to
answer or an agent to reply. In `NodeActivity` only the dispatch of a scheduled
attempt and its timeout are fair; an LLM may never return. `GraphRun` adds
the workflow itself, which goes on when a node's activity has closed. In `OrderCommand`
time passes, the server takes the start and enforces the timeouts, and the command does
its next step, if only because a query that no worker answers fails; no worker runs
anything and nobody decides, and the command still ends (`CommandEnds`). In `ExecutionView` the
page polls while it is visible and a server that is up goes on with a request;
nobody owes that it is up, which is why `ShownCatchesUp` has it as a premise. The
other modules are checked for safety only and state no fairness: in `WorkerHost`,
for example, nobody owes that a service ever answers a probe.

## Proofs

`ApprovalWorkflowProofs` proves, for any set of messages and with no assumption
but that "nobody" is not one of them (`NoCallAssumption`), every safety property
that `MCApprovalWorkflow` checks: `TypeOK`, `ConfirmedIsDecision` and that the
child workflow implements `ApprovalGate`; and three that follow from the same
invariant and need no run of their own: `DecisionHasAuthor`,
`TimeoutOverridesNobody` and `DecisionIsFinal`.

The invariant behind them adds to the properties what a single step needs to
know: a result exists exactly in a completed execution and is the decision; a
decision "via timeout" is made by the step that completes the execution, so no
message can be handled after it; a message was handled or confirmed only if there
is a decision; and the decision's author is a delivered message. With that,
`GateTimesOut` cannot override anybody, because its guard is that nobody decided,
and the messages that were handled would have made a decision. The refinement
sends handled messages to `Decide` or a stutter, the return of `run` to `Report`
and the timer to `Expire` with its report in the same step.

`OrderWorkflowProofs` proves the order's type invariant, `ConfirmedIsOutcome`,
`RightAuthority`, `OneGate` and the refinement of `ApprovalGate`, for any set of
requests, any pipeline and any messages to the two ids, which are only assumed to be
told apart (`OrderAssumption`). It composes: every step is either the order's, which
leaves the child alone, or the child's (`TwoActors`), so the child keeps the invariant of
`ApprovalWorkflowProofs`, which is instantiated for it (`ChildNextIsNext`,
`NextChildInv`), and the order uses only four facts of it (`ChildFacts`). The order's
own part (`OInv`) adds where `run` can stand with which gate (`Standing`), that only an
open inline gate confirms at the order's id (`Confirmations`), and that an order settled
through its child has a child that completed (`SettledByChild`), whose result no later
step can touch.

The same module goes on to the people and programs around the order. A client only
sends messages that the order may get anyway, so every step of `DecisionClients` is one of
`OrderWorkflow` or leaves it alone (`ClientsServeTheOrder`), and the theorems about the
order hold among its clients. `AgreementIsTrue` and `RefusalIsTrue` then prove
`AgreedIsOutcome` and `RefusedHasNoEffect` for any number of UI requests, command lines
and raw signals. Their invariant (`CInv`) adds to `OInv` that whoever decided had the
message taken (`Authored`), that an order completes settled (`CompletesSettled`), that a
client's messages are the one update it sends to the handle it found (`Own`), and that
what it was told is what became of that update, unless contact was lost (`ToldTheAnswer`):
`RefusalIsTrue` speaks of 409, "rejected" and every error that answers an update, and
leaves out the words for a lost one. The clients' message
identities are assumed to be their own and to be all there are besides raw signals
(`ClientsAssumption`): it names them, it limits nobody.

`IncidentLegProofs` proves `OneTicketPerOrder` and `ReportedIsOwn` for any number of
callers, attempts and restarts. The invariant says that a ticket's key is the context id
of an attempt its caller has made, that the table holds each key once, that the counter is
above every number, and that what is on its way back names a ticket of its caller. A
context id starts with its caller (`ContextIds`), so an upsert never returns another
caller's ticket; for a run the keys are mapped into its attempts, which bounds the
tickets' number (`TicketsByAttempt`). Both sets of callers are only assumed disjoint and
without the marker of the seeded tickets.

`OrderCommandProofs` begins with the deadlines' part of `MCOrderCommand`, for every
setting of the timeouts, the unvalidated override included. The invariant is an
account of the time a gate has been open: it never exceeds the approval window
plus the ticks in which a worker was missing, and the gate's timer starts no
earlier than the gate. `PolicyIsPatient`, which needs no run of its own, says that
the timeout policy never decides before the window has passed. Then the command is
shown to be a bystander (`CommandIsBystander`: every step of the composition is a step of
`GateDeadlines` or leaves its variables alone), so those theorems hold beside it too.
`OperatorHears` proves `OperatorIsTold` for any number of looks. Its invariant relates the
loop to the clock: each round that is over took a tick, and a gate that is open and unseen
opened after the last look at it.

The last part of that module is about the settings which the command and the worker load,
each for itself. `LayersAreInOrder` and `ProcessesAgree` prove both properties of
`MCSettings` for every table of overrides, every set of config files and whatever stands in
shells and `.env` files. The invariant over the runs is short: what a process has is what
it would load again (`LoadedIsTrue`). The work is in the loop over the table: after n rows
a field has the value of the last row that gave it one, or what it had before (`Applied`,
`TableApplies`); from there the value is the one the documented precedence names
(`SettingsAsDocumented`), and two environments that agree on a field's variables and on
`APP_CONFIG_FILE` find the same file, if any (`FileIsFound`), and give the field the same
value (`SourcesDecide`). The assumption (`SettingsAssumption`) is
that the table's fields exist, the defaults have their fields' types, the repository is
a directory, and every `${VAR}` of a config file is a variable of the table, as it is in the files of
`src/config`.

`GraphRunProofs` starts with `NodeActivity` alone, for every retry limit and
every chaos spec. The invariant counts: each attempt that was used up is exactly
one failure, injected or other, an injected failure needs a spec that hits that
attempt, and a thread that got past its injection was not to raise. `ChaosIsBounded`
follows from it: chaos alone exhausts an activity only if its spec hits every attempt.

It then lifts that to a whole run: the invariant of `NodeActivity` holds of
every node, because a new node starts from a state that satisfies it and nothing of
the one before it is left. On top of it stand two invariants. `OrderInv` says
that an order's channel is the prefix of the pipeline in front of the current stage, from
which `ChaosIsContained` follows: with no fault but injected ones, only the stage
a spec names can fail. `AgentInv` says that the agent has turns left while it runs, that
the parity of its steps tells whose turn it is, and that each earlier turn is answered
right behind its message; the lemmas before it say what appending a reply
(`ReplyFollows`) and the answers to it (`AnswersFollow`) do to the turns before. It
needs the limit to be even (`LimitAssumption`; the code's is 12): with an odd one the run
could stop behind an answer of the agent. The tools, the replies of the
LLM and the pipeline are any sequences of names.

`ExecutionViewProofs` proves the safety properties of `MCExecutionView` for a
pipeline of any length and any number of attempts. The invariant (`VInv`) puts the
three copies of the order in a line: the shown view is not ahead of the one being
read (`ViewContinues`), and neither that one nor the description is ahead of the
order (`ViewTrue`, `DescTrue`). The order itself only grows (`OrderGrows`), so what is
true of a copy stays true of it (`ViewKept`). The one place where a copy could go
back is the merge of an older description with a newer history; `DescContinues` says
what holds there: a stage that history has still not settled is the described one,
with at least the attempt that is shown, or was never shown.

`StudioPageProofs` proves the three properties of `MCStudioPage` for any orders, clicks,
capacity of the list, reloads and restarts. `FeedbackIsTrue` and `OneDecisionCounts`
(`PageTellsTheTruth`, `OneClickDecides`) rest on `SInv`: a gate that took a decision is
over for good, the click that was told so is the one recorded, what the page says was sent
was recorded, and a page that never had a run selected follows no click and says nothing.
That feedback stays beside its run is not an invariant (a late list breaks it), so it is
shown step by step: every other step that moves the selection clears what was said.
`StoreKeepsNewest` (`NewestAreKept`) needs `ListInv` besides: orders are started once, the
server's list is the tail of them, every list names started orders once, a ready page lists
what it stored, and, on a page whose last order was asked for with the list there, nothing is
listed before the list, what `init` read is still stored, and an order the page waits for is
younger than all it lists. The hard step is `init`'s loop, which merges the server's list in
front of the stored one, behind what the page has, and stops at 25: by induction over its
rounds (`TakenFrom`, `RoundTakes`) it keeps the order of first occurrence and leaves a run
out only for want of room. That the merge of two lists that are each newest first is newest
first as well holds because the server's list is a tail: a stored run that is not in it is
older than all of it (`ListedFits`, which also outlives the orders and restarts between the
server's answer and its arrival).

`WorkerHostProofs` proves the four properties of `MCWorkerHost` for any roster, any
number of runs of the provisioning script and any pids. `NothingCreatedTwice` counts: the
agents of a role and the creations still under way are at most one more than the runs have
given up, and no more than those while a run has found none and asks for none
(`CreationsCounted`). The id file and what a run or a worker has read of it never name
an agent that is not there (`IdsAreTrue`, `ReadsAreTrue`), although emptying and writing the
file are two steps; hence `WholeRosterServed`. For `services.sh` the invariant is that two
pids are never both workers of the script (`LoneWorker`), whatever runs beside them, and that
the pid a stop waits for is the only worker but for those started since, and hears signals,
unless stop was mistaken (`CommandStands`); from it follow `NeverTwoWorkers` and
`StopIsTrue`.

Every safety property that a passing run checks is thus a theorem. Two definitions are
recursive functions, the merge of the lists and the loop over the table: induction over
their rounds is derived in the two modules that need it (lemma `Induction`) from the
well-foundedness of the natural numbers, for a set of numbers instead of a predicate.

Checked by TLC only: liveness (`DecisionReturned`, `OrderCloses`, `ShownCatchesUp`,
`RunEnds`, `CommandEnds`; fairness and `ENABLED` are out of the prover's reach), and the
three runs that expect a violation.

## Not modelled, and the plan

Left out for good: observability (nothing reads it back), the Temporal client and
runtime (no state of their own), the static page, texts of prompts and messages,
search attributes (written, never read).

Out of the models' reach, though in the code: when a slot of the worker's pool of 20 is
freed after its attempt was abandoned, and what a worker that drains does with
activities under way, is decided inside the Temporal SDK; `services.sh` kills such a
worker after five seconds, and what is lost then is the same as in the crash that
`NodeActivity` has at every point. Two pages of one browser over one stored list, two
shells that start at once, and two first requests that each create a Temporal client
(`server.py:81`) are named as hazards without a property.

Next, in this order:

1. The refinements that connect models which now stand beside each other: `OrderWorkflow`
   beside the clocks of `GateDeadlines`, and the order that `ExecutionView` reads as an
   abstraction of `OrderWorkflow` over `GraphRun`.
2. Two pages of one browser over one stored list, where the one
   that saves last overwrites what the other added.

The hazards without a property in `PROJECT.json` say what else is open.
