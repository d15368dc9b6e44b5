------------------------------ MODULE GraphRun ------------------------------
(***************************************************************************)
(* A LangGraph run inside a workflow: its nodes are activities, executed   *)
(* one after the other, each as in NodeActivity.  There are two graphs:    *)
(* the hello agent of AgentWorkflow, where an LLM and its tools alternate  *)
(* under a recursion limit, and the order pipeline, a chain of roles of    *)
(* which a chaos spec may name one.  The threads that a finished node left *)
(* behind report to a closed activity, so a new node starts from scratch.  *)
(***************************************************************************)
EXTENDS NodeActivity, Sequences, SequencesExt

CONSTANTS
    Roles,      \* multi_agent.pipeline, the roles it knows
    Providers,  \* llm.provider of the worker that serves the hello agent
    Tools,      \* ALL_TOOLS, in order
    LlmReplies, \* what a tool-calling LLM may reply: the tools it asks for, none in an answer
    RunSpecs,   \* the chaos specs an order may carry
    Limit       \* _RECURSION_LIMIT

NoChaos == [target |-> "", mode |-> "none", attempts |-> 0]

\* Fault: the target of the spec is not looked at.
AimsAtAll(s, n) == [targeted |-> TRUE, mode |-> s.mode, attempts |-> s.attempts]

\* What a spec does to node n: only the roles of the pipeline call maybe_inject.
ChaosFor(s, n) == [targeted |-> s.target = n, mode |-> s.mode, attempts |-> s.attempts]

Nodes == ToSet(Roles) \cup {"agent", "tools"}

ASSUME GraphAssumption ==
    /\ Roles \in Seq(STRING) /\ Len(Roles) > 0
    /\ Tools \in Seq(STRING) /\ Len(Tools) > 0
    /\ Providers \subseteq {"fake", "lyzr", "openai"}
    /\ <<>> \in LlmReplies /\ \A call \in LlmReplies : call \in Seq(STRING)
    /\ \A s \in RunSpecs \cup {NoChaos}, n \in Nodes : ChaosFor(s, n) \in ChaosSpecs

\* The limit is 12: the agent and its tools have whole turns.
ASSUME LimitAssumption == Limit \in Nat \ {0} /\ Limit % 2 = 0

VARIABLES
    graph,    \* the graph this run compiles
    provider, \* the model behind agent_node
    spec,     \* the `chaos` of the order's state
    node,     \* the node that is executed, or was last
    steps,    \* nodes that have returned
    channel,  \* `messages` of the agent, the stages an order's state has texts for
    outcome   \* of the workflow: what it returned, or how it ended

runVars == <<graph, provider, spec, node, steps, channel, outcome>>
allVars == <<vars, runVars>>

\* A message: its author and the tool calls it carries, or the one it answers.
Question       == [by |-> "human", calls |-> <<>>]
Reply(n, call) == [by |-> "ai", calls |-> [i \in DOMAIN call |-> [id |-> <<n, i>>, tool |-> call[i]]]]
ToolMessage(c) == [by |-> "tool", calls |-> <<>>, answers |-> c.id,
                   status |-> IF c.tool \in ToSet(Tools) THEN "success" ELSE "error"]

GraphInit ==
    /\ \/ /\ graph = "agent" /\ node = "agent" /\ spec = NoChaos
          /\ provider \in Providers /\ channel = <<Question>>
       \/ /\ graph = "order" /\ node = Head(Roles) /\ spec \in RunSpecs
          /\ provider = "openai" /\ channel = <<>>
    /\ steps = 0
    /\ outcome = "running"
    /\ chaos = ChaosFor(spec, node)
    /\ state = "scheduled"
    /\ attempt = 1
    /\ thread = [k \in Attempts |-> "none"]
    /\ winner = 0
    /\ injected = 0
    /\ faults = 0

-----------------------------------------------------------------------------

\* The activity of the current node takes a step.
NodeStep == outcome = "running" /\ Next /\ UNCHANGED runVars

\* FakeToolCallingModel: one call of the first tool, then an answer with its result.
FakeReplies ==
    IF \E i \in DOMAIN channel : channel[i].by = "tool" THEN {<<>>} ELSE {<<Head(Tools)>>}

\* A Lyzr agent has its tools on its own side and returns text only.
Replies == CASE provider = "fake" -> FakeReplies
             [] provider = "lyzr" -> {<<>>}
             [] OTHER -> LlmReplies

\* Fault: messages stay the dicts they arrived as, which have no tool_calls.
RouteOnDicts(m) == "END"

\* route_from_agent with tools_condition.
RouteFromAgent(m) == IF m.calls # <<>> THEN "tools" ELSE "END"

\* Fault: unknown tools are left out.
KnownOnly(calls) ==
    LET known == SelectSeq(calls, LAMBDA c : c.tool \in ToSet(Tools))
    IN  [i \in DOMAIN known |-> ToolMessage(known[i])]

\* tools_node: every call of the last message gets its message, an error if the tool is unknown.
ToolsNode(calls) == [i \in DOMAIN calls |-> ToolMessage(calls[i])]

\* LangGraph raises GraphRecursionError when the nodes used up the limit, whatever comes next.
OutOfSteps == steps + 1 >= Limit

\* The next node becomes an activity of its own.
ScheduleNode(n) ==
    /\ node' = n
    /\ chaos' = ChaosFor(spec, n)
    /\ state' = "scheduled" /\ attempt' = 1
    /\ thread' = [k \in Attempts |-> "none"]
    /\ winner' = 0 /\ injected' = 0 /\ faults' = 0

\* Fault: the error is not caught, so the workflow task that raises it fails on every try.
RaisesInWorkflow(next) ==
    /\ ~OutOfSteps
    /\ steps' = steps + 1
    /\ \/ next = "END" /\ outcome' = "answered" /\ UNCHANGED <<vars, node>>
       \/ next # "END" /\ ScheduleNode(next) /\ UNCHANGED outcome

\* AgentWorkflow.run after a node: the next one, the answer, or the notice that turns are used up.
Continue(next) ==
    /\ steps' = steps + 1
    /\ \/ OutOfSteps /\ outcome' = "turn_limit" /\ UNCHANGED <<vars, node>>
       \/ ~OutOfSteps /\ next = "END" /\ outcome' = "answered" /\ UNCHANGED <<vars, node>>
       \/ ~OutOfSteps /\ next # "END" /\ ScheduleNode(next) /\ UNCHANGED outcome

NodeReturned == outcome = "running" /\ state = "completed"

\* agent_node returned the LLM's reply.
AgentReturns ==
    /\ NodeReturned /\ graph = "agent" /\ node = "agent"
    /\ \E call \in Replies :
          /\ channel' = Append(channel, Reply(steps, call))
          /\ Continue(RouteFromAgent(Reply(steps, call)))
    /\ UNCHANGED <<graph, provider, spec>>

ToolsReturn ==
    /\ NodeReturned /\ graph = "agent" /\ node = "tools"
    /\ channel' = channel \o ToolsNode(Last(channel).calls)
    /\ Continue("agent")
    /\ UNCHANGED <<graph, provider, spec>>

\* A role returned its stage's text; the chain of build_order_graph goes on (LangGraph's
\* own limit is far beyond the six known roles).
RoleReturns ==
    /\ NodeReturned /\ graph = "order"
    /\ channel' = Append(channel, node)
    /\ steps' = steps + 1
    /\ \/ /\ steps + 1 < Len(Roles) /\ ScheduleNode(Roles[steps + 2])
          /\ UNCHANGED outcome
       \/ /\ steps + 1 = Len(Roles) /\ outcome' = "answered"
          /\ UNCHANGED <<vars, node>>
    /\ UNCHANGED <<graph, provider, spec>>

\* An activity that failed for good fails the run.
NodeFailed ==
    /\ outcome = "running" /\ state = "failed"
    /\ outcome' = "failed"
    /\ UNCHANGED <<vars, graph, provider, spec, node, steps, channel>>

\* The execution timeout the command gave the workflow.
RunTimesOut ==
    /\ outcome = "running"
    /\ outcome' = "timed_out"
    /\ UNCHANGED <<vars, graph, provider, spec, node, steps, channel>>

Workflow == AgentReturns \/ ToolsReturn \/ RoleReturns \/ NodeFailed

GraphNext == NodeStep \/ Workflow \/ RunTimesOut

\* A worker serves the queue: Temporal dispatches and times out attempts, and the
\* workflow goes on when a node's activity has closed.
GraphFairness ==
    /\ WF_allVars(NodeStep /\ StartAttempt) /\ WF_allVars(NodeStep /\ AttemptTimesOut)
    /\ WF_allVars(Workflow)

GraphSpec == GraphInit /\ [][GraphNext]_allVars /\ GraphFairness

-----------------------------------------------------------------------------

AiTurns == {i \in DOMAIN channel : channel[i].by = "ai"}

\* The agent is never called with a tool call left open, which an LLM API refuses:
\* each call, of a tool that exists or of one the LLM made up, is answered right
\* behind its message, once and in order.
EveryCallAnswered ==
    graph = "agent" /\ node = "agent" /\ outcome = "running" =>
        \A i \in AiTurns : LET n == Len(channel[i].calls) IN
            /\ i + n <= Len(channel)
            /\ \A j \in 1..n : /\ channel[i + j].by = "tool"
                              /\ channel[i + j].answers = channel[i].calls[j].id
            /\ i + n < Len(channel) => channel[i + n + 1].by = "ai"

\* What the agent returns is an LLM's answer, and it gives up only after as many
\* turns as it has, each of which wanted more tools (agent_workflow.py:22, "so an
\* unbounded loop fails cleanly").
AnswerOrLimit ==
    graph = "agent" =>
        /\ outcome = "answered" => Last(channel).by = "ai" /\ Last(channel).calls = <<>>
        /\ outcome = "turn_limit" => steps = Limit /\ \A i \in AiTurns : channel[i].calls # <<>>

\* A chaos spec touches the stage it names and no other: an order that failed with no
\* fault but injected ones failed there, behind exactly the stages in front of it,
\* and one that was answered has every stage's text, once and in order.
ChaosStaysInItsStage ==
    graph = "order" =>
        /\ outcome = "failed" /\ faults = 0 =>
              node = spec.target /\ Append(channel, node) = SubSeq(Roles, 1, steps + 1)
        /\ outcome = "answered" => channel = Roles

\* Every run ends: attempts, timeouts and turns are bounded.
RunEnds == <>(outcome # "running")
=============================================================================
