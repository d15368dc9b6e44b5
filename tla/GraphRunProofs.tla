--------------------------- MODULE GraphRunProofs ---------------------------
(***************************************************************************)
(* What holds of a run whatever its graph, its chaos spec and its LLM.     *)
(* First one activity alone: what chaos and late threads cannot do to it,  *)
(* for every retry limit and every chaos spec.  Then the run: the facts    *)
(* about one activity carry over to every node, chaos stays in the stage it *)
(* names, and the agent's conversation stays well-formed.                  *)
(***************************************************************************)
EXTENDS GraphRun, SequenceTheorems, TLAPS

-----------------------------------------------------------------------------
(* One activity (NodeActivity). *)

\* Every attempt but a living or successful last one failed, and was counted once.
Counted ==
    injected + faults = IF state = "failed" THEN attempt ELSE attempt - 1

\* A spec that never hits leaves no injected failure; without other faults an
\* activity fails on its last attempt only.
InjectionsHit ==
    /\ injected > 0 => chaos.targeted /\ chaos.mode \in {"transient_error", "permanent_error"}
    /\ chaos.attempts # 0 => injected <= chaos.attempts
    /\ state = "failed" /\ faults = 0 => injected = MaxAttempts

\* A thread that got past its injection was not to raise.
PassedUnharmed == \A k \in Attempts : thread[k] \in {"sleeping", "llm"} => ~Raises(k)

AInv == TypeOK /\ Counted /\ InjectionsHit /\ PassedUnharmed /\ ResultIsCurrent

LEMMA AttemptNumbers == 1 \in Attempts /\ Attempts \subseteq Nat /\ MaxAttempts \in Attempts
  BY ActivityAssumption DEF Attempts

LEMMA InitAInv == Init => AInv
  BY ActivityAssumption, AttemptNumbers
     DEF Init, AInv, TypeOK, Counted, InjectionsHit, PassedUnharmed, ResultIsCurrent

LEMMA RaisesIsFixed ==
    ASSUME chaos' = chaos, NEW k \in Attempts PROVE Raises(k)' <=> Raises(k)
  BY DEF Raises, Injects, AppliesTo

LEMMA NextAInv == AInv /\ [Next]_vars => AInv'
  <1> SUFFICES ASSUME AInv, [Next]_vars PROVE AInv'
    OBVIOUS
  <1> USE ActivityAssumption, AttemptNumbers DEF AInv
  <1>1. chaos' = chaos /\ \A k \in Attempts : Raises(k)' <=> Raises(k)
    <2>1. chaos' = chaos
      BY DEF Next, vars, StartAttempt, AttemptTimesOut, InjectError, PassInjection, Answered, LlmFails
    <2> QED
      BY <2>1, RaisesIsFixed
  <1>2. CASE StartAttempt
    BY <1>1, <1>2
       DEF StartAttempt, TypeOK, Counted, InjectionsHit, PassedUnharmed, ResultIsCurrent
  <1>3. CASE AttemptTimesOut
    BY <1>1, <1>3
       DEF AttemptTimesOut, Retry, Attempts, TypeOK, Counted, InjectionsHit, PassedUnharmed, ResultIsCurrent
  <1>4. ASSUME NEW k \in Attempts, InjectError(k) PROVE AInv'
    <2>1. TypeOK'
      BY <1>4 DEF InjectError, Retry, Attempts, TypeOK
    <2>2. Counted'
      <3>1. CASE Current(k)
        <4>1. injected' = injected + 1 /\ faults' = faults /\ injected + faults = attempt - 1
          BY <1>4, <3>1 DEF InjectError, Current, Counted
        <4>2. Retry
          BY <1>4, <3>1 DEF InjectError
        <4> QED
          BY <4>1, <4>2 DEF Retry, Attempts, TypeOK, Counted
      <3>2. CASE ~Current(k)
        BY <1>4, <3>2 DEF InjectError, Counted
      <3> QED
        BY <3>1, <3>2
    <2>3. InjectionsHit'
      BY <1>4 DEF InjectError, Retry, Current, Raises, Injects, AppliesTo, Attempts, TypeOK, Counted, InjectionsHit
    <2>4. PassedUnharmed'
      BY <1>1, <1>4 DEF InjectError, TypeOK, PassedUnharmed
    <2>5. ResultIsCurrent'
      BY <1>1, <1>4 DEF InjectError, Retry, Current, TypeOK, ResultIsCurrent
    <2> QED
      BY <2>1, <2>2, <2>3, <2>4, <2>5
  <1>5. ASSUME NEW k \in Attempts, PassInjection(k) PROVE AInv'
    BY <1>1, <1>5
       DEF PassInjection, TypeOK, Counted, InjectionsHit, PassedUnharmed, ResultIsCurrent
  <1>6. ASSUME NEW k \in Attempts, Answered(k) PROVE AInv'
    <2>1. TypeOK'
      BY <1>6 DEF Answered, Attempts, TypeOK
    <2>2. Counted' /\ InjectionsHit'
      BY <1>6 DEF Answered, Current, TypeOK, Counted, InjectionsHit
    <2>3. PassedUnharmed' /\ ResultIsCurrent'
      BY <1>1, <1>6 DEF Answered, Current, TypeOK, PassedUnharmed, ResultIsCurrent
    <2> QED
      BY <2>1, <2>2, <2>3
  <1>7. ASSUME NEW k \in Attempts, LlmFails(k) PROVE AInv'
    <2>1. TypeOK'
      BY <1>7 DEF LlmFails, Retry, Attempts, TypeOK
    <2>2. Counted' /\ InjectionsHit'
      BY <1>7 DEF LlmFails, Retry, Current, Attempts, TypeOK, Counted, InjectionsHit
    <2>3. PassedUnharmed' /\ ResultIsCurrent'
      BY <1>1, <1>7 DEF LlmFails, Retry, Current, TypeOK, PassedUnharmed, ResultIsCurrent
    <2> QED
      BY <2>1, <2>2, <2>3
  <1>8. CASE UNCHANGED vars
    BY <1>1, <1>8 DEF vars, TypeOK, Counted, InjectionsHit, PassedUnharmed, ResultIsCurrent
  <1> QED
    BY <1>2, <1>3, <1>4, <1>5, <1>6, <1>7, <1>8 DEF Next

LEMMA AlwaysAInv == Spec => []AInv
  BY InitAInv, NextAInv, PTL DEF Spec

\* The activity's state keeps its types; attempts never exceed the policy's.
THEOREM ActivityTyped == Spec => []TypeOK
  <1>1. AInv => TypeOK
    BY DEF AInv
  <1> QED
    BY <1>1, AlwaysAInv, PTL

\* Every attempt that was used up failed, and chaos hits no more often than its spec
\* says (chaos.py:39).
THEOREM NoFreeAttempts == Spec => []FailuresAreAccounted
  <1>1. AInv => FailuresAreAccounted
    BY AttemptNumbers DEF AInv, TypeOK, Counted, InjectionsHit, FailuresAreAccounted
  <1> QED
    BY <1>1, AlwaysAInv, PTL

\* Injected errors alone exhaust an activity only if the spec hits every attempt
\* (chaos.py:7 "fail on the first N attempts, then succeed").
THEOREM ChaosIsBounded == Spec => []ChaosExhaustsOnlyIfAsked
  <1>1. AInv => ChaosExhaustsOnlyIfAsked
    BY ActivityAssumption
       DEF AInv, TypeOK, Attempts, Counted, InjectionsHit, ChaosExhaustsOnlyIfAsked,
           Raises, Injects, AppliesTo
  <1> QED
    BY <1>1, AlwaysAInv, PTL

\* Only the current attempt, unharmed by chaos, completes an activity (multi.py:55).
THEOREM LateThreadsChangeNothing == Spec => []ResultIsCurrent
  <1>1. AInv => ResultIsCurrent
    BY DEF AInv
  <1> QED
    BY <1>1, AlwaysAInv, PTL

-----------------------------------------------------------------------------
(* A run of activities (GraphRun). *)

\* The current node, the spec it runs under, and how far the run is.
RunTyped ==
    /\ graph \in {"agent", "order"}
    /\ node \in Nodes
    /\ spec \in RunSpecs \cup {NoChaos}
    /\ chaos = ChaosFor(spec, node)
    /\ steps \in Nat
    /\ graph = "agent" => node \in {"agent", "tools"}

RInv == AInv /\ RunTyped

LEMMA RoleIsNode == ASSUME NEW i \in 1..Len(Roles) PROVE Roles[i] \in Nodes
  BY GraphAssumption DEF Nodes, ToSet

LEMMA ScheduledInit ==
    ASSUME NEW n \in Nodes, RunTyped, spec' = spec, ScheduleNode(n)
    PROVE  Init' /\ node' = n /\ chaos' = ChaosFor(spec', node')
  BY GraphAssumption DEF ScheduleNode, RunTyped, Init

LEMMA ScheduledAInv == Init' => AInv'
  BY InitAInv, PTL

LEMMA InitRInv == GraphInit => RInv
  <1> SUFFICES ASSUME GraphInit PROVE RInv
    OBVIOUS
  <1>1. Head(Roles) = Roles[1] /\ Roles[1] \in Nodes
    BY RoleIsNode, GraphAssumption
  <1>2. RunTyped
    BY <1>1 DEF GraphInit, RunTyped, Nodes
  <1>3. Init
    BY <1>2, GraphAssumption DEF GraphInit, RunTyped, Init
  <1> QED
    BY <1>2, <1>3, InitAInv DEF RInv

LEMMA NextRInv == RInv /\ [GraphNext]_allVars => RInv'
  <1> SUFFICES ASSUME RInv, [GraphNext]_allVars PROVE RInv'
    OBVIOUS
  <1> USE DEF RInv
  <1>1. CASE NodeStep
    <2>1. AInv'
      BY <1>1, NextAInv DEF NodeStep
    <2>2. chaos' = chaos
      BY <1>1 DEF NodeStep, Next, StartAttempt, AttemptTimesOut, InjectError, PassInjection,
                  Answered, LlmFails
    <2> QED
      BY <1>1, <2>1, <2>2 DEF NodeStep, runVars, RunTyped
  <1>2. ASSUME NEW n \in Nodes, ScheduleNode(n), steps' = steps + 1, UNCHANGED <<graph, spec>>,
               graph = "agent" => n \in {"agent", "tools"}
        PROVE  RInv'
    <2>1. Init' /\ node' = n /\ chaos' = ChaosFor(spec', node')
      BY <1>2, ScheduledInit
    <2>2. AInv'
      BY <2>1, ScheduledAInv
    <2> QED
      BY <1>2, <2>1, <2>2 DEF RunTyped
  <1>3. ASSUME UNCHANGED <<vars, node, graph, spec>>, steps' \in {steps, steps + 1} PROVE RInv'
    <2>1. AInv'
      BY <1>3, NextAInv
    <2> QED
      BY <1>3, <2>1 DEF RunTyped, vars
  <1>4. ASSUME NEW next \in {"END", "agent", "tools"}, Continue(next), UNCHANGED <<graph, spec>>,
               graph = "agent"
        PROVE  RInv'
    <2>1. CASE UNCHANGED <<vars, node>>
      BY <1>3, <1>4, <2>1 DEF Continue
    <2>2. CASE next # "END" /\ ScheduleNode(next)
      BY <1>2, <1>4, <2>2 DEF Continue, Nodes
    <2> QED
      BY <1>4, <2>1, <2>2 DEF Continue
  <1>5. CASE AgentReturns
    BY <1>4, <1>5 DEF AgentReturns, RouteFromAgent
  <1>6. CASE ToolsReturn
    BY <1>4, <1>6 DEF ToolsReturn
  <1>7. CASE RoleReturns
    <2>1. CASE steps + 1 < Len(Roles) /\ ScheduleNode(Roles[steps + 2])
      <3>1. Roles[steps + 2] \in Nodes
        BY <2>1, RoleIsNode, GraphAssumption DEF RunTyped
      <3> QED
        BY <1>2, <1>7, <2>1, <3>1 DEF RoleReturns
    <2>2. CASE UNCHANGED <<vars, node>>
      BY <1>3, <1>7, <2>2 DEF RoleReturns
    <2> QED
      BY <1>7, <2>1, <2>2 DEF RoleReturns
  <1>8. CASE NodeFailed \/ RunTimesOut
    BY <1>3, <1>8 DEF NodeFailed, RunTimesOut
  <1>9. CASE UNCHANGED allVars
    BY <1>3, <1>9 DEF allVars, runVars
  <1> QED
    BY <1>1, <1>5, <1>6, <1>7, <1>8, <1>9 DEF GraphNext, Workflow

LEMMA AlwaysRInv == GraphSpec => []RInv
  BY InitRInv, NextRInv, PTL DEF GraphSpec

\* The facts about one activity hold of every node of every run: types and attempts.
THEOREM NodesTyped == GraphSpec => []TypeOK
  <1>1. RInv => TypeOK
    BY DEF RInv, AInv
  <1> QED
    BY <1>1, AlwaysRInv, PTL

\* Each attempt a node used up is one counted failure (chaos.py:39).
THEOREM NodesAccounted == GraphSpec => []FailuresAreAccounted
  <1>1. RInv => FailuresAreAccounted
    BY AttemptNumbers DEF RInv, AInv, TypeOK, Counted, InjectionsHit, FailuresAreAccounted
  <1> QED
    BY <1>1, AlwaysRInv, PTL

\* Only a node's current attempt, unharmed by chaos, lets the run go on (multi.py:55).
THEOREM NodesAreCurrent == GraphSpec => []ResultIsCurrent
  <1>1. RInv => ResultIsCurrent
    BY DEF RInv, AInv
  <1> QED
    BY <1>1, AlwaysRInv, PTL

-----------------------------------------------------------------------------
(* The order pipeline *)

\* An order stands at the role behind exactly the stages it has texts of.
OnItsWay == steps < Len(Roles) /\ node = Roles[steps + 1] /\ channel = SubSeq(Roles, 1, steps)

OrderInv ==
    graph = "order" =>
        /\ outcome \in {"running", "answered", "failed", "timed_out"}
        /\ IF outcome = "answered" THEN channel = Roles ELSE OnItsWay
        /\ outcome = "failed" => state = "failed"

LEMMA OneRoleMore ==
    ASSUME NEW k \in 0..(Len(Roles) - 1)
    PROVE  Append(SubSeq(Roles, 1, k), Roles[k + 1]) = SubSeq(Roles, 1, k + 1)
  BY GraphAssumption

LEMMA AllRoles == SubSeq(Roles, 1, Len(Roles)) = Roles
  BY GraphAssumption, SubSeqFull

LEMMA InitOrderInv == GraphInit => OrderInv
  <1> SUFFICES ASSUME GraphInit, graph = "order" PROVE OrderInv
    BY DEF OrderInv
  <1>1. SubSeq(Roles, 1, 0) = <<>>
    BY GraphAssumption
  <1>2. Head(Roles) = Roles[1]
    BY GraphAssumption
  <1> QED
    BY <1>1, <1>2, GraphAssumption DEF GraphInit, OrderInv, OnItsWay

LEMMA NextOrderInv == RInv /\ OrderInv /\ [GraphNext]_allVars => OrderInv'
  <1> SUFFICES ASSUME RInv, OrderInv, [GraphNext]_allVars, graph' = "order" PROVE OrderInv'
    BY DEF OrderInv
  <1>0. graph = "order"
    BY DEF GraphNext, NodeStep, Workflow, AgentReturns, ToolsReturn, RoleReturns, NodeFailed,
           RunTimesOut, allVars, runVars
  <1>1. CASE NodeStep
    BY <1>0, <1>1 DEF NodeStep, runVars, OrderInv, OnItsWay
  <1>2. CASE RoleReturns
    <2>1. steps \in Nat /\ outcome = "running" /\ OnItsWay
      BY <1>0, <1>2 DEF RoleReturns, NodeReturned, OrderInv, RInv, RunTyped
    <2>2. channel' = SubSeq(Roles, 1, steps + 1)
      BY <1>2, <2>1, OneRoleMore, GraphAssumption DEF RoleReturns, OnItsWay
    <2>3. CASE steps + 1 < Len(Roles)
      BY <1>2, <2>1, <2>2, <2>3 DEF RoleReturns, ScheduleNode, NodeReturned, OrderInv, OnItsWay
    <2>4. CASE steps + 1 = Len(Roles)
      BY <1>2, <2>1, <2>2, <2>4, AllRoles DEF RoleReturns, OrderInv
    <2> QED
      BY <1>2, <2>3, <2>4 DEF RoleReturns
  <1>3. CASE NodeFailed \/ RunTimesOut
    BY <1>0, <1>3 DEF NodeFailed, RunTimesOut, vars, OrderInv, OnItsWay
  <1>4. CASE UNCHANGED allVars
    BY <1>0, <1>4 DEF allVars, runVars, vars, OrderInv, OnItsWay
  <1> QED
    BY <1>0, <1>1, <1>2, <1>3, <1>4 DEF GraphNext, Workflow, AgentReturns, ToolsReturn

LEMMA AlwaysOrderInv == GraphSpec => []OrderInv
  BY InitOrderInv, NextOrderInv, AlwaysRInv, PTL DEF GraphSpec

\* For every pipeline and spec: chaos alone fails an order only in the stage it names,
\* behind all the stages in front of it, and an answer has every stage (chaos.py:52).
THEOREM ChaosIsContained == GraphSpec => []ChaosStaysInItsStage
  <1>1. RInv /\ OrderInv => ChaosStaysInItsStage
    <2> SUFFICES ASSUME RInv, OrderInv, graph = "order",
                        (outcome = "failed" /\ faults = 0) \/ outcome = "answered"
                 PROVE  ChaosStaysInItsStage
      BY DEF ChaosStaysInItsStage
    <2>1. CASE outcome = "answered"
      BY <2>1 DEF OrderInv, ChaosStaysInItsStage
    <2>2. CASE outcome = "failed" /\ faults = 0
      <3>1. injected = MaxAttempts /\ MaxAttempts > 0
        BY <2>2, ActivityAssumption DEF OrderInv, RInv, AInv, InjectionsHit
      <3>2. node = spec.target
        BY <3>1 DEF RInv, AInv, InjectionsHit, RunTyped, ChaosFor
      <3>3. OnItsWay /\ steps \in Nat
        BY <2>2 DEF OrderInv, RInv, RunTyped
      <3>4. Append(channel, node) = SubSeq(Roles, 1, steps + 1)
        BY <3>3, OneRoleMore, GraphAssumption DEF OnItsWay
      <3> QED
        BY <2>2, <3>2, <3>4 DEF ChaosStaysInItsStage
    <2> QED
      BY <2>1, <2>2
  <1> QED
    BY <1>1, AlwaysRInv, AlwaysOrderInv, PTL

-----------------------------------------------------------------------------
(* The agent's conversation *)

Asked == [id : Nat \X Nat, tool : STRING]
Messages == [by : {"human", "ai"}, calls : Seq(Asked)]
              \cup [by : {"tool"}, calls : {<<>>}, answers : Nat \X Nat, status : {"success", "error"}]

\* Message i and the answers to its calls, right behind it.
TurnAnswered(ch, i) ==
    LET n == Len(ch[i].calls) IN
        /\ i + n <= Len(ch)
        /\ \A j \in 1..n : /\ ch[i + j].by = "tool"
                          /\ ch[i + j].answers = ch[i].calls[j].id
        /\ i + n < Len(ch) => ch[i + n + 1].by = "ai"

LEMMA CallsTyped == ASSUME NEW m \in Messages PROVE m.calls \in Seq(Asked)
  <1>1. <<>> \in Seq(Asked)
    OBVIOUS
  <1> QED
    BY <1>1 DEF Messages

LEMMA QuestionTyped == Question \in Messages /\ Question.by = "human"
  BY DEF Question, Messages

LEMMA ReplyTyped ==
    ASSUME NEW n \in Nat, NEW call \in Seq(STRING)
    PROVE  /\ Reply(n, call) \in Messages
           /\ Reply(n, call).by = "ai"
           /\ Reply(n, call).calls = <<>> <=> call = <<>>
  <1> DEFINE cs == [i \in DOMAIN call |-> [id |-> <<n, i>>, tool |-> call[i]]]
  <1>1. DOMAIN call = 1..Len(call) /\ Len(call) \in Nat /\ \A i \in 1..Len(call) : call[i] \in STRING
    OBVIOUS
  <1>2. \A i \in 1..Len(call) : [id |-> <<n, i>>, tool |-> call[i]] \in Asked
    BY <1>1 DEF Asked
  <1>3. cs \in Seq(Asked) /\ Len(cs) = Len(call)
    BY <1>1, <1>2
  <1>4. Reply(n, call) = [by |-> "ai", calls |-> cs]
    BY DEF Reply
  <1>5. Reply(n, call) \in Messages
    BY <1>3, <1>4 DEF Messages
  <1>6. cs = <<>> <=> call = <<>>
    BY <1>3
  <1> QED
    BY <1>4, <1>5, <1>6

LEMMA AnswersTyped ==
    ASSUME NEW calls \in Seq(Asked)
    PROVE  /\ ToolsNode(calls) \in Seq(Messages)
           /\ Len(ToolsNode(calls)) = Len(calls)
           /\ \A j \in 1..Len(calls) : /\ ToolsNode(calls)[j].by = "tool"
                                       /\ ToolsNode(calls)[j].answers = calls[j].id
  <1>1. ASSUME NEW c \in Asked
        PROVE  ToolMessage(c) \in Messages /\ ToolMessage(c).by = "tool" /\ ToolMessage(c).answers = c.id
    BY <1>1 DEF ToolMessage, Messages, Asked
  <1>2. DOMAIN calls = 1..Len(calls) /\ \A j \in 1..Len(calls) : calls[j] \in Asked
    OBVIOUS
  <1>3. ToolsNode(calls) = [j \in 1..Len(calls) |-> ToolMessage(calls[j])]
    BY <1>2 DEF ToolsNode
  <1> QED
    BY <1>1, <1>2, <1>3

LEMMA ReplyFollows ==
    ASSUME NEW ch \in Seq(Messages), NEW m \in Messages, m.by = "ai",
           NEW i \in 1..Len(ch), TurnAnswered(ch, i)
    PROVE  TurnAnswered(Append(ch, m), i)
  <1> DEFINE n == Len(ch[i].calls)
  <1>1. n \in Nat
    BY CallsTyped, ElementOfSeq, LenProperties
  <1>2. /\ Len(Append(ch, m)) = Len(ch) + 1 /\ Append(ch, m)[Len(ch) + 1] = m
        /\ \A k \in 1..Len(ch) : Append(ch, m)[k] = ch[k]
    OBVIOUS
  <1>3. i + n <= Len(ch)
    BY DEF TurnAnswered
  <1>4. \A j \in 1..n : i + j \in 1..Len(ch)
    BY <1>1, <1>3
  <1>5. \A j \in 1..n : Append(ch, m)[i + j].by = "tool"
                       /\ Append(ch, m)[i + j].answers = ch[i].calls[j].id
    BY <1>2, <1>4 DEF TurnAnswered
  <1>6. Append(ch, m)[i + n + 1].by = "ai"
    <2>1. CASE i + n < Len(ch)
      BY <1>1, <1>2, <2>1 DEF TurnAnswered
    <2>2. CASE i + n = Len(ch)
      BY <1>2, <2>2
    <2> QED
      BY <1>1, <1>3, <2>1, <2>2
  <1> DEFINE longer == Append(ch, m)
  <1>7. longer[i] = ch[i] /\ Len(longer) = Len(ch) + 1
    BY <1>2
  <1>8. /\ i + n <= Len(longer)
        /\ \A j \in 1..n : longer[i + j].by = "tool" /\ longer[i + j].answers = longer[i].calls[j].id
        /\ i + n < Len(longer) => longer[i + n + 1].by = "ai"
    BY <1>1, <1>3, <1>5, <1>6, <1>7
  <1> QED
    BY <1>7, <1>8 DEF TurnAnswered

LEMMA ConcatPoints ==
    ASSUME NEW S, NEW s \in Seq(S), NEW t \in Seq(S)
    PROVE  /\ Len(s \o t) = Len(s) + Len(t)
           /\ \A k \in 1..Len(s) : (s \o t)[k] = s[k]
           /\ \A j \in 1..Len(t) : (s \o t)[Len(s) + j] = t[j]
  OBVIOUS

LEMMA AnswersFollow ==
    ASSUME NEW ch \in Seq(Messages), Len(ch) > 0, Last(ch).by = "ai"
    PROVE  LET longer == ch \o ToolsNode(Last(ch).calls) IN
             /\ TurnAnswered(longer, Len(ch))
             /\ \A i \in 1..(Len(ch) - 1) :
                  ch[i].by = "ai" /\ TurnAnswered(ch, i) => TurnAnswered(longer, i)
  <1> DEFINE L == Len(ch)
             ts == ToolsNode(Last(ch).calls)
             longer == ch \o ts
  <1>1. L \in Nat \ {0} /\ Last(ch) = ch[L] /\ ch[L] \in Messages /\ ch[L].calls \in Seq(Asked)
    BY CallsTyped DEF Last
  <1>2. /\ ts \in Seq(Messages) /\ Len(ts) = Len(ch[L].calls)
        /\ \A j \in 1..Len(ts) : ts[j].by = "tool" /\ ts[j].answers = ch[L].calls[j].id
    BY <1>1, AnswersTyped
  <1>3. /\ Len(longer) = L + Len(ts)
        /\ \A k \in 1..L : longer[k] = ch[k]
        /\ \A j \in 1..Len(ts) : longer[L + j] = ts[j]
    <2>1. ts \in Seq(Messages)
      BY <1>2
    <2> HIDE DEF ts
    <2> QED
      BY <2>1
  <1>4. TurnAnswered(longer, L)
    BY <1>1, <1>2, <1>3 DEF TurnAnswered
  <1>5. ASSUME NEW i \in 1..(L - 1), ch[i].by = "ai", TurnAnswered(ch, i)
        PROVE  TurnAnswered(longer, i)
    <2>1. ch[i].calls \in Seq(Asked) /\ longer[i] = ch[i]
      BY <1>1, <1>3, CallsTyped
    <2>2. i + Len(ch[i].calls) <= L
      BY <1>5 DEF TurnAnswered
    <2>3. i + Len(ch[i].calls) < L
      <3>1. ASSUME i + Len(ch[i].calls) = L PROVE ch[L].by = "tool"
        BY <1>1, <1>5, <2>1, <3>1 DEF TurnAnswered
      <3> QED
        BY <1>1, <2>1, <2>2, <3>1
    <2> QED
      BY <1>1, <1>3, <1>5, <2>1, <2>3 DEF TurnAnswered
  <1> QED
    BY <1>1, <1>4, <1>5

\* While it runs the agent has turns left, has only ever asked for tools, and every
\* call of an earlier turn is answered; it may have given up or answered.
AgentInv ==
    graph = "agent" =>
        /\ channel \in Seq(Messages) /\ Len(channel) > 0
        /\ outcome \in {"running", "turn_limit"} => \A i \in AiTurns : channel[i].calls # <<>>
        /\ outcome = "running" =>
              /\ steps < Limit /\ steps % 2 = (IF node = "agent" THEN 0 ELSE 1)
              /\ node = "agent" => \A i \in AiTurns : TurnAnswered(channel, i)
              /\ node = "tools" =>
                    /\ Last(channel).by = "ai"
                    /\ \A i \in AiTurns \ {Len(channel)} : TurnAnswered(channel, i)
        /\ outcome = "turn_limit" => steps = Limit
        /\ outcome = "answered" => Last(channel).by = "ai" /\ Last(channel).calls = <<>>

LEMMA InitAgentInv == GraphInit => AgentInv
  <1> SUFFICES ASSUME GraphInit, graph = "agent" PROVE AgentInv
    BY DEF AgentInv
  <1>1. channel = <<Question>> /\ steps = 0 /\ node = "agent" /\ outcome = "running"
    BY DEF GraphInit
  <1>2. channel \in Seq(Messages) /\ Len(channel) = 1 /\ DOMAIN channel = {1} /\ channel[1] = Question
    BY <1>1, QuestionTyped
  <1>3. AiTurns = {}
    BY <1>2, QuestionTyped DEF AiTurns
  <1> QED
    BY <1>1, <1>2, <1>3, LimitAssumption DEF AgentInv

LEMMA RepliesTyped == ASSUME NEW call \in Replies PROVE call \in Seq(STRING)
  <1>1. <<>> \in Seq(STRING) /\ <<Head(Tools)>> \in Seq(STRING)
    BY GraphAssumption
  <1> QED
    BY <1>1, GraphAssumption DEF Replies, FakeReplies

LEMMA AgentReturnsInv ==
    ASSUME RInv, AgentInv, AgentReturns PROVE AgentInv'
  <1>1. PICK call \in Replies : /\ channel' = Append(channel, Reply(steps, call))
                                /\ Continue(RouteFromAgent(Reply(steps, call)))
    BY DEF AgentReturns
  <1> DEFINE m == Reply(steps, call)
             L == Len(channel)
  <1>2. /\ graph = "agent" /\ node = "agent" /\ outcome = "running" /\ graph' = graph
        /\ steps \in Nat /\ steps < Limit /\ steps % 2 = 0
        /\ channel \in Seq(Messages) /\ L \in Nat
        /\ \A i \in AiTurns : channel[i].calls # <<>> /\ TurnAnswered(channel, i)
    BY DEF AgentReturns, NodeReturned, AgentInv, RInv, RunTyped
  <1>3. m \in Messages /\ m.by = "ai"
    BY <1>2, ReplyTyped, RepliesTyped
  <1> HIDE DEF m
  <1>4. /\ channel' \in Seq(Messages) /\ Len(channel') = L + 1 /\ channel'[L + 1] = m
        /\ \A i \in 1..L : channel'[i] = channel[i]
        /\ Last(channel') = m
    BY <1>1, <1>2, <1>3 DEF m, Last
  <1>5. AiTurns' = AiTurns \cup {L + 1} /\ AiTurns \subseteq 1..L
    BY <1>2, <1>3, <1>4 DEF AiTurns
  <1>6. \A i \in AiTurns : channel'[i].calls # <<>> /\ TurnAnswered(channel', i)
    <2> TAKE i \in AiTurns
    <2>1. TurnAnswered(Append(channel, m), i)
      BY <1>2, <1>3, <1>5, ReplyFollows
    <2> QED
      BY <1>1, <1>2, <1>4, <1>5, <2>1 DEF m
  <1>7. steps + 1 < Limit /\ ~OutOfSteps
    BY <1>2, LimitAssumption DEF OutOfSteps
  <1>8. CASE m.calls = <<>>
    <2>1. outcome' = "answered"
      BY <1>1, <1>7, <1>8 DEF Continue, RouteFromAgent, m
    <2> QED
      BY <1>2, <1>4, <1>8, <1>3, <2>1 DEF AgentInv
  <1>9. CASE m.calls # <<>>
    <2>1. outcome' = "running" /\ steps' = steps + 1 /\ node' = "tools"
      BY <1>1, <1>2, <1>7, <1>9 DEF Continue, RouteFromAgent, ScheduleNode, m
    <2>2. steps' < Limit /\ steps' % 2 = 1
      BY <1>2, <1>7, <2>1
    <2>3. \A i \in AiTurns' : channel'[i].calls # <<>>
      BY <1>4, <1>5, <1>6, <1>9
    <2>4. \A i \in AiTurns' \ {Len(channel')} : TurnAnswered(channel', i)
      BY <1>4, <1>5, <1>6
    <2> QED
      BY <1>3, <1>4, <2>1, <2>2, <2>3, <2>4 DEF AgentInv
  <1> QED
    BY <1>8, <1>9

LEMMA ToolsReturnInv ==
    ASSUME RInv, AgentInv, ToolsReturn PROVE AgentInv'
  <1> DEFINE L == Len(channel)
             ts == ToolsNode(Last(channel).calls)
  <1>1. /\ graph = "agent" /\ node = "tools" /\ outcome = "running" /\ graph' = graph
        /\ steps \in Nat /\ steps < Limit /\ steps % 2 = 1
        /\ channel \in Seq(Messages) /\ L \in Nat \ {0} /\ Last(channel).by = "ai"
        /\ \A i \in AiTurns : channel[i].calls # <<>>
        /\ \A i \in AiTurns \ {L} : TurnAnswered(channel, i)
        /\ channel' = channel \o ts /\ Continue("agent")
    BY DEF ToolsReturn, NodeReturned, AgentInv, RInv, RunTyped
  <1>2. Last(channel) = channel[L] /\ channel[L] \in Messages
    BY <1>1 DEF Last
  <1>3. ts \in Seq(Messages) /\ \A j \in 1..Len(ts) : ts[j].by = "tool"
    BY <1>2, CallsTyped, AnswersTyped
  <1>4. /\ TurnAnswered(channel', L)
        /\ \A i \in 1..(L - 1) : channel[i].by = "ai" /\ TurnAnswered(channel, i) => TurnAnswered(channel', i)
    <2>1. TurnAnswered(channel \o ts, L)
      BY <1>1, AnswersFollow
    <2>2. \A i \in 1..(L - 1) :
            channel[i].by = "ai" /\ TurnAnswered(channel, i) => TurnAnswered(channel \o ts, i)
      BY <1>1, AnswersFollow
    <2> HIDE DEF ts
    <2> QED
      BY <1>1, <2>1, <2>2
  <1> HIDE DEF ts
  <1>5. /\ channel' \in Seq(Messages) /\ Len(channel') = L + Len(ts) /\ Len(ts) \in Nat
        /\ \A i \in 1..L : channel'[i] = channel[i]
        /\ \A j \in 1..Len(ts) : channel'[L + j].by = "tool"
    BY <1>1, <1>3, ConcatPoints
  <1>6. AiTurns' = AiTurns /\ AiTurns \subseteq 1..L
    <2>1. ASSUME NEW i \in (L + 1)..(L + Len(ts)) PROVE channel'[i].by # "ai"
      <3>1. i - L \in 1..Len(ts) /\ i = L + (i - L)
        BY <1>1, <1>5
      <3> QED
        BY <1>5, <3>1
    <2>2. DOMAIN channel = 1..L /\ DOMAIN channel' = 1..(L + Len(ts))
      BY <1>1, <1>5
    <2> QED
      BY <1>1, <1>5, <2>1, <2>2 DEF AiTurns
  <1>7. \A i \in AiTurns' : channel'[i].calls # <<>> /\ TurnAnswered(channel', i)
    <2> TAKE i \in AiTurns'
    <2>1. i \in AiTurns /\ i \in 1..L /\ channel[i].by = "ai"
      BY <1>6 DEF AiTurns
    <2>2. CASE i = L
      BY <1>1, <1>4, <1>5, <2>1, <2>2
    <2>3. CASE i # L
      BY <1>1, <1>4, <1>5, <2>1, <2>3
    <2> QED
      BY <2>2, <2>3
  <1>8. CASE OutOfSteps
    <2>1. outcome' = "turn_limit" /\ steps' = Limit
      BY <1>1, <1>8, LimitAssumption DEF Continue, OutOfSteps
    <2>2. channel' \in Seq(Messages) /\ Len(channel') > 0
      BY <1>1, <1>5
    <2> QED
      BY <1>7, <2>1, <2>2 DEF AgentInv
  <1>9. CASE ~OutOfSteps
    <2>1. outcome' = "running" /\ steps' = steps + 1 /\ node' = "agent" /\ steps + 1 < Limit
      BY <1>1, <1>9, LimitAssumption DEF Continue, OutOfSteps, ScheduleNode
    <2>2. steps' < Limit /\ steps' % 2 = 0
      BY <1>1, <2>1
    <2>3. channel' \in Seq(Messages) /\ Len(channel') > 0
      BY <1>1, <1>5
    <2> QED
      BY <1>7, <2>1, <2>2, <2>3 DEF AgentInv
  <1> QED
    BY <1>8, <1>9

LEMMA NextAgentInv == RInv /\ AgentInv /\ [GraphNext]_allVars => AgentInv'
  <1> SUFFICES ASSUME RInv, AgentInv, [GraphNext]_allVars, graph = "agent" PROVE AgentInv'
    BY DEF AgentInv, GraphNext, NodeStep, Workflow, AgentReturns, ToolsReturn, RoleReturns,
           NodeFailed, RunTimesOut, allVars, runVars
  <1>1. CASE UNCHANGED runVars
    BY <1>1 DEF runVars, AgentInv, AiTurns
  <1>2. CASE NodeFailed \/ RunTimesOut
    BY <1>2 DEF NodeFailed, RunTimesOut, AgentInv
  <1> QED
    BY <1>1, <1>2, AgentReturnsInv, ToolsReturnInv
       DEF GraphNext, Workflow, NodeStep, RoleReturns, allVars

LEMMA AlwaysAgentInv == GraphSpec => []AgentInv
  BY InitAgentInv, NextAgentInv, AlwaysRInv, PTL DEF GraphSpec

\* For every LLM and every limit of whole turns: a run ends with an LLM's answer, or
\* gives up with its turns used up, each of which asked for tools (agent_workflow.py:22).
THEOREM AnswersOrGivesUp == GraphSpec => []AnswerOrLimit
  <1>1. AgentInv => AnswerOrLimit
    BY DEF AgentInv, AnswerOrLimit
  <1> QED
    BY <1>1, AlwaysAgentInv, PTL

\* Whatever tools an LLM asks for, made-up ones among them, it is next called with
\* every call answered, in order, right behind its message (nodes.py:161).
THEOREM CallsAreAnswered == GraphSpec => []EveryCallAnswered
  <1>1. AgentInv => EveryCallAnswered
    BY DEF AgentInv, EveryCallAnswered, TurnAnswered
  <1> QED
    BY <1>1, AlwaysAgentInv, PTL
=============================================================================
