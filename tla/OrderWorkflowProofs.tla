------------------------ MODULE OrderWorkflowProofs ------------------------
(***************************************************************************)
(* What holds of an order with its two gates for any requests, pipeline    *)
(* and sets of messages, and of the clients that decide it.  The child     *)
(* keeps the invariant that ApprovalWorkflowProofs proves of it, because   *)
(* every step of the order is a step of the child or leaves it alone; and  *)
(* the order keeps its own among the clients, because every step of theirs *)
(* is a step of some human or leaves it alone.                             *)
(***************************************************************************)
EXTENDS DecisionClients, TLAPS

ChildProofs == INSTANCE ApprovalWorkflowProofs WITH
    Calls <- GateCalls, status <- childStatus, policy <- req.on_timeout, req <- childReq,
    decision <- childDecision, calls <- childCalls, result <- childResult

ChildInv == ChildProofs!IInv

LEMMA ChildAssumption == NoCall \notin GateCalls
  BY OrderAssumption

LEMMA InitChildInv == Init => ChildInv
  <1>1. Init => ChildProofs!Init
    BY OrderAssumption
       DEF Init, Child!Init, ChildProofs!Init, Child!Undecided, ChildProofs!Undecided,
           Child!Gate!Undecided, ChildProofs!Gate!Undecided, Child!Policies,
           ChildProofs!Policies, Child!Unsent, ChildProofs!Unsent
  <1> QED
    BY <1>1, ChildAssumption, ChildProofs!InitIInv DEF ChildInv

\* The child's steps are those its proofs speak of.
LEMMA ChildNextIsNext == [Child!Next]_Child!vars => [ChildProofs!Next]_ChildProofs!vars
  BY DEF Child!Next, Child!Humans, Child!Deliver, Child!Run, Child!Start, Child!Send,
         Child!HandleSignal, Child!HandleUpdate, Child!NotFound, Child!RunStarts,
         Child!GateResolved, Child!GateTimesOut, Child!Return, Child!ExecutionTimesOut,
         Child!Terminate, Child!CloseAs, Child!Record, Child!Accepts, Child!Answer,
         Child!Kinds, Child!Undecided, Child!HumanDecided, Child!TimeoutDecided,
         Child!Gate!Undecided, Child!Gate!HumanDecided, Child!Gate!TimeoutDecided, Child!vars,
         ChildProofs!Next, ChildProofs!Humans, ChildProofs!Deliver, ChildProofs!Run,
         ChildProofs!Start, ChildProofs!Send, ChildProofs!HandleSignal,
         ChildProofs!HandleUpdate, ChildProofs!NotFound, ChildProofs!RunStarts,
         ChildProofs!GateResolved, ChildProofs!GateTimesOut, ChildProofs!Return,
         ChildProofs!ExecutionTimesOut, ChildProofs!Terminate, ChildProofs!CloseAs,
         ChildProofs!Record, ChildProofs!Accepts, ChildProofs!Answer, ChildProofs!Kinds,
         ChildProofs!Undecided, ChildProofs!HumanDecided, ChildProofs!TimeoutDecided,
         ChildProofs!Gate!Undecided, ChildProofs!Gate!HumanDecided,
         ChildProofs!Gate!TimeoutDecided, ChildProofs!vars

\* A step of the order itself, and one of its child.
OrderOnly == /\ UNCHANGED childVars
             /\ \/ Run \/ ExecutionTimesOut
                \/ \E c \in OrderCalls : Deliver(c)
                \/ \E c \in OrderCalls, k \in Child!Kinds, a \in BOOLEAN : Send(c, k, a)
ChildOnly == /\ UNCHANGED orderVars
             /\ Child!Next
             /\ childStatus = "none" /\ childStatus' # "none" => pc = "await_child"

LEMMA TwoActors == [Next]_vars => OrderOnly \/ ChildOnly \/ UNCHANGED vars
  <1> SUFFICES ASSUME Next PROVE OrderOnly \/ ChildOnly
    OBVIOUS
  <1>1. CASE Run \/ ExecutionTimesOut
    BY <1>1 DEF OrderOnly, Run, StageCompletes, StageFails, PipelineDone, GateResolved,
                GateTimesOut, ChildCompleted, ChildFailed, IncidentDone, ExecutionTimesOut
  <1>2. CASE Server \/ ChildStep(Child!Run) \/ ChildStep(Child!ExecutionTimesOut)
    BY <1>2 DEF Server, StartChild, TerminateChild, ChildStep, ChildOnly, Child!Next, Child!Run,
                Child!Start, Child!RunStarts, Child!GateResolved, Child!GateTimesOut,
                Child!ExecutionTimesOut, Child!Terminate, Child!CloseAs
  <1>3. ASSUME NEW c \in OrderCalls, Deliver(c) PROVE OrderOnly
    BY <1>3 DEF OrderOnly, Deliver, HandleSignal, HandleUpdate, NotFound
  <1>4. ASSUME NEW c \in GateCalls, DeliverToChild(c) PROVE ChildOnly
    BY <1>4 DEF ChildOnly, DeliverToChild, ChildStep, Child!Next, Child!Deliver,
                Child!HandleSignal, Child!HandleUpdate, Child!NotFound
  <1>5. CASE Humans
    BY <1>5 DEF Humans, OrderOnly, ChildOnly, Send, ChildStep, Child!Next, Child!Humans,
                Child!Send
  <1> QED
    BY <1>1, <1>2, <1>3, <1>4, <1>5 DEF Next, System

LEMMA NextChildInv == ChildInv /\ [Next]_vars => ChildInv'
  <1> SUFFICES ASSUME ChildInv, [Next]_vars PROVE ChildInv'
    OBVIOUS
  <1>1. OrderOnly => req' = req
    BY DEF OrderOnly, Run, StageCompletes, StageFails, PipelineDone, GateResolved,
           GateTimesOut, ChildCompleted, ChildFailed, IncidentDone, ExecutionTimesOut,
           Deliver, HandleSignal, HandleUpdate, NotFound, Send
  <1>2. [Child!Next]_Child!vars
    BY <1>1, TwoActors DEF OrderOnly, ChildOnly, Child!vars, vars, childVars, orderVars
  <1>3. [ChildProofs!Next]_ChildProofs!vars
    BY <1>2, ChildNextIsNext
  <1> QED
    BY <1>3, ChildAssumption, ChildProofs!NextIInv DEF ChildInv

-----------------------------------------------------------------------------

LEMMA Shapes ==
    /\ Undecided = [approved |-> FALSE, by |-> NoCall, via |-> ""]
    /\ \A c, a : HumanDecided(c, a) = [approved |-> a, by |-> c, via |-> "human"]
    /\ \A p : TimeoutDecided(p) = [approved |-> p = "approve", by |-> NoCall, via |-> "timeout"]
  BY DEF Undecided, HumanDecided, TimeoutDecided, Child!Undecided, Child!HumanDecided,
         Child!TimeoutDecided, Child!Gate!Undecided, Child!Gate!HumanDecided,
         Child!Gate!TimeoutDecided

LEMMA HumansDecide == \A c, a : HumanDecided(c, a) # Undecided
  <1> TAKE c, a
  <1>1. HumanDecided(c, a).via = "human" /\ Undecided.via = ""
    BY Shapes
  <1> QED
    BY <1>1

\* What the order relies on of its child.
LEMMA ChildFacts ==
    ASSUME ChildInv
    PROVE  /\ Child!TypeOK
           /\ \A c \in GateCalls : childCalls[c].state = "confirmed" =>
                 /\ childDecision = HumanDecided(c, childCalls[c].approved)
                 /\ childResult \in {Undecided, childDecision}
           /\ childDecision.by \in GateCalls =>
                 childCalls[childDecision.by].state \in {"handled", "confirmed"}
           /\ childStatus = "completed" => childResult = childDecision /\ childDecision # Undecided
           /\ childStatus # "completed" => childResult = Undecided
  BY DEF ChildInv, ChildProofs!IInv, ChildProofs!TypeOK, ChildProofs!ConfirmedIsDecision,
         ChildProofs!DecisionHasAuthor, ChildProofs!Strengthening, ChildProofs!Statuses, ChildProofs!Policies,
         ChildProofs!Decisions, ChildProofs!Message, ChildProofs!Kinds, ChildProofs!Answers,
         ChildProofs!Undecided, ChildProofs!HumanDecided, ChildProofs!Gate!Undecided,
         ChildProofs!Gate!HumanDecided,
         Child!TypeOK, Child!Statuses, Child!Policies, Child!Decisions, Child!Message,
         Child!Kinds, Child!Answers, Undecided, HumanDecided, Child!Undecided,
         Child!HumanDecided, Child!Gate!Undecided, Child!Gate!HumanDecided

LEMMA ChildTyped == ChildInv' => Child!TypeOK'
  <1>1. ChildInv => Child!TypeOK
    BY ChildFacts
  <1> QED
    BY <1>1, PTL

\* A child is started, runs and closes; what it returned stays.
LEMMA ChildMoves ==
    ASSUME Child!Next
    PROVE  \/ childStatus' = childStatus /\ childResult' = childResult
           \/ childStatus = "none" /\ childStatus' = "running" /\ childResult' = childResult
           \/ childStatus = "running" /\ childStatus' \in {"completed", "timed_out", "terminated"}
  BY DEF Child!Next, Child!Humans, Child!Deliver, Child!Run, Child!Start, Child!Send,
         Child!HandleSignal, Child!HandleUpdate, Child!NotFound, Child!RunStarts,
         Child!GateResolved, Child!GateTimesOut, Child!Return, Child!ExecutionTimesOut,
         Child!Terminate, Child!CloseAs

\* How the child decides.
LEMMA ChildDecides ==
    ASSUME Child!Next, Child!TypeOK
    PROVE  \/ childDecision' = childDecision
           \/ /\ childDecision = Undecided /\ childStatus = "running"
              /\ \/ \E c \in GateCalls, a \in BOOLEAN : childDecision' = HumanDecided(c, a)
                 \/ childDecision' = TimeoutDecided(req.on_timeout)
  <1>1. ASSUME NEW c \in GateCalls PROVE childCalls[c].approved \in BOOLEAN
    BY <1>1 DEF Child!TypeOK, Child!Message
  <1> QED
    BY <1>1 DEF Child!Next, Child!Humans, Child!Deliver, Child!Run, Child!Start, Child!Send,
         Child!HandleSignal, Child!HandleUpdate, Child!NotFound, Child!RunStarts,
         Child!GateResolved, Child!GateTimesOut, Child!Return, Child!ExecutionTimesOut,
         Child!Terminate, Child!CloseAs, Child!Record, Child!Accepts, Undecided, HumanDecided,
         TimeoutDecided

\* Where run() stands says which gate there is and whether the order is settled.
Standing ==
    /\ status = "running" <=> pc # "closed"
    /\ pc \in {"pipeline", "gate", "await_child"} => approval = Undecided
    /\ pc = "gate" => Required /\ req.hitl_mode = "inline"
    /\ pc = "await_child" => Required /\ req.hitl_mode = "child"
    /\ pending => Required /\ req.hitl_mode = "inline" /\ pc \in {"gate", "closed"}
    /\ childStatus # "none" => Required /\ req.hitl_mode = "child" /\ pc # "pipeline"
    /\ childStatus = "running" => approval = Undecided /\ pc \in {"await_child", "closed"}
    /\ childDecision # Undecided => childStatus # "none"

\* A confirmed update is the order's decision, and only an inline gate confirms.
Confirmations ==
    \A c \in OrderCalls : calls[c].state = "confirmed" =>
        Required /\ req.hitl_mode = "inline" /\ decision = HumanDecided(c, calls[c].approved)

\* Settled through the child means settled by a child that has completed.
SettledByChild ==
    approval # Undecided /\ Required /\ req.hitl_mode = "child" => childStatus = "completed"

OInv == TypeOK /\ ChildInv /\ Standing /\ Confirmations /\ SettledByChild /\ RightAuthority

LEMMA InitOInv == Init => OInv
  <1> SUFFICES ASSUME Init PROVE OInv
    OBVIOUS
  <1>1. ChildInv /\ Child!TypeOK
    BY InitChildInv, ChildFacts
  <1>2. \A c \in OrderCalls : calls[c].state = "idle" /\ calls[c] \in Child!Message
    BY DEF Init, Child!Unsent, Child!Message, Child!Kinds, Child!Answers
  <1>3. calls \in [OrderCalls -> Child!Message]
    BY <1>2 DEF Init
  <1>4. Len(Pipeline) \in Nat
    BY OrderAssumption
  <1>5. TypeOK
    <2>1. Undecided \in Decisions /\ Undecided \in Approvals
      BY Shapes DEF Decisions, Approvals
    <2>2. stage \in 0..Len(Pipeline)
      BY <1>4 DEF Init
    <2> QED
      BY <1>1, <1>3, <2>1, <2>2 DEF Init, TypeOK
  <1>6. childStatus = "none" /\ childDecision = Undecided
    BY DEF Init, Child!Init, Undecided
  <1> QED
    BY <1>1, <1>2, <1>5, <1>6
       DEF Init, OInv, Standing, Confirmations, SettledByChild, RightAuthority

LEMMA RequestKept == [Next]_vars => req' = req /\ Required' = Required
  <1> SUFFICES ASSUME [Next]_vars PROVE req' = req
    BY DEF Required, NeedsApproval
  <1> QED
    BY TwoActors
       DEF OrderOnly, ChildOnly, vars, orderVars, Run, StageCompletes, StageFails, PipelineDone,
           GateResolved, GateTimesOut, ChildCompleted, ChildFailed, IncidentDone,
           ExecutionTimesOut, Deliver, HandleSignal, HandleUpdate, NotFound, Send

\* A message that is answered stays the message it was.
LEMMA AnswerKeepsMessages ==
    ASSUME TypeOK, NEW c \in OrderCalls, NEW a \in Child!Answers, Answer(c, a)
    PROVE  /\ calls' \in [OrderCalls -> Child!Message]
           /\ calls'[c].state = a /\ calls'[c].approved = calls[c].approved
           /\ calls[c].approved \in BOOLEAN
           /\ \A d \in OrderCalls \ {c} : calls'[d] = calls[d]
  BY DEF TypeOK, Answer, Child!Message, Child!Answers

-----------------------------------------------------------------------------

LEMMA ChildStepOInv ==
    ASSUME OInv, ChildOnly, ChildInv', req' = req, Required' = Required PROVE OInv'
  <1>1. UNCHANGED orderVars /\ Child!TypeOK'
    BY ChildTyped DEF ChildOnly
  <1>2. \/ childStatus' = childStatus /\ childResult' = childResult
        \/ /\ childStatus = "none" /\ childStatus' = "running" /\ childResult' = childResult
           /\ pc = "await_child"
        \/ childStatus = "running" /\ childStatus' \in {"completed", "timed_out", "terminated"}
    BY ChildMoves DEF ChildOnly
  <1>3. TypeOK'
    BY <1>1 DEF OInv, TypeOK, orderVars
  <1>4. Confirmations'
    BY <1>1 DEF OInv, Confirmations, orderVars
  <1>5. Standing'
    <2>1. childDecision' = childDecision \/ childStatus = "running"
      BY ChildDecides DEF ChildOnly, OInv, TypeOK
    <2> QED
      BY <1>1, <1>2, <2>1 DEF OInv, Standing, orderVars
  <1>6. approval # Undecided => childResult' = childResult /\ childStatus' = childStatus
    BY <1>1, <1>2 DEF OInv, Standing
  <1>7. SettledByChild' /\ RightAuthority'
    BY <1>1, <1>6 DEF OInv, SettledByChild, RightAuthority, orderVars
  <1> QED
    BY <1>3, <1>4, <1>5, <1>7 DEF OInv

\* What messages do: they are answered, and one of them may fill the empty slot.
LEMMA MessageEffect ==
    ASSUME OInv, NEW c \in OrderCalls,
           Deliver(c) \/ \E k \in Child!Kinds, a \in BOOLEAN : Send(c, k, a)
    PROVE  /\ UNCHANGED <<status, pc, stage, risk, pending, approval, incident, childVars>>
           /\ calls' \in [OrderCalls -> Child!Message]
           /\ \A d \in OrderCalls : calls'[d].state = "confirmed" =>
                 \/ calls[d].state = "confirmed" /\ decision' = decision /\ calls'[d] = calls[d]
                 \/ /\ d = c /\ pending /\ decision = Undecided
                    /\ decision' = HumanDecided(c, calls'[c].approved)
           /\ \/ decision' = decision
              \/ /\ decision = Undecided /\ status = "running"
                 /\ \E a \in BOOLEAN : decision' = HumanDecided(c, a)
  <1>1. UNCHANGED <<status, pc, stage, risk, pending, approval, incident, childVars>>
    BY DEF Deliver, HandleSignal, HandleUpdate, NotFound, Send
  <1>2. /\ calls' \in [OrderCalls -> Child!Message]
        /\ \A d \in OrderCalls : calls'[d].state = "confirmed" =>
              \/ calls[d].state = "confirmed" /\ decision' = decision /\ calls'[d] = calls[d]
              \/ /\ d = c /\ pending /\ decision = Undecided
                 /\ decision' = HumanDecided(c, calls'[c].approved)
        /\ \/ decision' = decision
           \/ /\ decision = Undecided /\ status = "running"
              /\ \E a \in BOOLEAN : decision' = HumanDecided(c, a)
    <2>1. CASE HandleSignal(c)
      <3>1. /\ Answer(c, "handled") /\ "handled" \in Child!Answers /\ decision' = Record(c)
            /\ status = "running"
        BY <2>1 DEF HandleSignal, Child!Answers
      <3>2. /\ calls' \in [OrderCalls -> Child!Message] /\ calls'[c].state = "handled"
            /\ calls[c].approved \in BOOLEAN /\ \A d \in OrderCalls \ {c} : calls'[d] = calls[d]
        BY <3>1, AnswerKeepsMessages DEF OInv
      <3>3. \A d \in OrderCalls : calls[d].state = "confirmed" => decision # Undecided
        BY HumansDecide DEF OInv, Confirmations
      <3> QED
        BY <3>1, <3>2, <3>3 DEF Record
    <2>2. CASE HandleUpdate(c)
      <3>1. CASE Accepts /\ decision' = Record(c) /\ Answer(c, "confirmed")
        <4>1. "confirmed" \in Child!Answers /\ status = "running"
          BY <2>2 DEF HandleUpdate, Child!Answers
        <4>2. /\ calls' \in [OrderCalls -> Child!Message] /\ calls'[c].approved = calls[c].approved
              /\ calls[c].approved \in BOOLEAN /\ \A d \in OrderCalls \ {c} : calls'[d] = calls[d]
          BY <3>1, <4>1, AnswerKeepsMessages DEF OInv
        <4>3. pending /\ decision = Undecided /\ decision' = HumanDecided(c, calls[c].approved)
          BY <3>1 DEF Accepts, Record
        <4>4. \A d \in OrderCalls : calls[d].state # "confirmed"
          BY <4>3, HumansDecide DEF OInv, Confirmations
        <4> QED
          BY <4>1, <4>2, <4>3, <4>4
      <3>2. CASE ~Accepts /\ UNCHANGED decision /\ Answer(c, "rejected")
        <4>1. "rejected" \in Child!Answers
          BY DEF Child!Answers
        <4> QED
          BY <3>2, <4>1, AnswerKeepsMessages DEF OInv
      <3> QED
        BY <2>2, <3>1, <3>2 DEF HandleUpdate
    <2>3. CASE NotFound(c)
      <3>1. Answer(c, "not_found") /\ "not_found" \in Child!Answers /\ decision' = decision
        BY <2>3 DEF NotFound, Child!Answers
      <3> QED
        BY <3>1, AnswerKeepsMessages DEF OInv
    <2>4. ASSUME NEW k \in Child!Kinds, NEW a \in BOOLEAN, Send(c, k, a)
          PROVE  /\ calls' \in [OrderCalls -> Child!Message] /\ decision' = decision
                 /\ \A d \in OrderCalls : calls'[d].state = "confirmed" => calls'[d] = calls[d]
      BY <2>4 DEF Send, OInv, TypeOK, Child!Message
    <2> QED
      BY <2>1, <2>2, <2>3, <2>4 DEF Deliver
  <1> QED
    BY <1>1, <1>2

LEMMA MessageOInv ==
    ASSUME OInv, ChildInv', req' = req, Required' = Required, NEW c \in OrderCalls,
           Deliver(c) \/ \E k \in Child!Kinds, a \in BOOLEAN : Send(c, k, a)
    PROVE  OInv'
  <1>1. UNCHANGED <<status, pc, stage, risk, pending, approval, incident, childVars>>
    BY MessageEffect
  <1>2. /\ calls' \in [OrderCalls -> Child!Message]
        /\ \A d \in OrderCalls : calls'[d].state = "confirmed" =>
              \/ calls[d].state = "confirmed" /\ decision' = decision /\ calls'[d] = calls[d]
              \/ /\ d = c /\ pending /\ decision = Undecided
                 /\ decision' = HumanDecided(c, calls'[c].approved)
        /\ \/ decision' = decision
           \/ /\ decision = Undecided /\ status = "running"
              /\ \E a \in BOOLEAN : decision' = HumanDecided(c, a)
    BY MessageEffect
  <1>3. TypeOK'
    <2>1. \A a \in BOOLEAN : HumanDecided(c, a) \in Decisions
      BY Shapes DEF Decisions
    <2> QED
      BY <1>1, <1>2, <2>1, ChildTyped DEF OInv, TypeOK
  <1>4. Standing'
    BY <1>1 DEF OInv, Standing, childVars
  <1>5. Confirmations'
    BY <1>2 DEF OInv, Standing, Confirmations
  <1>6. approval # Undecided /\ Required /\ req.hitl_mode # "child" => decision' = decision
    BY <1>2 DEF OInv, RightAuthority
  <1>7. SettledByChild' /\ RightAuthority'
    BY <1>1, <1>6 DEF OInv, SettledByChild, RightAuthority, childVars
  <1> QED
    BY <1>3, <1>4, <1>5, <1>7 DEF OInv

LEMMA ProceedEffect ==
    ASSUME NEW d, Proceed(d), status = "running"
    PROVE  /\ approval' = d
           /\ \/ pc' = "incident" /\ status' = "running"
              \/ pc' = "closed" /\ status' = "completed"
  BY DEF Proceed, Close

LEMMA RunOInv ==
    ASSUME OInv, OrderOnly, ChildInv', req' = req, Required' = Required,
           Run \/ ExecutionTimesOut
    PROVE  OInv'
  <1> USE DEF OInv, childVars
  <1>1. /\ UNCHANGED <<childVars, calls>> /\ Child!TypeOK'
        /\ Len(Pipeline) \in Nat /\ status' \in {"running", "completed", "failed", "timed_out"}
    BY ChildTyped, OrderAssumption
       DEF OrderOnly, Run, StageCompletes, StageFails, PipelineDone, GateResolved, GateTimesOut,
           ChildCompleted, ChildFailed, IncidentDone, ExecutionTimesOut, Close, Proceed, TypeOK
  <1>2. CASE StageCompletes
    <2>1. stage' \in 0..Len(Pipeline) /\ risk' \in BOOLEAN
      BY <1>1, <1>2 DEF StageCompletes, TypeOK
    <2> QED
      BY <1>1, <1>2, <2>1
         DEF StageCompletes, TypeOK, Standing, Confirmations, SettledByChild, RightAuthority
  <1>3. CASE StageFails \/ ChildFailed \/ ExecutionTimesOut
    BY <1>1, <1>3
       DEF StageFails, ChildFailed, ExecutionTimesOut, Close, TypeOK, Standing, Confirmations,
           SettledByChild, RightAuthority
  <1>4. CASE PipelineDone
    <2>1. CASE Required
      <3>1. /\ UNCHANGED <<status, approval, decision, stage, risk, incident>>
            /\ approval = Undecided /\ childStatus = "none" /\ ~pending /\ pc' # "closed"
            /\ \/ pc' = "gate" /\ pending' = TRUE /\ req.hitl_mode = "inline"
               \/ pc' = "await_child" /\ pending' = FALSE /\ req.hitl_mode = "child"
        BY <1>4, <2>1 DEF PipelineDone, Standing, TypeOK
      <3>2. TypeOK'
        BY <1>1, <3>1 DEF TypeOK
      <3>3. Standing' /\ Confirmations' /\ SettledByChild' /\ RightAuthority'
        BY <1>1, <1>4, <2>1, <3>1
           DEF PipelineDone, Standing, Confirmations, SettledByChild, RightAuthority
      <3> QED
        BY <3>2, <3>3
    <2>2. CASE ~Required
      <3>1. approval' = AutoApproved /\ AutoApproved \in Approvals
        BY <1>4, <2>2 DEF PipelineDone, Proceed, AutoApproved, Approvals
      <3> QED
        BY <1>1, <1>4, <2>2, <3>1, ProceedEffect
           DEF PipelineDone, TypeOK, Standing, Confirmations, SettledByChild, RightAuthority
    <2> QED
      BY <2>1, <2>2
  <1>5. CASE GateResolved
    <2>1. approval' = decision /\ decision \in Approvals /\ decision.by \notin GateCalls
      BY <1>5, OrderAssumption DEF GateResolved, Proceed, TypeOK, Decisions, Approvals
    <2> QED
      BY <1>1, <1>5, <2>1, ProceedEffect
         DEF GateResolved, TypeOK, Standing, Confirmations, SettledByChild, RightAuthority
  <1>6. CASE GateTimesOut
    <2> DEFINE d == TimeoutDecided(req.on_timeout)
    <2>1. approval' = d /\ decision' = d /\ d \in Approvals /\ d \in Decisions /\ d.by = NoCall
      BY <1>6, Shapes DEF GateTimesOut, Proceed, Decisions, Approvals
    <2>2. \A c \in OrderCalls : calls[c].state # "confirmed"
      BY <1>6, HumansDecide DEF GateTimesOut, Confirmations
    <2> QED
      BY <1>1, <1>6, <2>1, <2>2, ProceedEffect, OrderAssumption
         DEF GateTimesOut, TypeOK, Standing, Confirmations, SettledByChild, RightAuthority
  <1>7. CASE ChildCompleted
    <2>1. approval' = childResult /\ childResult \in Approvals /\ childResult.by \notin OrderCalls
      BY <1>7, OrderAssumption
         DEF ChildCompleted, Proceed, TypeOK, Child!TypeOK, Child!Decisions, Approvals
    <2> QED
      BY <1>1, <1>7, <2>1, ProceedEffect
         DEF ChildCompleted, TypeOK, Standing, Confirmations, SettledByChild, RightAuthority
  <1>8. CASE IncidentDone
    BY <1>1, <1>8
       DEF IncidentDone, Close, TypeOK, Standing, Confirmations, SettledByChild, RightAuthority
  <1> QED
    BY <1>2, <1>3, <1>4, <1>5, <1>6, <1>7, <1>8 DEF Run

LEMMA NextOInv == OInv /\ [Next]_vars => OInv'
  <1> SUFFICES ASSUME OInv, [Next]_vars PROVE OInv'
    OBVIOUS
  <1>1. ChildInv' /\ req' = req /\ Required' = Required
    BY NextChildInv, RequestKept DEF OInv
  <1>2. CASE UNCHANGED vars
    <2>1. Child!TypeOK'
      BY <1>1, ChildTyped
    <2> QED
      BY <1>1, <1>2, <2>1
         DEF vars, orderVars, childVars, OInv, TypeOK, Standing, Confirmations, SettledByChild,
             RightAuthority
  <1>3. CASE OrderOnly
    <2>1. CASE Run \/ ExecutionTimesOut
      BY <1>1, <1>3, <2>1, RunOInv
    <2>2. ASSUME NEW c \in OrderCalls,
                 Deliver(c) \/ \E k \in Child!Kinds, a \in BOOLEAN : Send(c, k, a)
          PROVE  OInv'
      BY <1>1, <1>3, <2>2, MessageOInv
    <2> QED
      BY <1>3, <2>1, <2>2 DEF OrderOnly
  <1>4. CASE ChildOnly
    BY <1>1, <1>4, ChildStepOInv
  <1> QED
    BY <1>2, <1>3, <1>4, TwoActors

-----------------------------------------------------------------------------
(* What the order's clients rely on. *)

\* Whoever decided the order had his message taken.
Authored ==
    decision.by \in OrderCalls => calls[decision.by].state \in {"handled", "confirmed"}

\* An order completes settled.
CompletesSettled == pc = "incident" \/ status = "completed" => approval # Undecided

\* A message that is not sent by this step: it stays, or is answered.
Kept(before, after) ==
    /\ after.kind = before.kind /\ after.approved = before.approved
    /\ \/ after.state = before.state
       \/ /\ before.state = "sent" /\ after.state \in Child!Answers
          /\ after.state = "handled" => before.kind = "signal"

LEMMA DeliveredIsKept ==
    ASSUME TypeOK, NEW c \in OrderCalls, Deliver(c)
    PROVE  /\ \A d \in OrderCalls : Kept(calls[d], calls'[d])
           /\ childCalls' = childCalls
           /\ \/ decision' = decision
              \/ /\ decision' = HumanDecided(c, calls[c].approved)
                 /\ calls'[c].state \in {"handled", "confirmed"}
  <1>1. ASSUME NEW a \in Child!Answers, Answer(c, a), calls[c].state = "sent",
               a = "handled" => calls[c].kind = "signal"
        PROVE  calls'[c].state = a /\ \A d \in OrderCalls : Kept(calls[d], calls'[d])
    <2>1. calls'[c] = [calls[c] EXCEPT !.state = a] /\ calls[c] \in Child!Message
      BY <1>1 DEF Answer, TypeOK
    <2>2. \A d \in OrderCalls \ {c} : calls'[d] = calls[d]
      BY <1>1 DEF Answer, TypeOK
    <2> QED
      BY <1>1, <2>1, <2>2 DEF Kept, Child!Message
  <1>2. CASE HandleSignal(c)
    BY <1>1, <1>2 DEF HandleSignal, Record, Child!Answers, childVars
  <1>3. CASE HandleUpdate(c)
    <2>1. CASE Accepts /\ decision' = Record(c) /\ Answer(c, "confirmed")
      BY <1>1, <1>3, <2>1 DEF HandleUpdate, Record, Accepts, Child!Answers, childVars
    <2>2. CASE UNCHANGED decision /\ Answer(c, "rejected")
      BY <1>1, <1>3, <2>2 DEF HandleUpdate, Child!Answers, childVars
    <2> QED
      BY <1>3, <2>1, <2>2 DEF HandleUpdate
  <1>4. CASE NotFound(c)
    BY <1>1, <1>4 DEF NotFound, Child!Answers, childVars
  <1> QED
    BY <1>2, <1>3, <1>4 DEF Deliver

LEMMA DeliveredToChildIsKept ==
    ASSUME TypeOK, NEW c \in GateCalls, DeliverToChild(c)
    PROVE  (\A d \in GateCalls : Kept(childCalls[d], childCalls'[d])) /\ calls' = calls
  <1>1. ASSUME NEW a \in Child!Answers, Child!Answer(c, a), childCalls[c].state = "sent",
               a = "handled" => childCalls[c].kind = "signal"
        PROVE  \A d \in GateCalls : Kept(childCalls[d], childCalls'[d])
    <2>1. childCalls'[c] = [childCalls[c] EXCEPT !.state = a] /\ childCalls[c] \in Child!Message
      BY <1>1 DEF Child!Answer, TypeOK, Child!TypeOK
    <2>2. \A d \in GateCalls \ {c} : childCalls'[d] = childCalls[d]
      BY <1>1 DEF Child!Answer, TypeOK, Child!TypeOK
    <2> QED
      BY <1>1, <2>1, <2>2 DEF Kept, Child!Message
  <1> QED
    BY <1>1 DEF DeliverToChild, ChildStep, Child!HandleSignal, Child!HandleUpdate, Child!NotFound,
                Child!Answers, orderVars

LEMMA SystemKeepsMessages ==
    ASSUME TypeOK, System
    PROVE  /\ \A d \in OrderCalls : Kept(calls[d], calls'[d])
           /\ \A d \in GateCalls : Kept(childCalls[d], childCalls'[d])
  <1>1. (calls' = calls => \A d \in OrderCalls : Kept(calls[d], calls'[d]))
        /\ (childCalls' = childCalls => \A d \in GateCalls : Kept(childCalls[d], childCalls'[d]))
    BY DEF Kept
  <1>2. CASE Run \/ ExecutionTimesOut
    BY <1>1, <1>2
       DEF Run, StageCompletes, StageFails, PipelineDone, GateResolved, GateTimesOut,
           ChildCompleted, ChildFailed, IncidentDone, ExecutionTimesOut, childVars
  <1>3. CASE Server \/ ChildStep(Child!Run) \/ ChildStep(Child!ExecutionTimesOut)
    BY <1>1, <1>3
       DEF Server, StartChild, TerminateChild, ChildStep, orderVars, Child!Start, Child!Terminate,
           Child!Run, Child!RunStarts, Child!GateResolved, Child!GateTimesOut,
           Child!ExecutionTimesOut, Child!CloseAs
  <1>4. ASSUME NEW c \in OrderCalls, Deliver(c)
        PROVE  /\ \A d \in OrderCalls : Kept(calls[d], calls'[d])
               /\ \A d \in GateCalls : Kept(childCalls[d], childCalls'[d])
    BY <1>1, <1>4, DeliveredIsKept
  <1>5. ASSUME NEW c \in GateCalls, DeliverToChild(c)
        PROVE  /\ \A d \in OrderCalls : Kept(calls[d], calls'[d])
               /\ \A d \in GateCalls : Kept(childCalls[d], childCalls'[d])
    BY <1>1, <1>5, DeliveredToChildIsKept
  <1> QED
    BY <1>2, <1>3, <1>4, <1>5 DEF System

LEMMA NobodyIsNoCall ==
    /\ Undecided.by = NoCall /\ AutoApproved.by = NoCall /\ \A p : TimeoutDecided(p).by = NoCall
    /\ AutoApproved # Undecided /\ \A p : TimeoutDecided(p) # Undecided
    /\ \A c, a : HumanDecided(c, a).by = c
  <1>1. Undecided.via = "" /\ AutoApproved.via = "auto" /\ \A p : TimeoutDecided(p).via = "timeout"
    BY Shapes DEF AutoApproved
  <1> QED
    BY <1>1, Shapes DEF AutoApproved

LEMMA NextAuthored == OInv /\ Authored /\ [Next]_vars => Authored'
  <1> SUFFICES ASSUME OInv, Authored, [Next]_vars PROVE Authored'
    OBVIOUS
  <1>1. CASE UNCHANGED <<decision, calls>>
    BY <1>1 DEF Authored
  <1>2. ASSUME NEW c \in OrderCalls, Deliver(c) PROVE Authored'
    <2>1. \A d \in OrderCalls : calls[d].state \in {"handled", "confirmed"} => calls'[d].state = calls[d].state
      BY <1>2, DeliveredIsKept DEF OInv, Kept
    <2>2. \/ decision' = decision
          \/ decision'.by = c /\ calls'[c].state \in {"handled", "confirmed"}
      BY <1>2, DeliveredIsKept, NobodyIsNoCall DEF OInv
    <2> QED
      BY <2>1, <2>2 DEF Authored
  <1>3. ASSUME NEW c \in OrderCalls, NEW k \in Child!Kinds, NEW a \in BOOLEAN, Send(c, k, a)
        PROVE  Authored'
    <2>1. decision' = decision /\ calls[c].state = "idle" /\ \A d \in OrderCalls \ {c} : calls'[d] = calls[d]
      BY <1>3 DEF Send, OInv, TypeOK
    <2> QED
      BY <2>1 DEF Authored
  <1>4. CASE Run \/ ExecutionTimesOut
    <2>1. calls' = calls /\ (decision' = decision \/ decision'.by = NoCall)
      BY <1>4, NobodyIsNoCall
         DEF Run, StageCompletes, StageFails, PipelineDone, GateResolved, GateTimesOut,
             ChildCompleted, ChildFailed, IncidentDone, ExecutionTimesOut
    <2> QED
      BY <2>1, OrderAssumption DEF Authored
  <1>5. CASE UNCHANGED vars \/ ChildOnly
    BY <1>1, <1>5 DEF vars, orderVars, ChildOnly
  <1> QED
    BY <1>2, <1>3, <1>4, <1>5, TwoActors DEF OrderOnly

LEMMA NextCompletesSettled == OInv /\ CompletesSettled /\ [Next]_vars => CompletesSettled'
  <1> SUFFICES ASSUME OInv, CompletesSettled, [Next]_vars PROVE CompletesSettled'
    OBVIOUS
  <1>1. CASE UNCHANGED <<pc, status, approval>>
    BY <1>1 DEF CompletesSettled
  <1>2. CASE UNCHANGED vars \/ ChildOnly
    BY <1>1, <1>2 DEF vars, orderVars, ChildOnly
  <1>3. ASSUME NEW c \in OrderCalls,
               Deliver(c) \/ \E k \in Child!Kinds, a \in BOOLEAN : Send(c, k, a)
        PROVE  CompletesSettled'
    BY <1>1, <1>3, MessageEffect
  <1>4. ASSUME NEW d, Proceed(d), d # Undecided PROVE CompletesSettled'
    BY <1>4 DEF Proceed, CompletesSettled
  <1>5. CASE PipelineDone
    <2>1. CASE Required
      BY <1>5, <2>1 DEF PipelineDone, CompletesSettled
    <2>2. CASE ~Required
      BY <1>4, <1>5, <2>2, NobodyIsNoCall DEF PipelineDone
    <2> QED
      BY <2>1, <2>2
  <1>6. CASE GateResolved \/ GateTimesOut
    BY <1>4, <1>6, NobodyIsNoCall DEF GateResolved, GateTimesOut
  <1>7. CASE ChildCompleted
    <2>1. childResult # Undecided
      BY <1>7, ChildFacts DEF ChildCompleted, OInv
    <2> QED
      BY <1>4, <1>7, <2>1 DEF ChildCompleted
  <1>8. CASE StageCompletes \/ StageFails \/ ChildFailed \/ IncidentDone \/ ExecutionTimesOut
    BY <1>8
       DEF StageCompletes, StageFails, ChildFailed, IncidentDone, ExecutionTimesOut, Close,
           CompletesSettled
  <1> QED
    BY <1>2, <1>3, <1>5, <1>6, <1>7, <1>8, TwoActors DEF OrderOnly, Run

LEMMA AlwaysOInv == Spec => []OInv
  BY InitOInv, NextOInv, PTL DEF Spec

\* The order's state always has its type.
THEOREM OrderTyped == Spec => []TypeOK
  <1>1. OInv => TypeOK
    BY DEF OInv
  <1> QED
    BY <1>1, AlwaysOInv, PTL

\* What a sender saw confirmed, at either id, is what the order goes on with
\* (order_workflow.py:55, approval_workflow.py:77).
THEOREM ConfirmedStands == Spec => []ConfirmedIsOutcome
  <1>1. OInv => ConfirmedIsOutcome
    <2> SUFFICES ASSUME OInv PROVE ConfirmedIsOutcome
      OBVIOUS
    <2>1. ASSUME NEW c \in OrderCalls, calls[c].state = "confirmed"
          PROVE  approval \in {Undecided, HumanDecided(c, calls[c].approved)}
      BY <2>1 DEF OInv, Confirmations, RightAuthority
    <2>2. ASSUME NEW c \in GateCalls, childCalls[c].state = "confirmed"
          PROVE  approval \in {Undecided, HumanDecided(c, childCalls[c].approved)}
      <3>1. childResult \in {Undecided, HumanDecided(c, childCalls[c].approved)}
        BY <2>2, ChildFacts DEF OInv
      <3>2. childStatus # "none"
        BY <2>2, ChildFacts, HumansDecide DEF OInv, Standing
      <3> QED
        BY <3>1, <3>2 DEF OInv, Standing, RightAuthority
    <2> QED
      BY <2>1, <2>2 DEF ConfirmedIsOutcome
  <1> QED
    BY <1>1, AlwaysOInv, PTL

\* Only the gate that the request calls for settles an order, and what is settled
\* does not fail (order_workflow.py:73, 207).
THEOREM SettledByTheGate == Spec => []RightAuthority
  <1>1. OInv => RightAuthority
    BY DEF OInv
  <1> QED
    BY <1>1, AlwaysOInv, PTL

\* The child's gate is open only for an order that waits for it or was closed over it.
THEOREM GatesExclude == Spec => []OneGate
  <1>1. OInv => OneGate
    BY DEF OInv, Standing, OneGate, TypeOK
  <1> QED
    BY <1>1, AlwaysOInv, PTL

-----------------------------------------------------------------------------

LEMMA GateShapes ==
    /\ Gate!Undecided = Undecided
    /\ \A c, a : Gate!HumanDecided(c, a) = HumanDecided(c, a)
    /\ \A p : Gate!TimeoutDecided(p) = TimeoutDecided(p)
  BY Shapes DEF Gate!Undecided, Gate!HumanDecided, Gate!TimeoutDecided

LEMMA NobodyAuto == Undecided.via # "auto" /\ \A p : TimeoutDecided(p).via # "auto"
  BY Shapes

\* A decision that fills the slot of the gate in force is the abstract gate's Decide or
\* Expire, one in the other slot is nothing to it.
LEMMA ChildRefines ==
    ASSUME OInv, ChildOnly PROVE [Gate!GateNext]_Gate!gateVars
  <1>1. UNCHANGED orderVars /\ Child!Next /\ Child!TypeOK
    BY DEF ChildOnly, OInv, TypeOK
  <1>2. \/ childDecision' = childDecision
        \/ /\ childDecision = Undecided
           /\ \/ \E c \in GateCalls, a \in BOOLEAN : childDecision' = HumanDecided(c, a)
              \/ childDecision' = TimeoutDecided(req.on_timeout)
    BY <1>1, ChildDecides
  <1>3. CASE req.hitl_mode = "child" /\ childDecision' # childDecision
    BY <1>1, <1>2, <1>3, GateShapes
       DEF orderVars, Gate!GateNext, Gate!Decide, Gate!Expire
  <1>4. CASE req.hitl_mode # "child" \/ childDecision' = childDecision
    BY <1>1, <1>4 DEF orderVars, Gate!gateVars
  <1> QED
    BY <1>3, <1>4

LEMMA MessageRefines ==
    ASSUME OInv, req' = req, NEW c \in OrderCalls,
           Deliver(c) \/ \E k \in Child!Kinds, a \in BOOLEAN : Send(c, k, a)
    PROVE  [Gate!GateNext]_Gate!gateVars
  <1>1. approval' = approval /\ childDecision' = childDecision
    BY MessageEffect DEF childVars
  <1>2. \/ decision' = decision
        \/ decision = Undecided /\ \E a \in BOOLEAN : decision' = HumanDecided(c, a)
    BY MessageEffect
  <1>3. CASE req.hitl_mode # "child" /\ decision' # decision
    BY <1>1, <1>2, <1>3, GateShapes DEF Gate!GateNext, Gate!Decide
  <1>4. CASE req.hitl_mode = "child" \/ decision' = decision
    BY <1>1, <1>4 DEF Gate!gateVars
  <1> QED
    BY <1>3, <1>4

LEMMA RunRefines ==
    ASSUME OInv, OrderOnly, req' = req, Run \/ ExecutionTimesOut
    PROVE  [Gate!GateNext]_Gate!gateVars
  <1>1. childDecision' = childDecision
    BY DEF OrderOnly, childVars
  <1>2. CASE UNCHANGED <<approval, decision>>
    BY <1>1, <1>2 DEF Gate!gateVars
  <1>3. CASE PipelineDone /\ approval' = AutoApproved /\ decision' = decision
    <2>1. approval = Undecided /\ approval'.via = "auto"
      BY <1>3 DEF PipelineDone, OInv, Standing, AutoApproved
    <2> QED
      BY <1>1, <1>3, <2>1, NobodyAuto, GateShapes DEF Gate!gateVars
  <1>4. CASE GateResolved
    <2>1. /\ approval = Undecided /\ decision # Undecided /\ decision' = decision
          /\ approval' = decision /\ req.hitl_mode = "inline" /\ decision.via # "auto"
      BY <1>4 DEF GateResolved, Proceed, OInv, Standing, TypeOK, Decisions
    <2> QED
      BY <1>1, <2>1, NobodyAuto, GateShapes DEF Gate!GateNext, Gate!Report
  <1>5. CASE GateTimesOut
    <2>1. /\ approval = Undecided /\ decision = Undecided /\ req.hitl_mode = "inline"
          /\ decision' = TimeoutDecided(req.on_timeout) /\ approval' = decision'
      BY <1>5 DEF GateTimesOut, Proceed, OInv, Standing
    <2> QED
      BY <2>1, NobodyAuto, GateShapes DEF Gate!GateNext, Gate!Expire
  <1>6. CASE ChildCompleted
    <2>1. /\ approval = Undecided /\ decision' = decision /\ req.hitl_mode = "child"
          /\ approval' = childDecision
      BY <1>6, ChildFacts DEF ChildCompleted, Proceed, OInv, Standing
    <2>2. childDecision.via # "auto"
      BY DEF OInv, TypeOK, Child!TypeOK, Child!Decisions
    <2>3. CASE childDecision = Undecided
      BY <1>1, <2>1, <2>3 DEF Gate!gateVars
    <2>4. CASE childDecision # Undecided
      BY <1>1, <2>1, <2>2, <2>4, NobodyAuto, GateShapes DEF Gate!GateNext, Gate!Report
    <2> QED
      BY <2>3, <2>4
  <1> QED
    BY <1>2, <1>3, <1>4, <1>5, <1>6
       DEF Run, StageCompletes, StageFails, PipelineDone, ChildFailed, IncidentDone,
           ExecutionTimesOut, Proceed

LEMMA StepRefinesGate == OInv /\ [Next]_vars => [Gate!GateNext]_Gate!gateVars
  <1> SUFFICES ASSUME OInv, [Next]_vars PROVE [Gate!GateNext]_Gate!gateVars
    OBVIOUS
  <1>1. req' = req
    BY RequestKept
  <1>2. CASE UNCHANGED vars
    BY <1>2 DEF vars, orderVars, childVars, Gate!gateVars
  <1>3. CASE OrderOnly
    BY <1>1, <1>3, RunRefines, MessageRefines DEF OrderOnly
  <1>4. CASE ChildOnly
    BY <1>4, ChildRefines
  <1> QED
    BY <1>2, <1>3, <1>4, TwoActors

\* Inline or child, what people see of an order's gate is the abstract gate.
THEOREM OrderGateImplemented == Spec => ImplementsGate
  <1>1. Init => Gate!GateInit
    BY NobodyAuto, GateShapes, OrderAssumption DEF Init, Child!Init, Gate!GateInit, Undecided
  <1> QED
    BY <1>1, AlwaysOInv, StepRefinesGate, PTL DEF Spec, ImplementsGate, Gate!GateSpec

-----------------------------------------------------------------------------
(* The order among its clients (DecisionClients). *)

ClientTypes ==
    /\ at \in [Clients -> {"idle", "described", "aimed", "waiting", "answered", "broken"}]
    /\ wants \in [Clients -> BOOLEAN]
    /\ target \in [Clients -> {"order", "gate"}]
    /\ told \in [Clients -> {"nothing", "200", "409", "500", "decided", "rejected", "could not record"}]

\* A message of u is the one update that u sends, to where u aims.
Own(u, m, place) ==
    m.state # "idle" =>
        /\ at[u] \in {"waiting", "answered", "broken"} /\ target[u] = place
        /\ m.kind = "update" /\ m.approved = wants[u] /\ m.state # "handled"

\* What u was told is what became of that update, or that there was none; with the
\* connection broken, u is told of an error whatever becomes of it.
ToldTheAnswer(u) ==
    /\ at[u] \in {"answered", "broken"} <=> told[u] # "nothing"
    /\ at[u] = "broken" => told[u] \in {"500", "could not record"}
    /\ Agreed(u) => AnswerTo(u) = "confirmed"
    /\ Refused(u) => AnswerTo(u) \notin {"sent", "handled", "confirmed"}

Faithful(u) ==
    /\ Own(u, calls[ToOrder(u)], "order")
    /\ Own(u, childCalls[ToGate(u)], "gate")
    /\ ToldTheAnswer(u)

ClientInv == ClientTypes /\ \A u \in Clients : Faithful(u)

CInv == OInv /\ Authored /\ CompletesSettled /\ ClientInv

\* The steps of a client that send nothing.
Looks(u) == UiDescribes(u) \/ UiReadsHistory(u) \/ CliResolves(u) \/ GetsAnswer(u) \/ LosesContact(u)

LEMMA OwnMessages ==
    ASSUME NEW u \in Clients
    PROVE  /\ ToOrder(u) \in OrderCalls /\ ToGate(u) \in GateCalls
           /\ \A v \in Clients : (ToOrder(v) = ToOrder(u) \/ ToGate(v) = ToGate(u)) => v = u
           /\ ToOrder(u) \notin Signals
  BY ClientsAssumption DEF ToOrder, ToGate

\* What clients do is what humans may do: the order does not know whom it serves.
LEMMA ClientsAreHumans == ClientTypes /\ [ClientsNext]_allVars => [Next]_vars
  <1> SUFFICES ASSUME ClientTypes, [ClientsNext]_allVars PROVE [Next]_vars
    OBVIOUS
  <1>1. ASSUME NEW u \in Clients, SendsUpdate(u) PROVE Next
    <2>1. ToOrder(u) \in OrderCalls /\ ToGate(u) \in GateCalls /\ wants[u] \in BOOLEAN
      BY OwnMessages DEF ClientTypes
    <2>2. "update" \in Child!Kinds
      BY DEF Child!Kinds
    <2> QED
      BY <1>1, <2>1, <2>2 DEF SendsUpdate, Next, Humans
  <1>2. ASSUME NEW u \in Clients, Looks(u)
        PROVE  UNCHANGED vars
    BY <1>2 DEF Looks, UiDescribes, UiReadsHistory, CliResolves, GetsAnswer, LosesContact
  <1>3. CASE RawSignal
    <2>1. Signals \subseteq OrderCalls /\ "signal" \in Child!Kinds
      BY ClientsAssumption DEF Child!Kinds
    <2> QED
      BY <1>3, <2>1 DEF RawSignal, Next, Humans
  <1> QED
    BY <1>1, <1>2, <1>3 DEF ClientsNext, ClientNext, Clients, Looks, Next, allVars

\* A client that is not the one to move, while its messages are answered or not.
LEMMA Bystander ==
    ASSUME NEW u \in Clients, Faithful(u),
           Kept(calls[ToOrder(u)], calls'[ToOrder(u)]),
           Kept(childCalls[ToGate(u)], childCalls'[ToGate(u)]),
           at'[u] = at[u], target'[u] = target[u], told'[u] = told[u], wants'[u] = wants[u]
    PROVE  Faithful(u)'
  <1>1. Own(u, calls[ToOrder(u)], "order")' /\ Own(u, childCalls[ToGate(u)], "gate")'
    BY DEF Faithful, Own, Kept
  <1>2. ToldTheAnswer(u)'
    BY DEF Faithful, ToldTheAnswer, Agreed, Refused, AnswerTo, Kept
  <1> QED
    BY <1>1, <1>2 DEF Faithful

LEMMA StaysKept == \A m : Kept(m, m)
  BY DEF Kept

\* Beside the clients, nothing touches a client's message but its answer.
LEMMA OthersKeepMessages ==
    ASSUME TypeOK, System \/ RawSignal, NEW u \in Clients
    PROVE  /\ Kept(calls[ToOrder(u)], calls'[ToOrder(u)])
           /\ Kept(childCalls[ToGate(u)], childCalls'[ToGate(u)])
  <1>1. CASE System
    BY <1>1, SystemKeepsMessages, OwnMessages
  <1>2. CASE RawSignal
    <2>1. PICK c \in Signals, a \in BOOLEAN : Send(c, "signal", a)
      BY <1>2 DEF RawSignal
    <2>2. c # ToOrder(u)
      BY OwnMessages
    <2>3. calls'[ToOrder(u)] = calls[ToOrder(u)] /\ childCalls' = childCalls
      BY <2>1, <2>2, OwnMessages DEF Send, TypeOK, childVars
    <2> QED
      BY <2>3, StaysKept
  <1> QED
    BY <1>1, <1>2

\* A client that moves without sending.
LEMMA LooksInv ==
    ASSUME TypeOK, ClientInv, NEW u \in Clients,
           Looks(u)
    PROVE  ClientInv'
  <1>1. UNCHANGED vars /\ wants' = wants /\ calls' = calls /\ childCalls' = childCalls
    BY DEF Looks, UiDescribes, UiReadsHistory, CliResolves, GetsAnswer, LosesContact,
           vars, orderVars, childVars
  <1>2. ASSUME NEW place \in {"described", "aimed"}, Go(u, place), UNCHANGED told,
               NEW aim \in {"order", "gate"}, target' = [target EXCEPT ![u] = aim],
               at[u] \in {"idle", "described"}
        PROVE  ClientInv'
    <2>1. ClientTypes'
      BY <1>1, <1>2 DEF ClientInv, ClientTypes, Go
    <2>2. ASSUME NEW v \in Clients, v # u PROVE Faithful(v)'
      BY <1>1, <1>2, <2>2, Bystander, StaysKept DEF ClientInv, ClientTypes, Go
    <2>3. Faithful(u)'
      <3>1. calls'[ToOrder(u)].state = "idle" /\ childCalls'[ToGate(u)].state = "idle"
        BY <1>1, <1>2 DEF ClientInv, Faithful, Own
      <3>2. told'[u] = "nothing" /\ at'[u] = place
        BY <1>2 DEF ClientInv, ClientTypes, Faithful, ToldTheAnswer, Go
      <3> QED
        BY <3>1, <3>2 DEF Faithful, Own, ToldTheAnswer, Agreed, Refused
    <2> QED
      BY <2>1, <2>2, <2>3 DEF ClientInv
  <1>3. ASSUME NEW outcome \in {"200", "409", "500", "decided", "rejected", "could not record"},
               Tell(u, outcome), UNCHANGED target, told[u] = "nothing",
               outcome \in {"200", "decided"} => AnswerTo(u) = "confirmed",
               outcome \notin {"200", "decided"} => AnswerTo(u) \notin {"sent", "handled", "confirmed"}
        PROVE  ClientInv'
    <2>1. ClientTypes'
      BY <1>1, <1>3 DEF ClientInv, ClientTypes, Tell, Go
    <2>2. ASSUME NEW v \in Clients, v # u PROVE Faithful(v)'
      BY <1>1, <1>3, <2>2, Bystander, StaysKept DEF ClientInv, ClientTypes, Tell, Go
    <2>3. Faithful(u)'
      <3>1. told'[u] = outcome /\ at'[u] = "answered" /\ target'[u] = target[u]
        BY <1>3 DEF ClientInv, ClientTypes, Tell, Go
      <3>2. Own(u, calls[ToOrder(u)], "order")' /\ Own(u, childCalls[ToGate(u)], "gate")'
        BY <1>1, <3>1 DEF ClientInv, Faithful, Own
      <3>3. ToldTheAnswer(u)'
        BY <1>1, <1>3, <3>1 DEF ToldTheAnswer, Agreed, Refused, AnswerTo
      <3> QED
        BY <3>2, <3>3 DEF Faithful
    <2> QED
      BY <2>1, <2>2, <2>3 DEF ClientInv
  <1>10. ASSUME BreaksOff(u), UNCHANGED target, told[u] = "nothing"
         PROVE  ClientInv'
    <2>1. ClientTypes'
      BY <1>1, <1>10 DEF ClientInv, ClientTypes, BreaksOff, Go
    <2>2. ASSUME NEW v \in Clients, v # u PROVE Faithful(v)'
      BY <1>1, <1>10, <2>2, Bystander, StaysKept DEF ClientInv, ClientTypes, BreaksOff, Go
    <2>3. Faithful(u)'
      <3>1. told'[u] \in {"500", "could not record"} /\ at'[u] = "broken" /\ target'[u] = target[u]
        BY <1>10 DEF ClientInv, ClientTypes, BreaksOff, Go
      <3>2. Own(u, calls[ToOrder(u)], "order")' /\ Own(u, childCalls[ToGate(u)], "gate")'
        BY <1>1, <3>1 DEF ClientInv, Faithful, Own
      <3> QED
        BY <3>1, <3>2 DEF Faithful, ToldTheAnswer, Agreed, Refused
    <2> QED
      BY <2>1, <2>2, <2>3 DEF ClientInv
  <1>4. target \in [Clients -> {"order", "gate"}] /\ target = [target EXCEPT ![u] = target[u]]
    BY DEF ClientInv, ClientTypes
  <1>5. at[u] \in {"idle", "described", "aimed"} =>
          AnswerTo(u) = "idle" /\ told[u] = "nothing"
    BY <1>4 DEF ClientInv, Faithful, Own, ToldTheAnswer, AnswerTo
  <1>6. CASE UiDescribes(u)
    <2>1. CASE Go(u, "described") /\ UNCHANGED told
      BY <1>2, <1>4, <1>6, <2>1 DEF UiDescribes
    <2>2. CASE Tell(u, "409")
      BY <1>3, <1>5, <1>6, <2>2 DEF UiDescribes
    <2>3. CASE BreaksOff(u)
      BY <1>5, <1>6, <1>10, <2>3 DEF UiDescribes
    <2> QED
      BY <1>6, <2>1, <2>2, <2>3 DEF UiDescribes
  <1>7. CASE UiReadsHistory(u)
    <2>1. CASE BreaksOff(u) /\ UNCHANGED target
      BY <1>5, <1>7, <1>10, <2>1 DEF UiReadsHistory
    <2> QED
      BY <1>2, <1>7, <2>1 DEF UiReadsHistory, Aim
  <1>8. CASE CliResolves(u)
    BY <1>2, <1>8 DEF CliResolves, Aim
  <1>9. CASE GetsAnswer(u)
    <2> DEFINE outcome == IF u \in Uis THEN UiAnswer(AnswerTo(u)) ELSE CliAnswer(AnswerTo(u))
    <2>1. /\ AnswerTo(u) \in {"confirmed", "rejected", "not_found"} /\ Tell(u, outcome)
          /\ UNCHANGED target /\ told[u] = "nothing"
      BY <1>9 DEF GetsAnswer, ClientInv, Faithful, ToldTheAnswer
    <2>2. /\ outcome \in {"200", "409", "500", "decided", "rejected", "could not record"}
          /\ outcome \in {"200", "decided"} <=> AnswerTo(u) = "confirmed"
      BY <2>1 DEF UiAnswer, CliAnswer
    <2> QED
      BY <1>3, <2>1, <2>2
  <1>11. CASE LosesContact(u)
    BY <1>10, <1>11 DEF LosesContact, ClientInv, Faithful, ToldTheAnswer
  <1> QED
    BY <1>6, <1>7, <1>8, <1>9, <1>11 DEF Looks

\* A client that sends its update.
LEMMA SendsInv ==
    ASSUME TypeOK, ClientInv, NEW u \in Clients, SendsUpdate(u)
    PROVE  ClientInv'
  <1>1. /\ at[u] = "aimed" /\ at' = [at EXCEPT ![u] = "waiting"] /\ UNCHANGED <<wants, target, told>>
        /\ told[u] = "nothing" /\ target[u] \in {"order", "gate"}
    BY DEF SendsUpdate, Go, ClientInv, ClientTypes, Faithful, ToldTheAnswer
  <1>2. ToOrder(u) \in OrderCalls /\ ToGate(u) \in GateCalls
    BY OwnMessages
  <1>3. /\ at'[u] = "waiting" /\ \A v \in Clients \ {u} : at'[v] = at[v]
        /\ ClientTypes'
    BY <1>1 DEF ClientInv, ClientTypes
  <1>4. calls[ToOrder(u)].state = "idle" /\ childCalls[ToGate(u)].state = "idle"
    BY <1>1 DEF ClientInv, Faithful, Own
  <1> DEFINE m == [kind |-> "update", approved |-> wants[u], state |-> "sent"]
  <1>5. CASE target[u] = "order"
    <2>1. calls' = [calls EXCEPT ![ToOrder(u)] = m] /\ childCalls' = childCalls
      BY <1>5 DEF SendsUpdate, Send, childVars
    <2>2. calls'[ToOrder(u)] = m /\ \A c \in OrderCalls \ {ToOrder(u)} : calls'[c] = calls[c]
      BY <1>2, <2>1 DEF TypeOK
    <2>3. ASSUME NEW v \in Clients, v # u PROVE Faithful(v)'
      <3>1. calls'[ToOrder(v)] = calls[ToOrder(v)]
        BY <2>2, <2>3, OwnMessages
      <3> QED
        BY <1>1, <1>3, <2>1, <2>3, <3>1, Bystander, StaysKept DEF ClientInv
    <2>4. Faithful(u)'
      BY <1>1, <1>3, <1>4, <1>5, <2>1, <2>2 DEF Faithful, Own, ToldTheAnswer, Agreed, Refused
    <2> QED
      BY <1>3, <2>3, <2>4 DEF ClientInv
  <1>6. CASE target[u] = "gate"
    <2>1. childCalls' = [childCalls EXCEPT ![ToGate(u)] = m] /\ calls' = calls
      BY <1>6 DEF SendsUpdate, ChildStep, Child!Send, orderVars
    <2>2. childCalls'[ToGate(u)] = m /\ \A c \in GateCalls \ {ToGate(u)} : childCalls'[c] = childCalls[c]
      BY <1>2, <2>1 DEF TypeOK, Child!TypeOK
    <2>3. ASSUME NEW v \in Clients, v # u PROVE Faithful(v)'
      <3>1. childCalls'[ToGate(v)] = childCalls[ToGate(v)]
        BY <2>2, <2>3, OwnMessages
      <3> QED
        BY <1>1, <1>3, <2>1, <2>3, <3>1, Bystander, StaysKept DEF ClientInv
    <2>4. Faithful(u)'
      BY <1>1, <1>3, <1>4, <1>6, <2>1, <2>2 DEF Faithful, Own, ToldTheAnswer, Agreed, Refused
    <2> QED
      BY <1>3, <2>3, <2>4 DEF ClientInv
  <1> QED
    BY <1>1, <1>5, <1>6

LEMMA InitCInv == ClientsInit => CInv
  <1> SUFFICES ASSUME ClientsInit PROVE CInv
    OBVIOUS
  <1>1. OInv
    BY InitOInv DEF ClientsInit
  <1>2. Authored /\ CompletesSettled
    BY NobodyIsNoCall, OrderAssumption DEF ClientsInit, Init, Authored, CompletesSettled
  <1>3. ClientTypes
    BY DEF ClientsInit, ClientInit, ClientTypes
  <1>4. ASSUME NEW u \in Clients PROVE Faithful(u)
    <2>1. calls[ToOrder(u)].state = "idle" /\ childCalls[ToGate(u)].state = "idle"
      BY OwnMessages DEF ClientsInit, Init, Child!Init, Child!Unsent
    <2>2. at[u] = "idle" /\ told[u] = "nothing"
      BY DEF ClientsInit, ClientInit
    <2> QED
      BY <2>1, <2>2 DEF Faithful, Own, ToldTheAnswer, Agreed, Refused
  <1> QED
    BY <1>1, <1>2, <1>3, <1>4 DEF CInv, ClientInv

LEMMA NextCInv == CInv /\ [ClientsNext]_allVars => CInv'
  <1> SUFFICES ASSUME CInv, [ClientsNext]_allVars PROVE CInv'
    OBVIOUS
  <1>1. [Next]_vars
    BY ClientsAreHumans DEF CInv, ClientInv
  <1>2. OInv' /\ Authored' /\ CompletesSettled'
    BY <1>1, NextOInv, NextAuthored, NextCompletesSettled DEF CInv
  <1>3. TypeOK /\ ClientInv
    BY DEF CInv, OInv
  <1>4. ASSUME NEW u \in Clients, SendsUpdate(u) PROVE ClientInv'
    BY <1>3, <1>4, SendsInv
  <1>5. ASSUME NEW u \in Clients, Looks(u) PROVE ClientInv'
    BY <1>3, <1>5, LooksInv
  <1>6. ASSUME UNCHANGED clientVars,
               \A u \in Clients : /\ Kept(calls[ToOrder(u)], calls'[ToOrder(u)])
                                  /\ Kept(childCalls[ToGate(u)], childCalls'[ToGate(u)])
        PROVE  ClientInv'
    <2>1. ClientTypes'
      BY <1>3, <1>6 DEF ClientInv, ClientTypes, clientVars
    <2>2. ASSUME NEW u \in Clients PROVE Faithful(u)'
      BY <1>3, <1>6, <2>2, Bystander DEF ClientInv, clientVars
    <2> QED
      BY <2>1, <2>2 DEF ClientInv
  <1>7. ASSUME (System \/ RawSignal) /\ UNCHANGED clientVars PROVE ClientInv'
    <2>1. ASSUME NEW u \in Clients
          PROVE  /\ Kept(calls[ToOrder(u)], calls'[ToOrder(u)])
                 /\ Kept(childCalls[ToGate(u)], childCalls'[ToGate(u)])
      BY <1>3, <1>7, OthersKeepMessages
    <2> QED
      BY <1>6, <1>7, <2>1
  <1>8. ASSUME UNCHANGED allVars PROVE ClientInv'
    <2>1. UNCHANGED clientVars /\ calls' = calls /\ childCalls' = childCalls
      BY <1>8 DEF allVars, vars, orderVars, childVars
    <2> QED
      BY <1>6, <2>1, StaysKept
  <1>9. ClientInv'
    BY <1>4, <1>5, <1>7, <1>8 DEF ClientsNext, ClientNext, Clients, Looks
  <1> QED
    BY <1>2, <1>9 DEF CInv

LEMMA AlwaysCInv == ClientsInit /\ [][ClientsNext]_allVars => []CInv
  BY InitCInv, NextCInv, PTL

\* The state of the order and its clients always has its type.
THEOREM ClientsTyped == ClientsSpec => []ClientTypeOK
  <1>1. CInv => ClientTypeOK
    BY DEF CInv, OInv, ClientInv, ClientTypes, ClientTypeOK
  <1> QED
    BY <1>1, AlwaysCInv, PTL DEF ClientsSpec

\* The repository's own clients are humans like any other: an order among them behaves as
\* OrderWorkflow's Spec allows, so all that is proved of it holds of an order they decide
\* (server.py:187, approve.py:41).
THEOREM ClientsServeTheOrder == ClientsSpec => Spec
  <1>1. ClientsInit => Init
    BY DEF ClientsInit
  <1>2. CInv => ClientTypes
    BY DEF CInv, ClientInv
  <1> QED
    BY <1>1, <1>2, AlwaysCInv, ClientsAreHumans, PTL DEF ClientsSpec, Spec

\* Where a client's confirmed update went, and that nobody else has one.
LEMMA AgreedFacts ==
    ASSUME CInv, NEW u \in Clients, Agreed(u)
    PROVE  \/ /\ target[u] = "order" /\ Required /\ req.hitl_mode = "inline"
              /\ decision = HumanDecided(ToOrder(u), wants[u])
           \/ /\ target[u] = "gate" /\ Required /\ req.hitl_mode = "child"
              /\ childDecision = HumanDecided(ToGate(u), wants[u])
              /\ childResult \in {Undecided, childDecision}
  <1>1. Faithful(u) /\ target[u] \in {"order", "gate"} /\ AnswerTo(u) = "confirmed"
    BY DEF CInv, ClientInv, ClientTypes, Faithful, ToldTheAnswer
  <1>2. CASE target[u] = "order"
    <2>1. calls[ToOrder(u)].state = "confirmed" /\ calls[ToOrder(u)].approved = wants[u]
      BY <1>1, <1>2 DEF Faithful, Own, AnswerTo
    <2> QED
      BY <1>2, <2>1, OwnMessages DEF CInv, OInv, Confirmations
  <1>3. CASE target[u] = "gate"
    <2>1. childCalls[ToGate(u)].state = "confirmed" /\ childCalls[ToGate(u)].approved = wants[u]
      BY <1>1, <1>3 DEF Faithful, Own, AnswerTo
    <2>2. /\ childDecision = HumanDecided(ToGate(u), wants[u])
          /\ childResult \in {Undecided, childDecision}
      BY <2>1, OwnMessages, ChildFacts DEF CInv, OInv
    <2>3. Required /\ req.hitl_mode = "child"
      BY <2>2, HumansDecide DEF CInv, OInv, Standing
    <2> QED
      BY <1>3, <2>2, <2>3
  <1> QED
    BY <1>1, <1>2, <1>3

\* Whoever is told that his decision was taken decided the order, alone
\* (server.py:200, approve.py:56).
THEOREM AgreementIsTrue == ClientsSpec => []AgreedIsOutcome
  <1>1. CInv => AgreedIsOutcome
    <2> SUFFICES ASSUME CInv, NEW u \in Clients, Agreed(u)
                 PROVE  /\ approval # Undecided => Mine(u, approval) /\ approval.approved = wants[u]
                        /\ status = "completed" => approval # Undecided
                        /\ \A v \in Clients \ {u} : ~Agreed(v)
                        /\ target[u] = "gate" <=> req.hitl_mode = "child"
      BY DEF AgreedIsOutcome
    <2>1. approval # Undecided =>
            approval \in {HumanDecided(ToOrder(u), wants[u]), HumanDecided(ToGate(u), wants[u])}
      BY AgreedFacts DEF CInv, OInv, RightAuthority
    <2>2. approval # Undecided => Mine(u, approval) /\ approval.approved = wants[u]
      <3>1. /\ HumanDecided(ToOrder(u), wants[u]).by = ToOrder(u)
            /\ HumanDecided(ToOrder(u), wants[u]).approved = wants[u]
            /\ HumanDecided(ToGate(u), wants[u]).by = ToGate(u)
            /\ HumanDecided(ToGate(u), wants[u]).approved = wants[u]
        BY Shapes
      <3> QED
        BY <2>1, <3>1 DEF Mine
    <2>3. status = "completed" => approval # Undecided
      BY DEF CInv, CompletesSettled
    <2>4. ASSUME NEW v \in Clients, Agreed(v) PROVE v = u
      <3>1. \/ HumanDecided(ToOrder(u), wants[u]) = HumanDecided(ToOrder(v), wants[v])
            \/ HumanDecided(ToGate(u), wants[u]) = HumanDecided(ToGate(v), wants[v])
        <4>1. CASE req.hitl_mode = "child"
          BY <2>4, <4>1, AgreedFacts
        <4>2. CASE req.hitl_mode # "child"
          BY <2>4, <4>2, AgreedFacts
        <4> QED
          BY <4>1, <4>2
      <3>2. ToOrder(u) = ToOrder(v) \/ ToGate(u) = ToGate(v)
        BY <3>1, NobodyIsNoCall
      <3> QED
        BY <2>4, <3>2, OwnMessages
    <2>5. target[u] = "gate" <=> req.hitl_mode = "child"
      BY AgreedFacts
    <2> QED
      BY <2>2, <2>3, <2>4, <2>5
  <1> QED
    BY <1>1, AlwaysCInv, PTL DEF ClientsSpec

\* Nobody whose decision was refused decided anything (server.py:207, approve.py:51): with
\* contact lost at any point of every client's way, only the errors told then may stand
\* beside a decision.
THEOREM RefusalIsTrue == ClientsSpec => []RefusedHasNoEffect
  <1>1. CInv => RefusedHasNoEffect
    <2> SUFFICES ASSUME CInv, NEW u \in Clients, Refused(u)
                 PROVE  ~Mine(u, approval) /\ ~Mine(u, decision) /\ ~Mine(u, childDecision)
      BY DEF RefusedHasNoEffect
    <2>1. /\ calls[ToOrder(u)].state \notin {"handled", "confirmed"}
          /\ childCalls[ToGate(u)].state \notin {"handled", "confirmed"}
      BY DEF CInv, ClientInv, ClientTypes, Faithful, Own, ToldTheAnswer, AnswerTo
    <2>2. /\ ToOrder(u) \in OrderCalls /\ ToGate(u) \in GateCalls
          /\ ToOrder(u) \notin GateCalls /\ ToGate(u) \notin OrderCalls
          /\ NoCall \notin {ToOrder(u), ToGate(u)}
      BY OwnMessages, OrderAssumption
    <2>3. decision.by \in OrderCalls \cup {NoCall} /\ decision.by # ToOrder(u)
      BY <2>1, <2>2 DEF CInv, OInv, TypeOK, Decisions, Authored
    <2>4. childDecision.by \in GateCalls \cup {NoCall} /\ childDecision.by # ToGate(u)
      <3>1. childDecision.by # ToGate(u)
        BY <2>1, <2>2, ChildFacts DEF CInv, OInv
      <3> QED
        BY <3>1, ChildFacts DEF CInv, OInv, Child!TypeOK, Child!Decisions
    <2>5. ~Mine(u, decision) /\ ~Mine(u, childDecision)
      BY <2>2, <2>3, <2>4 DEF Mine
    <2>6. approval.by = NoCall \/ approval = decision \/ approval = childDecision
      <3>1. childResult \in {Undecided, childDecision}
        BY ChildFacts DEF CInv, OInv
      <3> QED
        BY <3>1, NobodyIsNoCall DEF CInv, OInv, RightAuthority
    <2> QED
      BY <2>2, <2>5, <2>6 DEF Mine
  <1> QED
    BY <1>1, AlwaysCInv, PTL DEF ClientsSpec
=============================================================================
