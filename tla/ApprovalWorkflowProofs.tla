----------------------- MODULE ApprovalWorkflowProofs -----------------------
(***************************************************************************)
(* What holds of the child gate for any set of messages: its safety        *)
(* properties, from one inductive invariant, and that it implements the    *)
(* abstract gate.                                                          *)
(***************************************************************************)
EXTENDS ApprovalWorkflow, TLAPS

\* What the four properties rest on: the slot is empty exactly while nothing was
\* recorded, a handled message leaves a human's decision in it and nothing else does,
\* the deadline's decision and the result exist only in a closed execution, and one that
\* completed was decided.
Strengthening ==
    /\ decision.via = "" <=> decision = Undecided
    /\ \A c \in Calls : calls[c].state \in {"handled", "confirmed"} => decision.via = "human"
    /\ decision.via = "timeout" => status = "completed"
    /\ decision.by \in Calls => decision.via = "human"
    /\ status = "completed" => result = decision /\ decision # Undecided
    /\ status # "completed" => result = Undecided

IInv == TypeOK /\ ConfirmedIsDecision /\ DecisionHasAuthor /\ Strengthening

LEMMA DecisionShapes ==
    /\ Undecided \in Decisions /\ Undecided.via = "" /\ Undecided.by \notin Calls
    /\ \A c \in Calls, a \in BOOLEAN :
          /\ HumanDecided(c, a) \in Decisions
          /\ HumanDecided(c, a).via = "human" /\ HumanDecided(c, a).by = c
          /\ HumanDecided(c, a).approved = a
    /\ \A p \in Policies :
          /\ TimeoutDecided(p) \in Decisions /\ TimeoutDecided(p).via = "timeout"
          /\ TimeoutDecided(p).by \notin Calls
  BY NoCallAssumption
     DEF Undecided, HumanDecided, TimeoutDecided, Gate!Undecided, Gate!HumanDecided,
         Gate!TimeoutDecided, Decisions, Policies

LEMMA InitIInv == Init => IInv
  <1> SUFFICES ASSUME Init PROVE IInv
    OBVIOUS
  <1>1. Unsent \in Message /\ Unsent.state = "idle"
    BY DEF Unsent, Message, Kinds, Answers
  <1>2. TypeOK
    BY <1>1, DecisionShapes DEF Init, TypeOK, Statuses
  <1>3. \A c \in Calls : calls[c].state = "idle"
    BY <1>1 DEF Init
  <1> QED
    BY <1>2, <1>3, DecisionShapes
       DEF Init, IInv, ConfirmedIsDecision, DecisionHasAuthor, Strengthening

\* A message that is answered stays the message it was.
LEMMA AnswerKeepsMessages ==
    ASSUME TypeOK, NEW c \in Calls, NEW a \in Answers, Answer(c, a)
    PROVE  /\ calls' \in [Calls -> Message]
           /\ calls'[c].state = a /\ calls'[c].approved = calls[c].approved
           /\ \A d \in Calls \ {c} : calls'[d] = calls[d]
  BY DEF TypeOK, Answer, Message, Answers

\* The step that fills the slot of a running gate.
LEMMA FirstRecorded ==
    ASSUME IInv, NEW c \in Calls,
           status = "running", UNCHANGED <<status, policy, req, result>>, result = Undecided,
           calls[c].approved \in BOOLEAN,
           \A d \in Calls : calls[d].state \notin {"handled", "confirmed"},
           decision' = HumanDecided(c, calls[c].approved),
           calls' \in [Calls -> Message],
           calls'[c].state \in {"handled", "confirmed"}, calls'[c].approved = calls[c].approved,
           \A d \in Calls \ {c} : calls'[d] = calls[d]
    PROVE  IInv'
  <1>1. /\ decision' \in Decisions /\ decision'.via = "human" /\ decision'.by = c
        /\ decision'.approved = calls'[c].approved
    BY DecisionShapes
  <1>2. TypeOK'
    BY <1>1 DEF IInv, TypeOK
  <1>3. ConfirmedIsDecision'
    BY <1>1 DEF IInv, ConfirmedIsDecision
  <1>4. DecisionHasAuthor'
    BY <1>1 DEF DecisionHasAuthor
  <1>5. Strengthening'
    BY <1>1, DecisionShapes DEF Strengthening
  <1> QED
    BY <1>2, <1>3, <1>4, <1>5 DEF IInv

LEMMA NextIInv == IInv /\ [Next]_vars => IInv'
  <1> SUFFICES ASSUME IInv, [Next]_vars PROVE IInv'
    OBVIOUS
  <1> USE DEF IInv
  <1>1. CASE Start
    BY <1>1, DecisionShapes
       DEF Start, TypeOK, Statuses, ConfirmedIsDecision, DecisionHasAuthor, Strengthening
  <1>2. ASSUME NEW c \in Calls, NEW k \in Kinds, NEW a \in BOOLEAN, Send(c, k, a) PROVE IInv'
    <2>1. calls' \in [Calls -> Message]
      BY <1>2 DEF Send, TypeOK, Message
    <2>2. \A d \in Calls : \/ calls'[d] = calls[d]
                           \/ d = c /\ calls[d].state = "idle" /\ calls'[d].state = "sent"
      BY <1>2 DEF Send, TypeOK, Message
    <2>3. UNCHANGED <<status, policy, req, decision, result>>
      BY <1>2 DEF Send
    <2> QED
      BY <2>1, <2>2, <2>3
         DEF TypeOK, ConfirmedIsDecision, DecisionHasAuthor, Strengthening
  <1>3. ASSUME NEW c \in Calls, HandleSignal(c) PROVE IInv'
    <2>1. /\ Answer(c, "handled") /\ "handled" \in Answers /\ status = "running"
          /\ UNCHANGED <<status, policy, req, result>>
          /\ calls[c].approved \in BOOLEAN /\ calls[c].state = "sent"
      BY <1>3 DEF HandleSignal, Answers, TypeOK, Message
    <2>2. /\ calls' \in [Calls -> Message]
          /\ calls'[c].state = "handled" /\ calls'[c].approved = calls[c].approved
          /\ \A d \in Calls \ {c} : calls'[d] = calls[d]
      BY <2>1, AnswerKeepsMessages
    <2>3. CASE decision = Undecided
      <3>1. decision' = HumanDecided(c, calls[c].approved)
        BY <1>3, <2>3 DEF HandleSignal, Record
      <3>2. \A d \in Calls : calls[d].state \notin {"handled", "confirmed"}
        BY <2>3, DecisionShapes DEF Strengthening
      <3>3. result = Undecided
        BY <2>1 DEF Strengthening
      <3> QED
        BY <2>1, <2>2, <3>1, <3>2, <3>3, FirstRecorded
    <2>4. CASE decision # Undecided
      <3>1. decision' = decision
        BY <1>3, <2>4 DEF HandleSignal, Record
      <3>2. decision.via = "human"
        BY <2>1, <2>4 DEF Strengthening, TypeOK, Decisions
      <3> QED
        BY <2>1, <2>2, <3>1, <3>2
           DEF TypeOK, ConfirmedIsDecision, DecisionHasAuthor, Strengthening
    <2> QED BY <2>3, <2>4
  <1>4. ASSUME NEW c \in Calls, HandleUpdate(c) PROVE IInv'
    <2>1. /\ status = "running" /\ UNCHANGED <<status, policy, req, result>>
          /\ calls[c].approved \in BOOLEAN /\ calls[c].state = "sent"
          /\ {"confirmed", "rejected"} \subseteq Answers
      BY <1>4 DEF HandleUpdate, Answers, TypeOK, Message
    <2>2. CASE Accepts /\ decision' = Record(c) /\ Answer(c, "confirmed")
      <3>1. /\ calls' \in [Calls -> Message]
            /\ calls'[c].state = "confirmed" /\ calls'[c].approved = calls[c].approved
            /\ \A d \in Calls \ {c} : calls'[d] = calls[d]
        BY <2>1, <2>2, AnswerKeepsMessages
      <3>2. decision = Undecided /\ decision' = HumanDecided(c, calls[c].approved)
        BY <2>2 DEF Accepts, Record
      <3>3. \A d \in Calls : calls[d].state \notin {"handled", "confirmed"}
        BY <3>2, DecisionShapes DEF Strengthening
      <3>4. result = Undecided
        BY <2>1 DEF Strengthening
      <3> QED
        BY <2>1, <3>1, <3>2, <3>3, <3>4, FirstRecorded
    <2>3. CASE ~Accepts /\ UNCHANGED decision /\ Answer(c, "rejected")
      <3>1. /\ calls' \in [Calls -> Message]
            /\ calls'[c].state = "rejected" /\ calls'[c].approved = calls[c].approved
            /\ \A d \in Calls \ {c} : calls'[d] = calls[d]
        BY <2>1, <2>3, AnswerKeepsMessages
      <3> QED
        BY <2>1, <2>3, <3>1
           DEF TypeOK, ConfirmedIsDecision, DecisionHasAuthor, Strengthening
    <2> QED BY <1>4, <2>2, <2>3 DEF HandleUpdate
  <1>5. ASSUME NEW c \in Calls, NotFound(c) PROVE IInv'
    <2>1. /\ UNCHANGED <<status, policy, req, decision, result>>
          /\ Answer(c, "not_found") /\ "not_found" \in Answers /\ calls[c].state = "sent"
      BY <1>5 DEF NotFound, Answers
    <2>2. /\ calls' \in [Calls -> Message]
          /\ calls'[c].state = "not_found"
          /\ \A d \in Calls \ {c} : calls'[d] = calls[d]
      BY <2>1, AnswerKeepsMessages
    <2> QED
      BY <2>1, <2>2 DEF TypeOK, ConfirmedIsDecision, DecisionHasAuthor, Strengthening
  <1>6. CASE RunStarts
    BY <1>6 DEF RunStarts, TypeOK, ConfirmedIsDecision, DecisionHasAuthor, Strengthening
  <1>7. CASE GateResolved
    BY <1>7 DEF GateResolved, Return, TypeOK, Statuses, ConfirmedIsDecision,
                DecisionHasAuthor, Strengthening
  <1>8. CASE GateTimesOut
    <2>1. \A d \in Calls : calls[d].state \notin {"handled", "confirmed"}
      BY <1>8, DecisionShapes DEF GateTimesOut, Strengthening
    <2> QED
      BY <1>8, <2>1, DecisionShapes
         DEF GateTimesOut, Return, TypeOK, Statuses, ConfirmedIsDecision, DecisionHasAuthor,
             Strengthening
  <1>9. CASE ExecutionTimesOut \/ Terminate
    BY <1>9 DEF ExecutionTimesOut, Terminate, CloseAs, TypeOK, Statuses, ConfirmedIsDecision,
                DecisionHasAuthor, Strengthening
  <1>10. CASE UNCHANGED vars
    BY <1>10 DEF vars, TypeOK, ConfirmedIsDecision, DecisionHasAuthor, Strengthening
  <1> QED
    BY <1>1, <1>2, <1>3, <1>4, <1>5, <1>6, <1>7, <1>8, <1>9, <1>10
       DEF Next, Humans, Deliver, Run

LEMMA SpecIInv == Spec => []IInv
  BY InitIInv, NextIInv, PTL DEF Spec

\* The gate's state always has its type.
THEOREM TypeCorrect == Spec => []TypeOK
  BY SpecIInv, PTL DEF IInv

\* A confirmed update is the decision the gate keeps and returns.
THEOREM ConfirmedUpdateHolds == Spec => []ConfirmedIsDecision
  BY SpecIInv, PTL DEF IInv

\* A decision attributed to a human is the verdict of a message that was delivered.
THEOREM DecisionsAreAuthored == Spec => []DecisionHasAuthor
  BY SpecIInv, PTL DEF IInv

\* A gate that returned its timeout policy had handled no human's decision.
THEOREM HumansBeatTheDeadline == Spec => []TimeoutOverridesNobody
  <1>1. IInv => TimeoutOverridesNobody
    BY DecisionShapes DEF IInv, Strengthening, TimeoutOverridesNobody, TypeOK
  <1> QED BY <1>1, SpecIInv, PTL

LEMMA StepIsFinal ==
    ASSUME IInv, [Next]_vars
    PROVE  [/\ decision # Undecided => decision' = decision
            /\ result # Undecided => result' = result]_vars
  <1> SUFFICES ASSUME Next
               PROVE  /\ decision # Undecided => decision' = decision
                      /\ result # Undecided => result' = result
    OBVIOUS
  <1>1. status = "running" => result = Undecided
    BY DEF IInv, Strengthening
  <1> QED
    BY <1>1 DEF Next, Humans, Deliver, Run, Start, Send, HandleSignal, HandleUpdate, NotFound,
                RunStarts, GateResolved, GateTimesOut, Return, ExecutionTimesOut, Terminate,
                CloseAs, Record, Accepts

\* Neither the decision nor the result is ever revised.
THEOREM DecisionStays == Spec => DecisionIsFinal
  BY SpecIInv, StepIsFinal, PTL DEF Spec, DecisionIsFinal

LEMMA StepRefinesGate == IInv /\ [Next]_vars => [Gate!GateNext]_Gate!gateVars
  <1> SUFFICES ASSUME IInv, [Next]_vars PROVE Gate!GateNext \/ UNCHANGED Gate!gateVars
    OBVIOUS
  <1> USE DEF Gate!GateNext, Gate!gateVars
  <1>1. ASSUME NEW c \in Calls, HandleSignal(c) \/ HandleUpdate(c)
        PROVE  Gate!Decide \/ UNCHANGED Gate!gateVars
    <2>1. calls[c].approved \in BOOLEAN
      BY DEF IInv, TypeOK, Message
    <2>2. UNCHANGED <<policy, result>> /\ decision' \in {decision, Record(c)}
      BY <1>1 DEF HandleSignal, HandleUpdate
    <2> QED
      BY <2>1, <2>2 DEF Gate!Decide, Record, Undecided, HumanDecided
  <1>2. CASE GateResolved
    <2>1. result = Undecided
      BY <1>2 DEF GateResolved, IInv, Strengthening
    <2> QED
      BY <1>2, <2>1 DEF GateResolved, Return, Gate!Report, Undecided
  <1>3. CASE GateTimesOut
    BY <1>3 DEF GateTimesOut, Return, Gate!Expire, Undecided, TimeoutDecided
  <1>4. CASE UNCHANGED <<policy, decision, result>>
    BY <1>4
  <1> QED
    BY <1>1, <1>2, <1>3, <1>4
       DEF Next, vars, Humans, Deliver, Run, Start, Send, NotFound, RunStarts,
           ExecutionTimesOut, Terminate, CloseAs

\* The child workflow implements the abstract gate, for any number of messages.
THEOREM GateImplemented == Spec => ImplementsGate
  <1>1. Init => Gate!GateInit
    BY DEF Init, Gate!GateInit, Undecided, Policies
  <1> QED
    BY <1>1, SpecIInv, StepRefinesGate, PTL DEF Spec, ImplementsGate, Gate!GateSpec
=============================================================================
