------------------------ MODULE ExecutionViewProofs ------------------------
(***************************************************************************)
(* What the page shows of an order is true, whole and never goes back, for *)
(* a pipeline of any length and any number of attempts.  The order only    *)
(* grows; the shown view is behind the one being read, which is behind the *)
(* order.                                                                  *)
(***************************************************************************)
EXTENDS ExecutionView, TLAPS

SettledStates == {"completed", "failed"}
LiveStates    == {"scheduled", "running", "retrying"}
Busy          == {"queued", "running", "failed"}

\* The attempt that activity s has reached.
Reach(s) == IF taken[s] > 0 THEN taken[s] ELSE IF at = s THEN attempt ELSE 0

\* The order goes from left to right.
OrderShape ==
    /\ \A s \in Activities : taken[s] > 0 <=> s < at
    /\ act \in Busy => at \in Activities /\ attempt >= 1
    /\ act \in {"idle", "open"} => attempt = 0
    /\ act = "open" => at = Gate

\* A stage of a view is not ahead of the order.
StageTrue(seen, s) ==
    /\ seen.state \in SettledStates => seen = Recorded(s)
    /\ seen.state \in LiveStates => Recorded(s).state # "waiting" /\ seen.attempt <= Reach(s)
    /\ seen.state = "waiting" => seen.attempt = 0

\* In a view of an order that ended, history has settled all it ever will.
StageWhole(v, s) ==
    v.status \in Terminal => v.stages[s] = Recorded(s) \/ Recorded(s).state = "scheduled"

OneLive(v) ==
    \A s \in Activities : v.stages[s].state \in LiveStates =>
        \A t \in Activities \ {s} : v.stages[t].state = IF t < s THEN "completed" ELSE "waiting"

GateReached == at > Gate \/ (at = Gate /\ act = "open")

ViewTrue(v) ==
    /\ \A s \in Activities : StageTrue(v.stages[s], s) /\ StageWhole(v, s)
    /\ OneLive(v)
    /\ v.pending = "yes" => v.status = "RUNNING" /\ GateReached
    /\ v.status \in Terminal => v.status = status
    /\ v.result => status = "COMPLETED"

\* A description is not ahead of the order either.
DescTrue(d) ==
    /\ d.step # 0 => Recorded(d.step).state # "waiting" /\ d.attempt <= Reach(d.step)
    /\ d.status \in Terminal => d.status = status

\* The stages that history may still leave to the description come out of it
\* with at least the attempt that is shown.
DescContinues ==
    req.desc.status = "RUNNING" =>
        \A s \in Activities : Recorded(s).state = "scheduled" =>
            shown.stages[s].attempt <= IF s = req.desc.step THEN req.desc.attempt ELSE 0

\* The view that was read takes nothing back.
ViewContinues ==
    \A s \in Activities :
        /\ shown.stages[s].state \in SettledStates => req.view.stages[s] = shown.stages[s]
        /\ req.view.status = "RUNNING" => req.view.stages[s].attempt >= shown.stages[s].attempt

VInv ==
    /\ TypeOK
    /\ OrderShape
    /\ ViewTrue(shown)
    /\ Settled => req = Free
    /\ req.pc = "described" => DescTrue(req.desc) /\ DescContinues
    /\ req.pc = "read" => ViewTrue(req.view) /\ ViewContinues /\ req.view.pending = "no"
                          /\ req.view.result = FALSE

-----------------------------------------------------------------------------
(* The order only grows.                                                   *)

OrderTyped ==
    /\ at \in 1..Last
    /\ act \in {"idle", "queued", "running", "failed", "open"}
    /\ attempt \in 0..MaxAttempts
    /\ taken \in [Activities -> 0..MaxAttempts]
    /\ child \in BOOLEAN
    /\ status \in Statuses

Grows ==
    /\ \A s \in Activities :
          /\ Recorded(s).state \in SettledStates => Recorded(s)' = Recorded(s)
          /\ Recorded(s).state # "waiting" => Recorded(s)'.state # "waiting"
          /\ Reach(s)' >= Reach(s)
          /\ Recorded(s).state = "waiting" \/ Recorded(s)'.state # "scheduled"
                \/ Recorded(s).state = "scheduled"
    /\ GateReached => GateReached'
    /\ status = "RUNNING"

LEMMA Places == /\ Stages \in Nat /\ Stages >= 1 /\ MaxAttempts \in Nat /\ MaxAttempts >= 1
                /\ Activities \subseteq Nat /\ 0 \notin Activities
                /\ Gate \notin Activities /\ Last \notin Activities
                /\ \A s \in Activities : s < Last /\ (s < Gate \/ s = Incident)
  BY ViewAssumption DEF Activities, Gate, Incident, Last

LEMMA OrderGrows ==
    ASSUME OrderTyped, OrderShape,
           Schedule \/ AttemptStarts \/ AttemptFails \/ ActivityCompletes
               \/ GateOpens \/ GatePasses \/ RunReturns \/ RunEnds
    PROVE  OrderTyped' /\ OrderShape' /\ Grows
  <1> USE Places
  <1>1. CASE Schedule
    BY <1>1 DEF Schedule, OrderTyped, OrderShape, Grows, Recorded, Reach, GateReached, NoStage,
                SettledStates, Busy, Statuses, Gate, Last
  <1>2. CASE AttemptStarts
    BY <1>2 DEF AttemptStarts, OrderTyped, OrderShape, Grows, Recorded, Reach, GateReached, NoStage,
                SettledStates, Busy, Statuses, Gate, Last
  <1>3. CASE AttemptFails
    BY <1>3 DEF AttemptFails, OrderTyped, OrderShape, Grows, Recorded, Reach, GateReached, NoStage,
                SettledStates, Busy, Statuses, Gate, Last
  <1>4. CASE ActivityCompletes
    BY <1>4 DEF ActivityCompletes, GoTo, OrderTyped, OrderShape, Grows, Recorded, Reach, GateReached,
                NoStage, SettledStates, Busy, Statuses, Activities, Gate, Incident, Last
  <1>5. CASE GateOpens
    BY <1>5 DEF GateOpens, OrderTyped, OrderShape, Grows, Recorded, Reach, GateReached, NoStage,
                SettledStates, Busy, Statuses, Gate, Last
  <1>6. CASE GatePasses
    BY <1>6 DEF GatePasses, GoTo, OrderTyped, OrderShape, Grows, Recorded, Reach, GateReached, NoStage,
                SettledStates, Busy, Statuses, Activities, Gate, Incident, Last
  <1>7. CASE RunReturns
    BY <1>7 DEF RunReturns, OrderTyped, OrderShape, Grows, Recorded, Reach, GateReached, NoStage,
                SettledStates, Busy, Statuses, Gate, Last
  <1>8. CASE RunEnds
    BY <1>8 DEF RunEnds, OrderTyped, OrderShape, Grows, Recorded, Reach, GateReached, NoStage,
                SettledStates, Busy, Statuses, Gate, Last
  <1> QED
    BY <1>1, <1>2, <1>3, <1>4, <1>5, <1>6, <1>7, <1>8

-----------------------------------------------------------------------------
(* What was true of a view stays true of it.                               *)

\* While an order runs, a true view of it has no end and no result.
LEMMA RunningView ==
    ASSUME NEW v \in Views, ViewTrue(v), status = "RUNNING"
    PROVE  v.status \notin Terminal /\ ~v.result
  BY DEF ViewTrue, Terminal, Views

LEMMA ViewKept ==
    ASSUME NEW v \in Views, OrderTyped, OrderShape, OrderTyped', Grows, ViewTrue(v)
    PROVE  ViewTrue(v)'
  <1>1. v.status \notin Terminal /\ ~v.result
    BY RunningView DEF Grows
  <1>2. ASSUME NEW s \in Activities  PROVE StageTrue(v.stages[s], s)'
    <2>1. StageTrue(v.stages[s], s)
      BY DEF ViewTrue
    <2>2. /\ Recorded(s).state \in SettledStates => Recorded(s)' = Recorded(s)
          /\ Recorded(s).state # "waiting" => Recorded(s)'.state # "waiting"
          /\ Reach(s)' >= Reach(s)
      BY DEF Grows
    <2>3. Reach(s) \in 0..MaxAttempts /\ Reach(s)' \in 0..MaxAttempts
      BY Places DEF OrderTyped, Reach
    <2>4. v.stages[s].attempt \in 0..MaxAttempts
      BY DEF Views
    <2> QED
      BY <2>1, <2>2, <2>3, <2>4, Places DEF StageTrue
  <1> QED
    BY <1>1, <1>2 DEF ViewTrue, OneLive, StageWhole, Grows

LEMMA DescKept ==
    ASSUME NEW d \in Descs, OrderTyped, OrderShape, OrderTyped', Grows, DescTrue(d)
    PROVE  DescTrue(d)'
  <1>1. CASE d.step = 0
    BY <1>1 DEF DescTrue, Grows, Terminal
  <1>2. CASE d.step \in Activities
    <2>1. /\ Recorded(d.step).state # "waiting" => Recorded(d.step)'.state # "waiting"
          /\ Reach(d.step)' >= Reach(d.step)
      BY <1>2 DEF Grows
    <2>2. \A s \in Activities : Reach(s) \in 0..MaxAttempts /\ Reach(s)' \in 0..MaxAttempts
      BY Places DEF OrderTyped, Reach
    <2>3. d.attempt \in 0..MaxAttempts
      BY DEF Descs
    <2>4. Reach(d.step) \in 0..MaxAttempts /\ Reach(d.step)' \in 0..MaxAttempts
      BY <1>2, <2>2
    <2>5. d.step # 0 => Recorded(d.step).state # "waiting" /\ d.attempt <= Reach(d.step)
      BY DEF DescTrue
    <2>6. d.step # 0 => Recorded(d.step)'.state # "waiting" /\ d.attempt <= Reach(d.step)'
      BY <2>1, <2>3, <2>4, <2>5, Places
    <2>7. d.status \in Terminal => d.status = status'
      BY DEF DescTrue, Grows, Terminal
    <2> QED
      BY <2>6, <2>7 DEF DescTrue
  <1> QED
    BY <1>1, <1>2 DEF Descs

LEMMA OrderSame ==
    ASSUME UNCHANGED order
    PROVE  /\ OrderTyped' = OrderTyped /\ OrderShape' = OrderShape
           /\ \A s \in Activities : Recorded(s)' = Recorded(s) /\ Reach(s)' = Reach(s)
           /\ GateReached' = GateReached
           /\ status' = status
  BY DEF order, OrderTyped, OrderShape, Recorded, Reach, GateReached

LEMMA ViewSame ==
    ASSUME NEW v \in Views, ViewTrue(v), UNCHANGED order
    PROVE  ViewTrue(v)'
  BY OrderSame DEF ViewTrue, StageTrue, StageWhole, OneLive

-----------------------------------------------------------------------------
(* VInv is inductive.                                                      *)

LEMMA OrderCase ==
    ASSUME VInv, OrderMoves
    PROVE  VInv'
  <1>1. OrderTyped' /\ OrderShape' /\ Grows /\ OrderTyped /\ OrderShape
    BY OrderGrows DEF VInv, OrderMoves, TypeOK, OrderTyped
  <1>2. UNCHANGED <<req, shown, visible, up>>
    BY DEF OrderMoves
  <1>3. TypeOK'
    BY <1>1, <1>2 DEF VInv, TypeOK, OrderTyped
  <1>4. shown \in Views /\ req.view \in Views
    BY DEF VInv, TypeOK
  <1>5. \A v \in Views : ViewTrue(v) => ViewTrue(v)'
    BY <1>1, ViewKept
  <1>6. ViewTrue(shown)' /\ (req.pc = "read" => ViewTrue(req.view)')
    BY <1>2, <1>4, <1>5 DEF VInv
  <1>7. req.pc = "described" => DescTrue(req.desc)'
    <2>1. \A d \in Descs : DescTrue(d) => DescTrue(d)'
      BY <1>1, DescKept
    <2> QED
      BY <1>2, <2>1 DEF VInv, TypeOK
  <1>8. req.pc = "described" => DescContinues'
    <2> SUFFICES ASSUME req.pc = "described", req.desc.status = "RUNNING",
                        NEW s \in Activities, Recorded(s)'.state = "scheduled"
                 PROVE  shown.stages[s].attempt
                            <= IF s = req.desc.step THEN req.desc.attempt ELSE 0
      BY <1>2 DEF DescContinues
    <2>1. CASE Recorded(s).state = "scheduled"
      BY <2>1 DEF VInv, DescContinues
    <2>2. CASE Recorded(s).state = "waiting"
      <3>1. StageTrue(shown.stages[s], s)
        BY DEF VInv, ViewTrue
      <3>2. shown.stages[s].attempt = 0
        BY <1>4, <2>2, <3>1 DEF StageTrue, Views, StageStates, SettledStates, LiveStates
      <3> QED
        BY <3>2, Places DEF VInv, TypeOK, Descs
    <2> QED
      BY <1>1, <2>1, <2>2 DEF Grows
  <1>9. req.pc = "read" => ViewContinues'
    BY <1>2 DEF VInv, ViewContinues
  <1> QED
    BY <1>1, <1>2, <1>3, <1>6, <1>7, <1>8, <1>9 DEF VInv, Settled

LEMMA DescribeCase ==
    ASSUME VInv, Describe
    PROVE  VInv'
  <1>1. UNCHANGED order /\ UNCHANGED <<shown, visible, up>> /\ OrderTyped /\ OrderShape
    BY DEF Describe, VInv, TypeOK, OrderTyped
  <1>2. PICK listed \in BOOLEAN :
           /\ act \in {"queued", "running"} /\ status = "RUNNING" => listed
           /\ req' = [req EXCEPT
                 !.pc = "described",
                 !.desc = IF listed /\ act \in {"queued", "running"}
                          THEN [status |-> status, step |-> at, attempt |-> attempt,
                                running |-> act = "running"]
                          ELSE [NoDesc EXCEPT !.status = status]]
    BY DEF Describe
  <1> DEFINE seen == IF listed /\ act \in {"queued", "running"}
                     THEN [status |-> status, step |-> at, attempt |-> attempt,
                           running |-> act = "running"]
                     ELSE [NoDesc EXCEPT !.status = status]
  <1>3. seen \in Descs
    <2>1. CASE listed /\ act \in {"queued", "running"}
      <3>1. at \in Activities
        BY <1>1, <2>1 DEF OrderShape, Busy
      <3> QED
        BY <1>1, <2>1, <3>1 DEF OrderTyped, Descs
    <2>2. CASE ~(listed /\ act \in {"queued", "running"})
      <3>1. seen = [status |-> status, step |-> 0, attempt |-> 0, running |-> FALSE]
        BY <2>2 DEF NoDesc
      <3>2. 0 \in 0..MaxAttempts /\ status \in Statuses
        BY <1>1, Places DEF OrderTyped
      <3> HIDE DEF seen
      <3> QED
        BY <3>1, <3>2 DEF Descs
    <2> QED
      BY <2>1, <2>2
  <1>4. /\ seen.status = status
        /\ \/ act \in {"queued", "running"} /\ seen.step = at /\ seen.attempt = attempt
           \/ (act \notin {"queued", "running"} \/ status # "RUNNING")
               /\ seen.step = 0 /\ seen.attempt = 0
    BY <1>2 DEF NoDesc
  <1>5. PICK d \in Descs :
           /\ req' = [req EXCEPT !.pc = "described", !.desc = d]
           /\ d.status = status
           /\ \/ act \in {"queued", "running"} /\ d.step = at /\ d.attempt = attempt
              \/ (act \notin {"queued", "running"} \/ status # "RUNNING")
                  /\ d.step = 0 /\ d.attempt = 0
    BY <1>2, <1>3, <1>4
  <1>6. /\ req'.pc = "described" /\ req'.view = req.view /\ req'.child = req.child
        /\ req'.desc = d
    BY <1>5 DEF VInv, TypeOK
  <1>7. TypeOK'
    BY <1>1, <1>5, <1>6 DEF VInv, TypeOK, order
  <1>8. ViewTrue(shown)'
    BY <1>1, ViewSame DEF VInv, TypeOK
  <1>9. ASSUME d.step # 0
        PROVE  at \in Activities /\ d.step = at /\ d.attempt = attempt
               /\ Recorded(at).state = "scheduled" /\ Reach(at) = attempt
    BY <1>1, <1>5, <1>9, Places DEF OrderTyped, OrderShape, Busy, Recorded, Reach
  <1>10. DescTrue(req.desc)'
    <2>1. d.step # 0 => Recorded(d.step)'.state # "waiting" /\ d.attempt <= Reach(d.step)'
      BY <1>1, <1>9, OrderSame DEF OrderTyped
    <2> QED
      BY <1>1, <1>5, <1>6, <2>1, OrderSame DEF DescTrue
  <1>11. DescContinues'
    <2> SUFFICES ASSUME status = "RUNNING", NEW s \in Activities, Recorded(s).state = "scheduled"
                 PROVE  shown.stages[s].attempt <= IF s = d.step THEN d.attempt ELSE 0
      BY <1>1, <1>5, <1>6, OrderSame DEF DescContinues
    <2>1. s = at /\ act \in {"queued", "running"} /\ Reach(s) = attempt
      BY <1>1, Places DEF Recorded, NoStage, OrderTyped, OrderShape, Reach
    <2>2. s = d.step /\ d.attempt = attempt
      BY <1>5, <2>1
    <2>3. StageTrue(shown.stages[s], s) /\ shown.stages[s].state \in StageStates
      BY DEF VInv, ViewTrue, TypeOK, Views
    <2> QED
      BY <1>1, <2>1, <2>2, <2>3
         DEF StageTrue, StageStates, SettledStates, LiveStates, OrderTyped
  <1>12. ~Settled
    BY DEF Describe, VInv, Free
  <1> QED
    BY <1>1, <1>6, <1>7, <1>8, <1>10, <1>11, <1>12, OrderSame DEF VInv, Settled

-----------------------------------------------------------------------------
(* What a request reads is true, whole and goes on from what is shown.     *)

LEMMA RecordedStage ==
    ASSUME OrderTyped, OrderShape, NEW s \in Activities
    PROVE  /\ Recorded(s) \in [state : {"waiting", "scheduled", "completed", "failed"},
                               attempt : 0..MaxAttempts]
           /\ Recorded(s).state \in SettledStates => Recorded(s).attempt = Reach(s)
           /\ Recorded(s).state = "waiting" => Recorded(s).attempt = 0
           /\ Recorded(s).state = "scheduled" =>
                 Recorded(s).attempt = 0 /\ \A t \in Activities \ {s} :
                     Recorded(t).state = IF t < s THEN "completed" ELSE "waiting"
           /\ Reach(s) \in 0..MaxAttempts
  BY Places DEF OrderTyped, OrderShape, Recorded, NoStage, Reach, SettledStates

LEMMA MergedStage ==
    ASSUME OrderTyped, OrderShape, NEW d \in Descs, DescTrue(d), NEW s \in Activities
    PROVE  /\ Merged(d, s) \in [state : StageStates, attempt : 0..MaxAttempts]
           /\ StageTrue(Merged(d, s), s)
           /\ Recorded(s).state # "scheduled" => Merged(d, s) = Recorded(s)
           /\ Recorded(s).state = "scheduled" =>
                 /\ Merged(d, s).state \in LiveStates
                 /\ Merged(d, s).attempt = IF s = d.step THEN d.attempt ELSE 0
  <1>1. d.attempt \in 0..MaxAttempts /\ (s = d.step => d.attempt <= Reach(s))
    BY Places DEF Descs, DescTrue
  <1>2. CASE Recorded(s).state # "scheduled" \/ s # d.step
    <2>1. Merged(d, s) = Recorded(s)
      BY <1>2 DEF Merged
    <2> QED
      BY <1>2, <2>1, RecordedStage, Places
         DEF StageTrue, StageStates, SettledStates, LiveStates
  <1>3. CASE Recorded(s).state = "scheduled" /\ s = d.step
    <2>1. Merged(d, s) = [state |-> IF d.running THEN "running"
                                    ELSE IF d.attempt > 1 THEN "retrying" ELSE "scheduled",
                          attempt |-> d.attempt]
      BY <1>3 DEF Merged
    <2> QED
      BY <1>1, <1>3, <2>1 DEF StageTrue, StageStates, SettledStates, LiveStates
  <1> QED
    BY <1>2, <1>3

LEMMA FetchCase ==
    ASSUME VInv, FetchHistory
    PROVE  VInv'
  <1>1. UNCHANGED order /\ UNCHANGED <<shown, visible, up>> /\ OrderTyped /\ OrderShape
    BY DEF FetchHistory, VInv, TypeOK, OrderTyped
  <1>2. PICK d \in Descs : d = req.desc /\ DescTrue(d)
    BY DEF FetchHistory, VInv, TypeOK
  <1> DEFINE stages == [s \in Activities |-> Merged(d, s)]
  <1>3. PICK v : v = [status |-> d.status, stages |-> stages, pending |-> "no", result |-> FALSE]
    OBVIOUS
  <1>4. /\ req' = [pc |-> "read", desc |-> NoDesc, view |-> v, child |-> child]
        /\ req.pc = "described"
    BY <1>2, <1>3 DEF FetchHistory, Free, NoView
  <1>5. \A s \in Activities :
          /\ v.stages[s] \in [state : StageStates, attempt : 0..MaxAttempts]
          /\ StageTrue(v.stages[s], s)
          /\ Recorded(s).state # "scheduled" => v.stages[s] = Recorded(s)
          /\ Recorded(s).state = "scheduled" =>
                /\ v.stages[s].state \in LiveStates
                /\ v.stages[s].attempt = IF s = d.step THEN d.attempt ELSE 0
    BY <1>1, <1>2, <1>3, MergedStage
  <1>6. v \in Views
    BY <1>2, <1>3, <1>5, MergedStage, <1>1 DEF Views, Descs
  <1>7. TypeOK'
    BY <1>1, <1>4, <1>6, Places DEF VInv, TypeOK, order, Descs, NoDesc
  <1>8. ViewTrue(v)
    <2>1. OneLive(v)
      <3> SUFFICES ASSUME NEW s \in Activities, v.stages[s].state \in LiveStates,
                          NEW t \in Activities \ {s}
                   PROVE  v.stages[t].state = IF t < s THEN "completed" ELSE "waiting"
        BY DEF OneLive
      <3>1. Recorded(s).state = "scheduled"
        BY <1>1, <1>5, RecordedStage DEF LiveStates
      <3> QED
        BY <1>1, <1>5, <3>1, RecordedStage
    <2>2. d.status \in Terminal => d.status = status
      BY <1>2 DEF DescTrue
    <2> QED
      BY <1>3, <1>5, <2>1, <2>2 DEF ViewTrue, StageWhole
  <1>9. ViewContinues'
    <2> SUFFICES ASSUME NEW s \in Activities
                 PROVE  /\ shown.stages[s].state \in SettledStates =>
                              v.stages[s] = shown.stages[s]
                        /\ v.status = "RUNNING" =>
                              v.stages[s].attempt >= shown.stages[s].attempt
      BY <1>1, <1>4 DEF ViewContinues
    <2>1. /\ StageTrue(shown.stages[s], s)
          /\ shown.stages[s] \in [state : StageStates, attempt : 0..MaxAttempts]
      BY DEF VInv, ViewTrue, TypeOK, Views
    <2>2. CASE Recorded(s).state = "scheduled"
      <3>1. shown.stages[s].state \notin SettledStates
        BY <2>1, <2>2 DEF StageTrue, SettledStates
      <3>2. d.status = "RUNNING" =>
                shown.stages[s].attempt <= IF s = d.step THEN d.attempt ELSE 0
        BY <1>2, <1>4, <2>2 DEF VInv, DescContinues
      <3>3. v.stages[s].attempt = IF s = d.step THEN d.attempt ELSE 0
        BY <1>5, <2>2
      <3> QED
        BY <1>3, <1>5, <2>1, <3>1, <3>2, <3>3, Places
    <2>3. CASE Recorded(s).state # "scheduled"
      BY <1>1, <1>5, <2>1, <2>3, RecordedStage, Places
         DEF StageTrue, StageStates, SettledStates, LiveStates
    <2> QED
      BY <2>2, <2>3
  <1>10. ViewTrue(shown)' /\ ViewTrue(v)'
    BY <1>1, <1>6, <1>8, ViewSame DEF VInv, TypeOK
  <1>11. ~Settled
    BY <1>4 DEF VInv, Free
  <1> QED
    BY <1>1, <1>3, <1>4, <1>7, <1>9, <1>10, <1>11, OrderSame DEF VInv, Settled

LEMMA FreeTyped ==
    Free \in [pc : {"free", "asked", "described", "read"}, desc : Descs,
             view : Views, child : BOOLEAN]
  BY Places DEF Free, NoDesc, NoView, NoStage, Descs, Views, StageStates

\* What the page takes over is the view that was read, with an answer to its gate
\* or a result.
LEMMA Replied ==
    ASSUME VInv, Reply
    PROVE  /\ req.pc = "read" /\ UNCHANGED order /\ req' = Free
           /\ shown' \in Views
           /\ shown'.stages = req.view.stages /\ shown'.status = req.view.status
           /\ shown'.pending = "yes" => req.view.status = "RUNNING" /\ act = "open"
           /\ shown'.result => req.view.status = "COMPLETED"
  <1>1. req.pc = "read" /\ UNCHANGED order /\ req' = Free /\ req.view \in Views
    BY DEF Reply, VInv, TypeOK
  <1>2. PICK p \in GateAnswers, r \in ResultAnswers :
             shown' = [req.view EXCEPT !.pending = p, !.result = r]
    BY DEF Reply, Answer
  <1>3. /\ p \in {"no", "yes", "unavailable"}
        /\ p = "yes" => req.view.status = "RUNNING" /\ act = "open"
    BY DEF GateAnswers, PendingAnswer
  <1>4. r \in BOOLEAN /\ (r => req.view.status = "COMPLETED")
    BY DEF ResultAnswers
  <1> QED
    BY <1>1, <1>2, <1>3, <1>4 DEF Views

LEMMA ReplyCase ==
    ASSUME VInv, Reply
    PROVE  VInv'
  <1>1. PICK v \in Views : v = shown'
    BY Replied
  <1>2. ViewTrue(req.view) /\ OrderTyped /\ OrderShape
    BY Replied DEF VInv, TypeOK, OrderTyped
  <1>3. ViewTrue(v)
    <2>1. GateReached <=> at > Gate \/ (at = Gate /\ act = "open")
      BY DEF GateReached
    <2>2. v.pending = "yes" => v.status = "RUNNING" /\ GateReached
      BY <1>1, <1>2, <2>1, Replied DEF OrderShape
    <2>3. v.result => status = "COMPLETED"
      BY <1>1, <1>2, Replied DEF ViewTrue, Terminal, Statuses
    <2> QED
      BY <1>1, <1>2, <2>2, <2>3, Replied DEF ViewTrue, StageWhole, OneLive
  <1>4. ViewTrue(v)'
    BY <1>3, Replied, ViewSame
  <1>5. TypeOK'
    BY FreeTyped, Replied DEF VInv, TypeOK, Reply, order
  <1>6. UNCHANGED order /\ req' = Free
    BY Replied
  <1>7. ViewTrue(shown)' /\ OrderShape'
    BY <1>1, <1>2, <1>4, <1>6, OrderSame
  <1> QED
    BY <1>5, <1>6, <1>7 DEF VInv, Free

LEMMA PageCase ==
    ASSUME VInv, Poll \/ Fail \/ HideOrShow \/ UpOrDown \/ UNCHANGED vars
    PROVE  VInv'
  <1>1. UNCHANGED order /\ UNCHANGED shown
    BY DEF Poll, Fail, HideOrShow, UpOrDown, vars
  <1>2. \/ UNCHANGED req
        \/ req' = Free
        \/ req = Free /\ req' = [Free EXCEPT !.pc = "asked"] /\ ~Settled
    BY DEF Poll, Fail, HideOrShow, UpOrDown, vars
  <1>3. \A v \in Views : ViewTrue(v) => ViewTrue(v)'
    BY <1>1, ViewSame
  <1>4. ViewTrue(shown)' /\ (ViewTrue(req.view) /\ UNCHANGED req => ViewTrue(req.view)')
    BY <1>1, <1>3 DEF VInv, TypeOK
  <1>5. TypeOK'
    <2>1. [Free EXCEPT !.pc = "asked"]
              \in [pc : {"free", "asked", "described", "read"}, desc : Descs,
                   view : Views, child : BOOLEAN]
      BY FreeTyped
    <2>2. visible' \in BOOLEAN /\ up' \in BOOLEAN
      BY DEF VInv, TypeOK, Poll, Fail, HideOrShow, UpOrDown, vars
    <2> QED
      BY <1>1, <1>2, <2>1, <2>2, FreeTyped DEF VInv, TypeOK, order
  <1>6. ASSUME req' = Free \/ (req' = [Free EXCEPT !.pc = "asked"] /\ ~Settled)
        PROVE  VInv'
    BY <1>1, <1>4, <1>5, <1>6, OrderSame DEF VInv, Settled, Free
  <1>7. ASSUME UNCHANGED req
        PROVE  VInv'
    <2>1. \A d \in Descs : DescTrue(d) => DescTrue(d)'
      BY <1>1, OrderSame DEF DescTrue, Descs
    <2>2. DescTrue(req.desc) => DescTrue(req.desc)'
      BY <1>7, <2>1 DEF VInv, TypeOK
    <2>3. /\ DescContinues => DescContinues'
          /\ ViewContinues => ViewContinues'
      BY <1>1, <1>7, OrderSame DEF DescContinues, ViewContinues
    <2> QED
      BY <1>1, <1>4, <1>5, <1>7, <2>2, <2>3, OrderSame DEF VInv, Settled
  <1> QED
    BY <1>2, <1>6, <1>7

LEMMA InitVInv == Init => VInv
  <1> SUFFICES ASSUME Init  PROVE VInv
    OBVIOUS
  <1>1. TypeOK
    <2>1. 1 \in 1..Last /\ 0 \in 0..MaxAttempts
      BY Places DEF Last
    <2>2. NoView \in Views
      BY <2>1 DEF NoView, NoStage, Views, StageStates
    <2> QED
      BY <2>1, <2>2, FreeTyped DEF Init, TypeOK, Statuses
  <1>2. OrderShape
    BY Places DEF Init, OrderShape, Busy
  <1>3. ViewTrue(shown)
    BY DEF Init, ViewTrue, StageTrue, StageWhole, OneLive, NoView, NoStage, SettledStates,
           LiveStates, Terminal, Statuses
  <1>4. ~Settled /\ req.pc = "free"
    BY DEF Init, Settled, NoView, Terminal, Statuses, Free
  <1> QED
    BY <1>1, <1>2, <1>3, <1>4 DEF VInv

THEOREM ViewInvariant == Spec => []VInv
  <1>1. VInv /\ [Next]_vars => VInv'
    BY OrderCase, DescribeCase, FetchCase, ReplyCase, PageCase DEF Next, Serve
  <1> QED
    BY InitVInv, <1>1, PTL DEF Spec

-----------------------------------------------------------------------------
(* What follows from it.                                                   *)

\* The state of the page and of the order keep their types.
THEOREM ViewTyped == Spec => []TypeOK
  <1>1. VInv => TypeOK
    BY DEF VInv
  <1> QED
    BY ViewInvariant, <1>1, PTL

\* execution.py:3: whatever the page shows of an order has happened.
THEOREM NothingInvented == Spec => []NoInventedProgress
  <1>1. ASSUME VInv  PROVE NoInventedProgress
    <2>1. OrderTyped /\ OrderShape /\ shown \in Views /\ ViewTrue(shown)
      BY <1>1 DEF VInv, TypeOK, OrderTyped
    <2>2. ASSUME NEW s \in Activities
          PROVE  LET seen == shown.stages[s] IN
                 /\ seen.state \in {"completed", "failed"} => seen = Recorded(s)
                 /\ seen.state \in {"scheduled", "running", "retrying"} =>
                       /\ Recorded(s).state \in {"scheduled", "completed", "failed"}
                       /\ seen.attempt <= IF taken[s] > 0 THEN taken[s] ELSE attempt
      <3>1. StageTrue(shown.stages[s], s) /\ shown.stages[s].attempt \in 0..MaxAttempts
        BY <2>1 DEF ViewTrue, Views
      <3>2. Reach(s) <= (IF taken[s] > 0 THEN taken[s] ELSE attempt) /\ Reach(s) \in Nat
        BY <2>1, Places DEF Reach, OrderTyped
      <3>3. (IF taken[s] > 0 THEN taken[s] ELSE attempt) \in Nat
        BY <2>1, Places DEF OrderTyped
      <3> QED
        BY <2>1, <3>1, <3>2, <3>3, RecordedStage, Places DEF StageTrue, SettledStates, LiveStates
    <2>3. RunState = "Needs approval" => shown.pending = "yes"
      BY DEF RunState
    <2>4. RunState \in {"Completed", "Failed"} => shown.status \in Terminal
      BY DEF RunState, Terminal, Statuses
    <2> QED
      BY <2>1, <2>2, <2>3, <2>4 DEF NoInventedProgress, ViewTrue, GateReached
  <1> QED
    BY ViewInvariant, <1>1, PTL

\* An order the page no longer asks about is shown as history left it.
THEOREM SettledIsWhole == Spec => []SettledViewIsWhole
  <1>1. ASSUME VInv  PROVE SettledViewIsWhole
    <2>1. RunState = "Needs approval" => shown.pending = "yes"
      BY DEF RunState
    <2> QED
      BY <1>1, <2>1 DEF VInv, ViewTrue, StageWhole, SettledViewIsWhole, Settled, Terminal
  <1> QED
    BY ViewInvariant, <1>1, PTL

\* One step of an order at a time is live on the map.
THEOREM OneStepIsLive == Spec => []OneStepLive
  <1>1. VInv => OneStepLive
    BY DEF VInv, ViewTrue, OneLive, OneStepLive, LiveStages, LiveStates
  <1> QED
    BY ViewInvariant, <1>1, PTL

\* From one answer to the next the page never goes back.
THEOREM NeverGoesBack == Spec => ShownNeverRegresses
  <1> DEFINE Forth ==
        /\ \A s \in Activities :
              /\ shown.stages[s].state \in {"completed", "failed"} =>
                     shown'.stages[s] = shown.stages[s]
              /\ shown'.status = "RUNNING" =>
                     shown'.stages[s].attempt >= shown.stages[s].attempt
        /\ Settled => shown' = shown
  <1>1. ASSUME VInv, Next, shown' # shown  PROVE Forth
    <2>1. Reply
      BY <1>1 DEF Next, OrderMoves, Poll, Serve, Describe, FetchHistory, Fail, HideOrShow, UpOrDown
    <2>2. /\ req.pc = "read" /\ shown'.stages = req.view.stages
          /\ shown'.status = req.view.status
      BY <1>1, <2>1, Replied
    <2>3. ViewContinues /\ ~Settled
      BY <1>1, <2>2 DEF VInv, Free
    <2> QED
      BY <2>2, <2>3 DEF ViewContinues, SettledStates
  <1>2. VInv /\ [Next]_vars => [Forth]_shown
    BY <1>1 DEF vars
  <1> QED
    BY ViewInvariant, <1>2, PTL DEF Spec, ShownNeverRegresses
=============================================================================
