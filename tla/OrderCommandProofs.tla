------------------------- MODULE OrderCommandProofs -------------------------
(***************************************************************************)
(* What people at a gate may count on for every setting of the three       *)
(* clocks, also for an override nothing has validated; and what the        *)
(* operator at the command line hears of it.  The order command is a       *)
(* bystander: the order behaves as it does alone, so what holds of the     *)
(* clocks holds beside the command too; and the command overlooks an open  *)
(* gate only for the reasons named by OperatorIsTold, however many looks it *)
(* has and whatever the timeouts.  Last, the settings that the command and *)
(* the worker load, each for itself, for any table of overrides.           *)
(***************************************************************************)
EXTENDS OrderCommand, Settings, WellFoundedInduction, TLAPS

-----------------------------------------------------------------------------
(* The three clocks (GateDeadlines). *)

\* An open gate is accounted for tick by tick: the time since it was asked for is
\* covered by the approval window and the ticks in which a worker was missing.
GateTimeAccounted ==
    /\ phase = "opening" => now = gateAt + lag
    /\ phase = "waiting" =>
          /\ gateAt <= waitingAt
          /\ waitingAt <= gateAt + lag
          /\ now <= gateAt + approval + lag

\* Nothing is waited for before the pipeline ends; only a child is still to be run
\* when the gate is asked for: inline, the timer starts with the gate.
GateStart ==
    /\ phase = "pipeline" => lag = 0
    /\ phase = "opening" => mode = "child"
    /\ phase = "waiting" /\ mode = "inline" => waitingAt = gateAt

DInv ==
    /\ TypeOK
    /\ GateTimeAccounted /\ GateStart
    /\ KilledOnlyIfItDoesNotFit /\ ChildWaitsItsWindow /\ PolicyWaitsTheWindow

LEMMA InitDInv == Init => DInv
  BY DeadlineAssumption
     DEF Init, DInv, TypeOK, GateTimeAccounted, GateStart, KilledOnlyIfItDoesNotFit,
         ChildWaitsItsWindow, PolicyWaitsTheWindow

LEMMA NextDInv == DInv /\ [Next]_vars => DInv'
  <1> SUFFICES ASSUME DInv, [Next]_vars PROVE DInv'
    OBVIOUS
  <1> USE DeadlineAssumption
      DEF DInv, TypeOK, GateTimeAccounted, GateStart, KilledOnlyIfItDoesNotFit,
          ChildWaitsItsWindow, PolicyWaitsTheWindow, input
  <1>1. CASE Tick
    <2>1. CASE TaskDue
      BY <1>1, <2>1 DEF Tick, TaskDue, TimerDue, Live, AtGate
    <2>2. CASE ~TaskDue
      BY <1>1, <2>2 DEF Tick, TaskDue, TimerDue, Live, AtGate
    <2> QED
      BY <2>1, <2>2
  <1>2. CASE PipelineEnds
    BY <1>2 DEF PipelineEnds
  <1>3. CASE ChildRuns
    BY <1>3 DEF ChildRuns
  <1>4. CASE HumanDecides
    BY <1>4 DEF HumanDecides
  <1>5. CASE TimerFires
    BY <1>5 DEF TimerFires, TimerDue
  <1>6. CASE OrderTimesOut
    <2>1. CASE AtGate
      <3>1. phase' = "killed_at_gate" /\ now >= execution
        BY <1>6, <2>1 DEF OrderTimesOut, OrderExpires
      <3>2. now <= gateAt + approval + lag
        BY <2>1 DEF AtGate
      <3> QED
        BY <1>6, <3>1, <3>2 DEF OrderTimesOut
    <2>2. CASE ~AtGate
      BY <1>6, <2>2 DEF OrderTimesOut
    <2> QED
      BY <2>1, <2>2
  <1>7. CASE ChildTimesOut
    BY <1>7 DEF ChildTimesOut, ChildExpires, AtGate
  <1>8. CASE UNCHANGED vars
    BY <1>8 DEF vars
  <1> QED
    BY <1>1, <1>2, <1>3, <1>4, <1>5, <1>6, <1>7, <1>8 DEF Next

LEMMA AlwaysDInv == Spec => []DInv
  BY InitDInv, NextDInv, PTL DEF Spec

\* The clocks and phases keep their types.
THEOREM DeadlinesTyped == Spec => []TypeOK
  <1>1. DInv => TypeOK
    BY DEF DInv
  <1> QED
    BY <1>1, AlwaysDInv, PTL

\* An order is killed over its open gate only if pipeline, window and lag together
\* exceed the execution timeout (order_workflow.py:134, server.py:148).
THEOREM KillsAreMisfits == Spec => []KilledOnlyIfItDoesNotFit
  <1>1. DInv => KilledOnlyIfItDoesNotFit
    BY DEF DInv
  <1> QED
    BY <1>1, AlwaysDInv, PTL

\* The 300 seconds added to the child's execution timeout (order_workflow.py:115) are
\* what workers may be missing before the child's deadline takes the window away.
THEOREM SlackProtectsWindow == Spec => []ChildWaitsItsWindow
  <1>1. DInv => ChildWaitsItsWindow
    BY DEF DInv
  <1> QED
    BY <1>1, AlwaysDInv, PTL

\* on_timeout never decides before the approval window has passed.
THEOREM PolicyIsPatient == Spec => []PolicyWaitsTheWindow
  <1>1. DInv => PolicyWaitsTheWindow
    BY DEF DInv
  <1> QED
    BY <1>1, AlwaysDInv, PTL

-----------------------------------------------------------------------------
(* The command beside them (OrderCommand). *)

LEMMA OrderStepOrStutter == [CommandNext]_allVars => [Next]_vars
  BY DEF CommandNext, Execute, allVars, OrderStep, ServerStarts, StartReturns, StartFails,
         QueryReturns, QueryFails, DescribeReturns, DescribeFails, WakesUp, ResultReturns,
         ResultFails

\* Nothing the command does, or fails to do, changes how the order runs: the order of
\* a command is an order (order.py only starts, queries, describes and waits).
THEOREM CommandIsBystander == CommandSpec => Spec
  <1>1. CommandInit => Init
    BY DEF CommandInit
  <1> QED
    BY <1>1, OrderStepOrStutter, PTL DEF CommandSpec, Spec

\* The two deadlines of the gate are as far away beside the command as without it.
THEOREM DeadlinesHoldForCommand ==
    CommandSpec => [](KilledOnlyIfItDoesNotFit /\ ChildWaitsItsWindow)
  BY CommandIsBystander, KillsAreMisfits, SlackProtectsWindow, PTL

-----------------------------------------------------------------------------

\* Every round of the loop that is over took a tick, while the order still goes on.
LooksTakeTime ==
    Live => /\ now >= rounds
            /\ cmd = "sleeping" => wakeAt >= rounds + 1

\* A gate that is open and was not seen opened after the last look at it: the look of
\* this round when that is over, the one of the round before when it is still to come.
GateCameLater ==
    Pending /\ ~told /\ ~blind =>
        /\ cmd \in {"describing", "sleeping"} => waitingAt >= rounds
        /\ cmd = "querying" => waitingAt >= rounds - 1

\* The command stops looking when it has told the operator, the looks are used up or
\* the order has ended; then the last look was the one that counts.
WhyItWaits ==
    /\ cmd = "starting" => rounds = 0
    /\ cmd = "awaiting" /\ ~told /\ Live => rounds = Looks

LookInv ==
    /\ rounds \in Nat /\ wakeAt \in Nat
    /\ LooksTakeTime /\ GateCameLater /\ WhyItWaits /\ OperatorIsTold

LEMMA InitLookInv == CommandInit => LookInv
  BY LooksAssumption
     DEF CommandInit, Init, LookInv, LooksTakeTime, GateCameLater, WhyItWaits, OperatorIsTold,
         Pending

LEMMA OrderStepLookInv == DInv /\ LookInv /\ OrderStep => LookInv'
  <1> SUFFICES ASSUME DInv, LookInv, OrderStep PROVE LookInv'
    OBVIOUS
  <1> USE LooksAssumption
      DEF LookInv, LooksTakeTime, GateCameLater, WhyItWaits, OperatorIsTold, Pending, Live,
          AtGate, commandVars, input, DInv, TypeOK, GateStart
  <1>1. CASE Tick
    BY <1>1 DEF OrderStep, Tick
  <1>2. CASE PipelineEnds
    BY <1>2 DEF OrderStep, PipelineEnds
  <1>3. CASE ChildRuns
    BY <1>3 DEF OrderStep, ChildRuns
  <1>4. CASE HumanDecides \/ TimerFires
    BY <1>4 DEF OrderStep, HumanDecides, TimerFires
  <1>5. CASE OrderTimesOut \/ ChildTimesOut
    BY <1>5 DEF OrderStep, OrderTimesOut, ChildTimesOut
  <1> QED
    BY <1>1, <1>2, <1>3, <1>4, <1>5 DEF OrderStep, Next

LEMMA CommandStepLookInv ==
    ASSUME DInv, LookInv, CommandNext, ~OrderStep PROVE LookInv'
  <1> USE LooksAssumption
      DEF LookInv, LooksTakeTime, GateCameLater, WhyItWaits, OperatorIsTold, Pending, Live,
          AtGate, vars, DInv, TypeOK
  <1>1. CASE ServerStarts \/ StartReturns
    BY <1>1 DEF ServerStarts, StartReturns
  <1>2. CASE QueryReturns
    BY <1>2 DEF QueryReturns
  <1>3. CASE QueryFails
    BY <1>3 DEF QueryFails
  <1>4. CASE DescribeReturns
    BY <1>4 DEF DescribeReturns, MayRun, MayEnded
  <1>5. CASE WakesUp
    <2>1. rounds' = rounds + 1 /\ (Live => now >= rounds')
      BY <1>5 DEF WakesUp
    <2>2. CASE rounds + 1 = Looks
      BY <1>5, <2>1, <2>2 DEF WakesUp
    <2>3. CASE rounds + 1 # Looks
      BY <1>5, <2>1, <2>3 DEF WakesUp
    <2> QED
      BY <2>2, <2>3
  <1>6. CASE ResultReturns
    BY <1>6 DEF ResultReturns
  <1>7. CASE StartFails \/ DescribeFails \/ ResultFails
    BY <1>7 DEF StartFails, DescribeFails, ResultFails
  <1> QED
    BY <1>1, <1>2, <1>3, <1>4, <1>5, <1>6, <1>7 DEF CommandNext, Execute

LEMMA NextLookInv == DInv /\ LookInv /\ [CommandNext]_allVars => LookInv'
  <1>1. ASSUME LookInv, UNCHANGED allVars PROVE LookInv'
    BY <1>1 DEF allVars, vars, commandVars, LookInv, LooksTakeTime, GateCameLater, WhyItWaits,
                OperatorIsTold, Pending, Live, AtGate
  <1> QED
    BY <1>1, OrderStepLookInv, CommandStepLookInv

\* A command that waits beside an open inline gate has told the operator, unless the
\* gate opened when the looks were used up or a query failed over it (order.py:72).
THEOREM OperatorHears == CommandSpec => []OperatorIsTold
  <1>1. LookInv => OperatorIsTold
    BY DEF LookInv
  <1> QED
    BY <1>1, InitLookInv, NextLookInv, CommandIsBystander, AlwaysDInv, PTL DEF CommandSpec

-----------------------------------------------------------------------------
(* The settings of the processes (Settings).                               *)

\* The rows are applied by a loop; what it computes is found by induction over its
\* rounds, stated for a set of numbers.
LEMMA Induction ==
    ASSUME NEW S, 0 \in S, \A n \in Nat : n \in S => n + 1 \in S
    PROVE  Nat \subseteq S
  <1> SUFFICES ASSUME Nat \ S # {} PROVE FALSE
    OBVIOUS
  <1>1. IsWellFoundedOn(OpToRel(<, Nat), Nat)
    BY NatLessThanWellFounded
  <1>2. \E n \in Nat \ S : \A m \in Nat \ S : ~(<<m, n>> \in OpToRel(<, Nat))
    BY <1>1, WFMin
  <1>3. PICK n \in Nat \ S : \A m \in Nat \ S : ~(m < n)
    BY <1>2 DEF OpToRel
  <1> QED
    BY <1>3

\* after[i] is the tree when i rows have been applied.
IsLoop(after, tree, environ, n) ==
    after = [i \in 0..n |->
                IF i = 0 THEN tree ELSE Override(after[i - 1], environ, EnvOverrides[i])]

LEMMA LoopEnds ==
    ASSUME NEW tree, NEW environ, NEW n \in Nat PROVE \E after : IsLoop(after, tree, environ, n)
  <1> DEFINE S == {k \in Nat : \E f : IsLoop(f, tree, environ, k)}
  <1>1. 0 \in S
    <2> DEFINE g == [i \in 0..0 |-> tree]
    <2>1. g = [i \in 0..0 |-> IF i = 0 THEN tree ELSE Override(g[i - 1], environ, EnvOverrides[i])]
      OBVIOUS
    <2> QED
      BY <2>1 DEF IsLoop
  <1>2. ASSUME NEW k \in Nat, k \in S PROVE k + 1 \in S
    <2>1. PICK f : IsLoop(f, tree, environ, k)
      BY <1>2
    <2> DEFINE g == [i \in 0..(k + 1) |->
                        IF i = k + 1 THEN Override(f[k], environ, EnvOverrides[i]) ELSE f[i]]
    <2>2. \A i \in 0..k : f[i] = IF i = 0 THEN tree ELSE Override(f[i - 1], environ, EnvOverrides[i])
      BY <2>1 DEF IsLoop
    <2>3. \A i \in 0..(k + 1) :
             g[i] = IF i = 0 THEN tree ELSE Override(g[i - 1], environ, EnvOverrides[i])
      BY <2>2
    <2>4. g = [i \in 0..(k + 1) |-> IF i = 0 THEN tree ELSE Override(g[i - 1], environ, EnvOverrides[i])]
      BY <2>3
    <2>5. IsLoop(g, tree, environ, k + 1)
      BY <2>4 DEF IsLoop
    <2> HIDE DEF g
    <2> QED
      BY <2>5
  <1> HIDE DEF S
  <1>3. n \in S
    BY <1>1, <1>2, Induction
  <1> QED
    BY <1>3 DEF S

LEMMA TableIsLoop ==
    ASSUME NEW tree, NEW environ, Len(EnvOverrides) \in Nat
    PROVE  \E after : /\ IsLoop(after, tree, environ, Len(EnvOverrides))
                      /\ ApplyEnvOverrides(tree, environ) = after[Len(EnvOverrides)]
  <1> DEFINE after == CHOOSE f : IsLoop(f, tree, environ, Len(EnvOverrides))
  <1>1. IsLoop(after, tree, environ, Len(EnvOverrides))
    <2>1. \E f : IsLoop(f, tree, environ, Len(EnvOverrides))
      BY LoopEnds
    <2> QED
      BY <2>1, Zenon
  <1>2. ApplyEnvOverrides(tree, environ) = after[Len(EnvOverrides)]
    BY Zenon DEF ApplyEnvOverrides, IsLoop
  <1> QED
    BY <1>1, <1>2

\* What n rows have made of a tree: the last row of a field that gives anything has it,
\* and a field that no row gives anything is as it was.
Applied(t, tree, environ, n) ==
    /\ t = [f \in Fields |-> t[f]]
    /\ \A f \in Fields :
          \/ (\A i \in 1..n : i \notin Rows(f, environ)) /\ t[f] = tree[f]
          \/ \E r \in 1..n :
                /\ r \in Rows(f, environ)
                /\ \A i \in 1..n : i \in Rows(f, environ) => i <= r
                /\ t[f] = Coerce(environ[EnvOverrides[r].var])

LEMMA RowsAreRows ==
    /\ Len(EnvOverrides) \in Nat /\ DOMAIN EnvOverrides = 1..Len(EnvOverrides)
    /\ \A f, environ : Rows(f, environ) \subseteq 1..Len(EnvOverrides)
  <1>1. Len(EnvOverrides) \in Nat /\ DOMAIN EnvOverrides = 1..Len(EnvOverrides)
    BY SettingsAssumption
  <1> QED
    BY <1>1 DEF Rows

LEMMA RowApplies ==
    ASSUME NEW tree, NEW environ, NEW t, NEW n \in Nat, n < Len(EnvOverrides),
           Applied(t, tree, environ, n)
    PROVE  Applied(Override(t, environ, EnvOverrides[n + 1]), tree, environ, n + 1)
  <1> DEFINE o == EnvOverrides[n + 1]
             c == Coerce(environ[o.var])
  <1> SUFFICES ASSUME NEW u, u = Override(t, environ, o)
               PROVE  Applied(u, tree, environ, n + 1)
    OBVIOUS
  <1>1. /\ Len(EnvOverrides) \in Nat /\ DOMAIN EnvOverrides = 1..Len(EnvOverrides)
        /\ n + 1 \in DOMAIN EnvOverrides
    BY RowsAreRows
  <1>2. o.field \in Fields
    <2>1. \A R : EnvOverrides \in Seq(R) => o \in R
      BY <1>1
    <2>2. o \in [var : STRING, field : Fields]
      BY <2>1, SettingsAssumption
    <2> QED
      BY <2>2
  <1>3. t = [f \in Fields |-> t[f]]
    BY DEF Applied
  <1>4. \A f : n + 1 \in Rows(f, environ)
                  <=> f = o.field /\ environ[o.var] \notin {Absent, ""}
    BY <1>1 DEF Rows
  <1>5. \A i : i \in 1..(n + 1) <=> i \in 1..n \/ i = n + 1
    OBVIOUS
  <1>6. CASE environ[o.var] \in {Absent, ""}
    <2>1. u = t
      BY <1>6 DEF Override
    <2>2. \A f : n + 1 \notin Rows(f, environ)
      BY <1>4, <1>6
    <2> QED
      BY <1>5, <2>1, <2>2 DEF Applied
  <1>7. CASE environ[o.var] \notin {Absent, ""}
    <2>1. u = [t EXCEPT ![o.field] = c]
      BY <1>7 DEF Override
    <2>2. /\ u = [f \in Fields |-> u[f]]
          /\ u[o.field] = c
          /\ \A f \in Fields : f # o.field => u[f] = t[f]
      BY <1>2, <1>3, <2>1
    <2>3. ASSUME NEW f \in Fields
          PROVE  \/ (\A i \in 1..(n + 1) : i \notin Rows(f, environ)) /\ u[f] = tree[f]
                 \/ \E r \in 1..(n + 1) :
                       /\ r \in Rows(f, environ)
                       /\ \A i \in 1..(n + 1) : i \in Rows(f, environ) => i <= r
                       /\ u[f] = Coerce(environ[EnvOverrides[r].var])
      <3>1. CASE f = o.field
        <4>1. n + 1 \in Rows(f, environ) /\ u[f] = Coerce(environ[EnvOverrides[n + 1].var])
          BY <1>4, <1>7, <2>2, <3>1
        <4>2. n + 1 \in 1..(n + 1) /\ \A i \in 1..(n + 1) : i <= n + 1
          OBVIOUS
        <4> QED
          BY <4>1, <4>2
      <3>2. CASE f # o.field
        <4>1. n + 1 \notin Rows(f, environ) /\ u[f] = t[f]
          BY <1>4, <2>2, <3>2
        <4> QED
          BY <1>5, <4>1 DEF Applied
      <3> QED
        BY <3>1, <3>2
    <2> QED
      BY <2>2, <2>3 DEF Applied
  <1> QED
    BY <1>6, <1>7

\* _apply_env_overrides, for every table.
LEMMA TableApplies ==
    ASSUME NEW tree, NEW environ, tree = [f \in Fields |-> tree[f]]
    PROVE  Applied(ApplyEnvOverrides(tree, environ), tree, environ, Len(EnvOverrides))
  <1>1. Len(EnvOverrides) \in Nat
    BY RowsAreRows
  <1>2. PICK after : /\ IsLoop(after, tree, environ, Len(EnvOverrides))
                     /\ ApplyEnvOverrides(tree, environ) = after[Len(EnvOverrides)]
    BY <1>1, TableIsLoop
  <1> DEFINE S == {k \in Nat : k <= Len(EnvOverrides) => Applied(after[k], tree, environ, k)}
  <1>3. 0 \in S
    <2>1. after[0] = tree
      BY <1>1, <1>2 DEF IsLoop
    <2> QED
      BY <2>1 DEF Applied
  <1>4. ASSUME NEW k \in Nat, k \in S PROVE k + 1 \in S
    <2>1. SUFFICES ASSUME k + 1 <= Len(EnvOverrides) PROVE Applied(after[k + 1], tree, environ, k + 1)
      OBVIOUS
    <2>2. k < Len(EnvOverrides) /\ Applied(after[k], tree, environ, k)
      BY <1>1, <1>4, <2>1
    <2>3. after[k + 1] = Override(after[k], environ, EnvOverrides[k + 1])
      <3>1. k + 1 \in 0..Len(EnvOverrides) /\ k + 1 # 0 /\ (k + 1) - 1 = k
        BY <1>1, <2>1
      <3>2. \A i \in 0..Len(EnvOverrides) :
               after[i] = IF i = 0 THEN tree ELSE Override(after[i - 1], environ, EnvOverrides[i])
        BY <1>2, Zenon DEF IsLoop
      <3> QED
        BY <3>1, <3>2
    <2> QED
      BY <2>2, <2>3, RowApplies
  <1> HIDE DEF S
  <1>5. Len(EnvOverrides) \in S
    BY <1>1, <1>3, <1>4, Induction
  <1> QED
    BY <1>1, <1>2, <1>5 DEF S

LEMMA CoercedTwice == \A x : Coerce(Coerce(x)) = Coerce(x)
  BY DEF Coerce, True, False, TrueWords, FalseWords

\* Of the rows that give a field a value, one is the last.
LEMMA LastRow ==
    ASSUME NEW environ, NEW f \in Fields,
           Rows(f, environ) # {}
    PROVE  \E r \in Rows(f, environ) : \A i \in Rows(f, environ) : i <= r
  <1> DEFINE tree == [g \in Fields |-> Absent]
             t == ApplyEnvOverrides(tree, environ)
  <1>1. Applied(t, tree, environ, Len(EnvOverrides))
    <2>1. tree = [g \in Fields |-> tree[g]]
      OBVIOUS
    <2> HIDE DEF tree
    <2> QED
      BY <2>1, TableApplies
  <1>2. Rows(f, environ) \subseteq 1..Len(EnvOverrides)
    BY RowsAreRows
  <1> HIDE DEF t, tree
  <1> QED
    BY <1>1, <1>2 DEF Applied

\* Two last rows are one.
LEMMA LastRowIsTop ==
    ASSUME NEW environ, NEW f, NEW r \in Rows(f, environ),
           \A i \in Rows(f, environ) : i <= r
    PROVE  (CHOOSE i \in Rows(f, environ) : \A j \in Rows(f, environ) : j <= i) = r
  <1> DEFINE R == Rows(f, environ)
             top == CHOOSE i \in R : \A j \in R : j <= i
  <1>1. R \subseteq Int
    BY RowsAreRows
  <1> HIDE DEF R
  <1>2. r \in R /\ \A i \in R : i <= r
    BY DEF R
  <1>3. top \in R /\ \A j \in R : j <= top
    BY <1>2, Zenon
  <1>4. top = r
    <2> HIDE DEF top
    <2> QED
      BY <1>1, <1>2, <1>3
  <1> QED
    BY <1>4 DEF R

\* load_settings: every field of what it returns is what the documented precedence says.
LEMMA SettingsAsDocumented ==
    ASSUME NEW environ, NEW there, LoadSettings(environ, there) # Absent,
           NEW f \in Fields
    PROVE  LoadSettings(environ, there)[f]
              = Parsed(f, Documented(f, environ, DefaultConfig(environ, there)))
  <1> DEFINE yaml == DefaultConfig(environ, there)
             tree == [g \in Fields |-> Interpolate(yaml[g], environ)]
             rows == Rows(f, environ)
  <1> SUFFICES ASSUME NEW t, t = ApplyEnvOverrides(tree, environ),
                      ModelValidate(t) # Absent
               PROVE  ModelValidate(t)[f] = Parsed(f, Documented(f, environ, yaml))
    BY DEF LoadSettings
  <1>1. Applied(t, tree, environ, Len(EnvOverrides)) /\ tree[f] = Interpolate(yaml[f], environ)
    <2>1. tree = [g \in Fields |-> tree[g]] /\ tree[f] = Interpolate(yaml[f], environ)
      OBVIOUS
    <2> HIDE DEF tree
    <2> QED
      BY <2>1, TableApplies
  <1> HIDE DEF yaml
  <1>2. ModelValidate(t)[f] = IF t[f] # Absent THEN Parsed(f, t[f]) ELSE Defaults[f]
    BY DEF ModelValidate
  <1>3. rows \subseteq 1..Len(EnvOverrides)
    BY RowsAreRows
  <1> HIDE DEF tree
  <1>4. CASE rows # {}
    <2>1. PICK r \in rows : /\ \A i \in rows : i <= r
                            /\ t[f] = Coerce(environ[EnvOverrides[r].var])
      BY <1>1, <1>3, <1>4 DEF Applied
    <2>2. Documented(f, environ, yaml) = Coerce(environ[EnvOverrides[r].var])
      <3>1. (CHOOSE i \in rows : \A j \in rows : j <= i) = r
        BY <2>1, LastRowIsTop
      <3> QED
        BY <1>4, <3>1 DEF Documented
    <2>3. t[f] # Absent
      <3>1. environ[EnvOverrides[r].var] # Absent
        BY DEF Rows
      <3> QED
        BY <2>1, <3>1, SettingsAssumption DEF Coerce
    <2> QED
      BY <1>2, <2>1, <2>2, <2>3
  <1>5. CASE rows = {}
    <2>1. t[f] = Interpolate(yaml[f], environ)
      BY <1>1, <1>3, <1>5 DEF Applied
    <2>2. Documented(f, environ, yaml) =
             IF t[f] # Absent THEN Parsed(f, t[f]) ELSE Defaults[f]
      BY <1>5, <2>1 DEF Documented
    <2>3. /\ Parsed(f, Parsed(f, t[f])) = Parsed(f, t[f])
          /\ Parsed(f, Defaults[f]) = Defaults[f]
      BY CoercedTwice, SettingsAssumption DEF Parsed
    <2> QED
      BY <1>2, <2>2, <2>3
  <1> QED
    BY <1>4, <1>5

\* _default_config_path finds a file that is there, or none.
LEMMA FileIsFound ==
    ASSUME NEW environ, NEW there
    PROVE  \/ DefaultConfig(environ, there) = NoFile
           \/ \E path \in DOMAIN there : DefaultConfig(environ, there) = there[path]
  <1> DEFINE paths == <<environ["APP_CONFIG_FILE"], "config/config.yaml", "config/config.example.yaml">>
             found == {i \in DOMAIN paths : paths[i] \in DOMAIN there}
             first == CHOOSE i \in found : \A j \in found : i <= j
  <1>1. CASE found = {}
    BY <1>1 DEF DefaultConfig, FirstFile
  <1>2. CASE found # {}
    <2>1. first \in found
      <3>1. found \subseteq {1, 2, 3}
        OBVIOUS
      <3> HIDE DEF found
      <3>2. \E i \in found : \A j \in found : i <= j
        <4>1. CASE 1 \in found
          BY <3>1, <4>1
        <4>2. CASE 1 \notin found /\ 2 \in found
          BY <3>1, <4>2
        <4>3. CASE 1 \notin found /\ 2 \notin found
          <5>1. \A i \in found : i = 3
            BY <3>1, <4>3
          <5>2. 3 \in found
            BY <1>2, <5>1
          <5> QED
            BY <5>1, <5>2
        <4> QED
          BY <4>1, <4>2, <4>3
      <3> QED
        BY <3>2, Zenon
    <2>2. paths[first] \in DOMAIN there
      BY <2>1
    <2>3. DefaultConfig(environ, there) = there[paths[first]]
      BY <1>2 DEF DefaultConfig, FirstFile
    <2> QED
      BY <2>2, <2>3
  <1> QED
    BY <1>1, <1>2

\* Environments that agree on the variables of a field find the same file and give the
\* field the same value.
LEMMA SourcesDecide ==
    ASSUME NEW f \in Fields, NEW e1, NEW e2, NEW there,
           \A v \in Sources(f, DefaultConfig(e1, there)) : e1[v] = e2[v]
    PROVE  Documented(f, e1, DefaultConfig(e1, there)) = Documented(f, e2, DefaultConfig(e2, there))
  <1>0. DefaultConfig(e1, there) = DefaultConfig(e2, there)
    BY DEF Sources, DefaultConfig
  <1> SUFFICES ASSUME NEW yaml, \A v \in Sources(f, yaml) : e1[v] = e2[v]
               PROVE  Documented(f, e1, yaml) = Documented(f, e2, yaml)
    BY <1>0
  <1>1. \A i \in DOMAIN EnvOverrides :
           EnvOverrides[i].field = f => e1[EnvOverrides[i].var] = e2[EnvOverrides[i].var]
    BY DEF Sources
  <1>2. Rows(f, e1) = Rows(f, e2)
    BY <1>1 DEF Rows
  <1>3. Interpolate(yaml[f], e1) = Interpolate(yaml[f], e2)
    <2>1. yaml[f].from = "var" => e1[yaml[f].is] = e2[yaml[f].is]
      BY DEF Sources
    <2> QED
      BY <2>1 DEF Interpolate
  <1>4. CASE Rows(f, e1) = {}
    BY <1>2, <1>3, <1>4 DEF Documented
  <1>5. CASE Rows(f, e1) # {}
    <2>1. PICK r \in Rows(f, e1) : \A i \in Rows(f, e1) : i <= r
      BY <1>5, LastRow
    <2>2. /\ Documented(f, e1, yaml) = Coerce(e1[EnvOverrides[r].var])
          /\ Documented(f, e2, yaml) = Coerce(e2[EnvOverrides[r].var])
      <3>1. (CHOOSE i \in Rows(f, e1) : \A j \in Rows(f, e1) : j <= i) = r
        BY <2>1, LastRowIsTop
      <3> QED
        BY <1>2, <1>5, <3>1 DEF Documented
    <2>3. e1[EnvOverrides[r].var] = e2[EnvOverrides[r].var]
      BY <1>1 DEF Rows
    <2> QED
      BY <2>2, <2>3
  <1> QED
    BY <1>4, <1>5

\* What a process has is what it would load again, while nobody edits anything.
LoadedIsTrue(p) ==
    proc[p].at = "up" /\ ~edited[p] =>
        /\ proc[p].settings # Absent
        /\ proc[p].settings = LoadSettings(Environ(p), disk[via[p].dir])

SettingsInv ==
    /\ shell \in Shells /\ dotenv \in DotEnvs /\ disk \in Disks
    /\ proc = [p \in Processes |-> proc[p]]
    /\ via \in [Processes -> [how : {"none", "script", "direct"}, dir : Dirs]]
    /\ edited = [p \in Processes |-> edited[p]]
    /\ \A p \in Processes : LoadedIsTrue(p)

LEMMA InitSettingsInv == SettingsInit => SettingsInv
  BY SettingsAssumption DEF SettingsInit, Down, Nowhere, SettingsInv, LoadedIsTrue

\* services.sh reads the variables where they stand in .env, Python where they are exported.
LEMMA TwoWaysToStart ==
    /\ Sourced(shell, dotenv) =
          [v \in Vars |-> Defaulted(v, IF dotenv[v] # Absent THEN dotenv[v] ELSE shell[v])]
    /\ LoadDotEnv(shell, dotenv) =
          [v \in Vars |-> IF shell[v] # Absent THEN shell[v] ELSE dotenv[v]]
  <1>1. \A v \in Vars : dotenv[v] # Absent =>
           Defaulted(v, IF dotenv[v] # Absent THEN dotenv[v] ELSE shell[v]) # Absent
    BY SettingsAssumption DEF Defaulted
  <1> DEFINE merged == [v \in Vars |-> Defaulted(v, IF dotenv[v] # Absent THEN dotenv[v] ELSE shell[v])]
  <1>2. \A v \in Vars : (IF merged[v] # Absent THEN merged[v] ELSE dotenv[v]) = merged[v]
    BY <1>1
  <1>3. LoadDotEnv(merged, dotenv) = merged
    BY <1>2 DEF LoadDotEnv
  <1> QED
    BY <1>3 DEF Sourced, LoadDotEnv

LEMMA StartsLoad ==
    ASSUME SettingsInv, NEW p \in Processes, NEW how \in {"script", "direct"}, NEW dir \in Dirs,
           NEW environ, Starts(p, how, dir, environ),
           environ = IF how = "script"
                     THEN [v \in Vars |-> Defaulted(v, IF dotenv[v] # Absent THEN dotenv[v] ELSE shell[v])]
                     ELSE [v \in Vars |-> IF shell[v] # Absent THEN shell[v] ELSE dotenv[v]]
    PROVE  SettingsInv'
  <1> DEFINE s == LoadSettings(environ, disk[dir])
  <1>1. /\ UNCHANGED <<shell, dotenv, disk>>
        /\ proc' = [proc EXCEPT ![p] =
                      IF Accepts(p, s)
                      THEN [at |-> "up", settings |-> s]
                      ELSE [Down EXCEPT !.at = "refused"]]
        /\ via' = [via EXCEPT ![p] = [how |-> how, dir |-> dir]]
        /\ edited' = [edited EXCEPT ![p] = FALSE]
    BY DEF Starts
  <1>2. /\ proc' = [q \in Processes |-> proc'[q]]
        /\ via' \in [Processes -> [how : {"none", "script", "direct"}, dir : Dirs]]
        /\ edited' = [q \in Processes |-> edited'[q]]
    BY <1>1 DEF SettingsInv
  <1>3. LoadedIsTrue(p)'
    <2>1. Environ(p)' = environ /\ disk'[via'[p].dir] = disk[dir]
      BY <1>1 DEF SettingsInv, Environ
    <2>2. proc'[p].at = "up" => s # Absent /\ proc'[p].settings = s
      <3> HIDE DEF s
      <3> QED
        BY <1>1 DEF SettingsInv, Accepts, Down
    <2> QED
      BY <2>1, <2>2 DEF LoadedIsTrue
  <1>4. ASSUME NEW q \in Processes, q # p PROVE LoadedIsTrue(q)'
    <2>1. proc'[q] = proc[q] /\ via'[q] = via[q] /\ edited'[q] = edited[q]
      BY <1>1, <1>4 DEF SettingsInv
    <2>2. Environ(q)' = Environ(q)
      BY <1>1, <2>1 DEF Environ
    <2> QED
      BY <1>1, <2>1, <2>2 DEF SettingsInv, LoadedIsTrue
  <1> QED
    BY <1>1, <1>2, <1>3, <1>4 DEF SettingsInv

LEMMA NextSettingsInv ==
    ASSUME SettingsInv, [SettingsNext]_settingsVars PROVE SettingsInv'
  <1>1. CASE UNCHANGED settingsVars
    BY <1>1 DEF SettingsInv, LoadedIsTrue, settingsVars, Environ
  <1>2. CASE Edit
    <2>1. /\ shell' \in Shells /\ dotenv' \in DotEnvs /\ disk' \in Disks /\ UNCHANGED <<proc, via>>
          /\ edited' = [p \in Processes |-> proc[p].at = "up"]
      BY <1>2 DEF Edit, SettingsInv
    <2>2. \A p \in Processes : LoadedIsTrue(p)'
      BY <2>1 DEF LoadedIsTrue
    <2> QED
      BY <2>1, <2>2 DEF SettingsInv
  <1>3. CASE StartByScript
    <2>1. "worker" \in Processes /\ "root" \in Dirs
      BY SettingsAssumption DEF Processes
    <2> QED
      BY <1>3, <2>1, TwoWaysToStart, StartsLoad DEF StartByScript
  <1>4. ASSUME NEW p \in Processes, StartDirectly(p) PROVE SettingsInv'
    BY <1>4, TwoWaysToStart, StartsLoad DEF StartDirectly
  <1>5. ASSUME NEW p \in Processes, Stop(p) PROVE SettingsInv'
    <2>1. /\ UNCHANGED <<shell, dotenv, disk>>
          /\ proc' = [proc EXCEPT ![p] = Down]
          /\ via' = [via EXCEPT ![p] = [how |-> "none", dir |-> "root"]]
          /\ edited' = [edited EXCEPT ![p] = FALSE]
      BY <1>5 DEF Stop, Nowhere
    <2>2. ASSUME NEW q \in Processes PROVE LoadedIsTrue(q)'
      <3>1. CASE q = p
        BY <2>1, <3>1 DEF SettingsInv, LoadedIsTrue, Down
      <3>2. CASE q # p
        <4>1. proc'[q] = proc[q] /\ via'[q] = via[q] /\ edited'[q] = edited[q]
          BY <2>1, <3>2 DEF SettingsInv
        <4>2. Environ(q)' = Environ(q)
          BY <2>1, <4>1 DEF Environ
        <4> QED
          BY <2>1, <4>1, <4>2 DEF SettingsInv, LoadedIsTrue
      <3> QED
        BY <3>1, <3>2
    <2>3. via' \in [Processes -> [how : {"none", "script", "direct"}, dir : Dirs]]
      BY <2>1, SettingsAssumption DEF SettingsInv
    <2> QED
      BY <2>1, <2>2, <2>3 DEF SettingsInv
  <1> QED
    BY <1>1, <1>2, <1>3, <1>4, <1>5 DEF SettingsNext

LEMMA AlwaysSettingsInv == SettingsSpec => []SettingsInv
  BY InitSettingsInv, NextSettingsInv, PTL DEF SettingsSpec

\* Every process that runs has, field by field, what the documented precedence gives
\* (loader.py:3): a variable over the config file over the default, the last row of the
\* table where several name a field, a variable set to nothing not counting; for every
\* table of overrides and whatever was exported, put into .env or stopped in between.
THEOREM LayersAreInOrder == SettingsSpec => []LayersInOrder
  <1>1. SettingsInv => LayersInOrder
    BY SettingsAsDocumented DEF SettingsInv, LoadedIsTrue, LayersInOrder, FileOf
  <1> QED
    BY <1>1, AlwaysSettingsInv, PTL

\* A worker and an order command that run beside each other in one directory differ in a
\* setting only if services.sh and Python find different values for a variable that can
\* decide it (services.sh:36-43 against loader.py:128-166), APP_CONFIG_FILE included: the
\* task queue that the orders are put on is the one the worker serves, unless it or the
\* config file is shadowed.
THEOREM ProcessesAgree == SettingsSpec => []AgreeUnlessShadowed
  <1>1. ASSUME SettingsInv PROVE AgreeUnlessShadowed
    <2>1. SUFFICES ASSUME NEW p \in Processes, NEW q \in Processes,
                          NEW f \in Fields,
                          proc[p].at = "up", proc[q].at = "up", ~edited[p], ~edited[q],
                          via[p].dir = via[q].dir,
                          proc[p].settings[f] # proc[q].settings[f]
                   PROVE  \E v \in Sources(f, FileOf(p)) : FoundApart(v)
      BY DEF AgreeUnlessShadowed
    <2> DEFINE e1 == Environ(p)
               e2 == Environ(q)
               there == disk[via[p].dir]
    <2>2. /\ proc[p].settings[f] = Parsed(f, Documented(f, e1, DefaultConfig(e1, there)))
          /\ proc[q].settings[f] = Parsed(f, Documented(f, e2, DefaultConfig(e2, there)))
      BY <1>1, <2>1, SettingsAsDocumented DEF SettingsInv, LoadedIsTrue
    <2>3. PICK v \in Sources(f, DefaultConfig(e1, there)) : e1[v] # e2[v]
      <3> HIDE DEF e1, e2, there
      <3> QED
        BY <2>1, <2>2, SourcesDecide
    <2>4. v \in Vars
      <3>1. \A d \in Disks : \A dir \in Dirs : \A path \in DOMAIN d[dir] :
               d[dir][path][f].from = "var" => d[dir][path][f].is \in Vars
        BY SettingsAssumption
      <3>2. \A path \in DOMAIN there : there[path][f].from = "var" => there[path][f].is \in Vars
        BY <1>1, <3>1 DEF SettingsInv
      <3>3. NoFile[f].from # "var"
        BY DEF NoFile
      <3> HIDE DEF e1, e2, there
      <3>4. \/ DefaultConfig(e1, there) = NoFile
            \/ \E path \in DOMAIN there : DefaultConfig(e1, there) = there[path]
        BY FileIsFound
      <3>5. LET y == DefaultConfig(e1, there) IN y[f].from = "var" => y[f].is \in Vars
        BY <3>2, <3>3, <3>4
      <3> QED
        BY <3>5 DEF Sources, Vars
    <2>5. FoundApart(v)
      BY <2>3, <2>4 DEF Environ, FoundApart, Defaulted
    <2> QED
      BY <2>5 DEF FileOf
  <1> QED
    BY <1>1, AlwaysSettingsInv, PTL
=============================================================================
