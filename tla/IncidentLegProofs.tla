------------------------- MODULE IncidentLegProofs -------------------------
(***************************************************************************)
(* One ticket per order for any number of callers, attempts and restarts:  *)
(* the context id tells callers and their attempts apart, and the agent's  *)
(* table holds each id once.                                               *)
(***************************************************************************)
EXTENDS IncidentLeg, FiniteSetTheorems, FunctionTheorems, TLAPS

\* A context id starts with its caller.
LEMMA ContextIds ==
    ASSUME NEW c \in Callers, NEW k \in 1..MaxAttempts
    PROVE  /\ ContextId(c, k)[1] = c /\ ContextId(c, k) # NoKey
           /\ c \in Orders => ContextId(c, k) = <<c>>
           /\ c \in Runs => ContextId(c, k) = <<c, k>>
           /\ ContextId(c, k) \in {<<d>> : d \in Callers} \cup (Callers \X (1..MaxAttempts))
  BY IncidentAssumption DEF ContextId, NoKey, Callers

\* Every ticket is a seed or was opened with the context id of one of the attempts its
\* caller has made; the table holds no context id twice.
TableByContext ==
    /\ \A i \in DOMAIN store :
          \/ store[i].about = "seed" /\ store[i].key = NoKey
          \/ /\ store[i].about \in Callers
             /\ \E k \in 1..leg[store[i].about].attempt : store[i].key = ContextId(store[i].about, k)
    /\ \A i, j \in DOMAIN store : store[i].key # NoKey /\ store[i].key = store[j].key => i = j

\* Numbers are given out once, in order, by the counter.
NumbersByCounter ==
    /\ \A i \in DOMAIN store : store[i].number <= counter
    /\ \A i, j \in DOMAIN store : store[i].number = store[j].number => i = j

\* Nothing is on its way for an attempt that was not made; until a restart loses the
\* table, what is on its way back names a ticket in it.
InFlight ==
    /\ \A m \in requests : m.attempt <= leg[m.caller].attempt
    /\ restarts = 0 =>
          /\ \A r \in replies : \E i \in DOMAIN store :
                store[i].number = r.ticket /\ store[i].about = r.caller
          /\ \A c \in Callers : leg[c].state = "opened" => \E i \in DOMAIN store :
                store[i].number = leg[c].ticket /\ store[i].about = c

LegInv == TypeOK /\ TableByContext /\ NumbersByCounter /\ InFlight

LEMMA SeededTable ==
    /\ SeededStore \in Seq(Tickets) /\ SeededCounter \in Nat
    /\ DOMAIN SeededStore = {1, 2}
    /\ \A i \in {1, 2} : /\ SeededStore[i].about = "seed" /\ SeededStore[i].key = NoKey
                         /\ SeededStore[i].number = SeedCounter + i
  BY DEF SeededStore, SeededCounter, SeedCounter, Seed, Tickets, NoKey

LEMMA TicketsTyped ==
    ASSUME TypeOK PROVE \A i \in DOMAIN store : store[i].number \in Nat
  <1>1. \A i \in DOMAIN store : store[i] \in Tickets
    BY DEF TypeOK
  <1> QED
    BY <1>1 DEF Tickets

LEMMA InitLegInv == Init => LegInv
  <1> SUFFICES ASSUME Init PROVE LegInv
    OBVIOUS
  <1>1. TypeOK
    BY SeededTable, IncidentAssumption DEF Init, TypeOK, NoTicket
  <1>2. TableByContext /\ NumbersByCounter
    BY SeededTable DEF Init, TableByContext, NumbersByCounter, SeededCounter, SeedCounter
  <1>3. InFlight
    BY DEF Init, InFlight
  <1> QED
    BY <1>1, <1>2, <1>3 DEF LegInv

-----------------------------------------------------------------------------

Legs == [state : {"ready", "posted", "opened", "error"}, attempt : 1..MaxAttempts, ticket : Nat]

\* The callers' steps do not touch the table, and attempts only go up.
LEMMA CallerSteps ==
    ASSUME TypeOK, NEW c \in Callers, Post(c) \/ Complete(c) \/ AttemptFails(c)
    PROVE  /\ UNCHANGED <<store, counter, restarts>>
           /\ leg' \in [Callers -> Legs]
           /\ leg'[c].attempt >= leg[c].attempt
           /\ \A d \in Callers \ {c} : leg'[d] = leg[d]
  <1>1. leg \in [Callers -> Legs]
    BY DEF TypeOK, Legs
  <1>2. CASE Post(c)
    BY <1>1, <1>2 DEF Post, Legs
  <1>3. CASE Complete(c)
    <2>1. PICK r \in replies : leg' = [leg EXCEPT ![c].state = "opened", ![c].ticket = r.ticket]
      BY <1>3 DEF Complete
    <2>2. r.ticket \in Nat
      BY DEF TypeOK
    <2>3. UNCHANGED <<store, counter, restarts>>
      BY <1>3 DEF Complete
    <2>4. leg[c] \in Legs /\ DOMAIN leg = Callers
      BY <1>1
    <2>5. /\ leg'[c] = [state |-> "opened", attempt |-> leg[c].attempt, ticket |-> r.ticket]
          /\ DOMAIN leg' = Callers /\ \A d \in Callers \ {c} : leg'[d] = leg[d]
          /\ leg' = [d \in Callers |-> leg'[d]]
      BY <2>1, <2>4 DEF Legs
    <2>6. leg'[c] \in Legs /\ leg'[c].attempt = leg[c].attempt /\ leg[c].attempt \in Int
      BY <2>2, <2>4, <2>5 DEF Legs
    <2>7. leg' \in [Callers -> Legs]
      BY <1>1, <2>5, <2>6
    <2> QED
      BY <2>3, <2>5, <2>6, <2>7
  <1>4. CASE AttemptFails(c)
    <2>1. leg[c].attempt \in 1..MaxAttempts
      BY <1>1 DEF Legs
    <2>2. CASE leg[c].attempt < MaxAttempts
      BY <1>1, <1>4, <2>1, <2>2, IncidentAssumption DEF AttemptFails, Legs
    <2>3. CASE leg[c].attempt = MaxAttempts
      BY <1>1, <1>4, <2>1, <2>3, IncidentAssumption DEF AttemptFails, Legs
    <2> QED
      BY <1>4, <2>2, <2>3 DEF AttemptFails
  <1> QED
    BY <1>2, <1>3, <1>4

LEMMA CallerLegInv ==
    ASSUME LegInv, NEW c \in Callers, Post(c) \/ Complete(c) \/ AttemptFails(c)
    PROVE  LegInv'
  <1> USE DEF LegInv
  <1>1. /\ UNCHANGED <<store, counter, restarts>>
        /\ leg \in [Callers -> Legs] /\ leg' \in [Callers -> Legs]
        /\ \A d \in Callers : leg'[d].attempt >= leg[d].attempt
        /\ \A d \in Callers \ {c} : leg'[d] = leg[d]
    <2>1. leg \in [Callers -> Legs]
      BY DEF TypeOK, Legs
    <2> QED
      BY <2>1, CallerSteps DEF Legs
  <1>2. TableByContext' /\ NumbersByCounter'
    <2>1. \A d \in Callers : \A k \in 1..leg[d].attempt : k \in 1..leg'[d].attempt
      BY <1>1 DEF Legs
    <2> QED
      BY <1>1, <2>1 DEF TableByContext, NumbersByCounter
  <1>3. /\ requests' \subseteq Requests /\ replies' = replies
        /\ \A m \in requests' : m.attempt <= leg'[m.caller].attempt
    <2>1. CASE requests' = requests /\ replies' = replies
      <3>1. \A m \in requests : m.caller \in Callers /\ m.attempt \in 1..MaxAttempts
        BY DEF TypeOK, Requests
      <3> QED
        BY <1>1, <2>1, <3>1 DEF TypeOK, InFlight, Legs
    <2>2. CASE Post(c)
      <3>1. /\ requests' = requests \cup {[caller |-> c, attempt |-> leg[c].attempt]}
            /\ replies' = replies /\ leg[c].attempt \in 1..MaxAttempts
        BY <1>1, <2>2 DEF Post, Legs
      <3>2. \A m \in requests : m.caller \in Callers /\ m.attempt \in 1..MaxAttempts
        BY DEF TypeOK, Requests
      <3> QED
        BY <1>1, <3>1, <3>2 DEF TypeOK, InFlight, Requests, Legs
    <2> QED
      BY <2>1, <2>2 DEF Complete, AttemptFails
  <1>4. TypeOK'
    BY <1>1, <1>3 DEF TypeOK, Legs
  <1>5. leg'[c].state = "opened" =>
            \/ leg[c].state = "opened" /\ leg'[c].ticket = leg[c].ticket
            \/ \E r \in replies : r.caller = c /\ leg'[c].ticket = r.ticket
    <2>1. CASE Post(c) \/ AttemptFails(c)
      BY <1>1, <2>1 DEF Post, AttemptFails, Legs
    <2>2. CASE Complete(c)
      BY <1>1, <2>2 DEF Complete, Legs
    <2> QED
      BY <2>1, <2>2
  <1>6. InFlight'
    BY <1>1, <1>3, <1>5 DEF InFlight
  <1> QED
    BY <1>2, <1>4, <1>6

LEMMA HandleLegInv ==
    ASSUME LegInv, NEW m \in requests, Handle(m) PROVE LegInv'
  <1> USE DEF LegInv
  <1> DEFINE key == CorrelationId(m)
  <1>1. /\ m.caller \in Callers /\ m.attempt \in 1..MaxAttempts
        /\ m.attempt \in 1..leg[m.caller].attempt
        /\ UNCHANGED <<leg, restarts>> /\ requests' \subseteq requests
    BY DEF TypeOK, Requests, InFlight, Handle
  <1>2. /\ key = ContextId(m.caller, m.attempt) /\ key[1] = m.caller /\ key # NoKey
        /\ key \in {<<d>> : d \in Callers} \cup (Callers \X (1..MaxAttempts))
    BY <1>1, ContextIds DEF CorrelationId
  <1> HIDE DEF key
  <1>3. CASE Existing(key) # {}
    <2>1. PICK i \in Existing(key) :
             replies' = replies \cup {[caller |-> m.caller, attempt |-> m.attempt,
                                       ticket |-> store[i].number]}
      BY <1>3 DEF Handle, key
    <2>2. UNCHANGED <<store, counter>>
      BY <1>3 DEF Handle, key
    <2>3. i \in DOMAIN store /\ store[i].key = key /\ store[i].number \in Nat
      BY TicketsTyped DEF Existing
    <2>4. store[i].about = m.caller
      <3>1. PICK k \in 1..leg[store[i].about].attempt : store[i].key = ContextId(store[i].about, k)
        BY <1>2, <2>3 DEF TableByContext
      <3>2. store[i].about \in Callers
        BY <1>2, <2>3 DEF TableByContext
      <3>3. k \in 1..MaxAttempts
        BY <3>1, <3>2, IncidentAssumption DEF TypeOK
      <3> QED
        BY <1>2, <2>3, <3>1, <3>2, <3>3, ContextIds
    <2>5. TypeOK'
      BY <1>1, <2>1, <2>2, <2>3 DEF TypeOK
    <2>6. TableByContext' /\ NumbersByCounter'
      BY <1>1, <2>2 DEF TableByContext, NumbersByCounter
    <2>7. InFlight'
      BY <1>1, <2>1, <2>2, <2>3, <2>4 DEF InFlight
    <2> QED
      BY <2>5, <2>6, <2>7
  <1>4. CASE Existing(key) = {}
    <2> DEFINE n == Len(store) + 1
    <2>1. /\ counter' = counter + 1 /\ counter \in Nat
          /\ store' = Append(store, [number |-> counter', key |-> key, about |-> m.caller])
          /\ replies' = replies \cup {[caller |-> m.caller, attempt |-> m.attempt,
                                       ticket |-> counter']}
      BY <1>4 DEF Handle, Insert, key, TypeOK
    <2>2. [number |-> counter', key |-> key, about |-> m.caller] \in Tickets
      BY <1>1, <1>2, <2>1 DEF Tickets
    <2>3. /\ store' \in Seq(Tickets) /\ DOMAIN store = 1..Len(store) /\ Len(store) \in Nat
          /\ DOMAIN store' = 1..n
          /\ \A i \in DOMAIN store : store'[i] = store[i]
          /\ store'[n].number = counter + 1 /\ store'[n].key = key /\ store'[n].about = m.caller
      BY <2>1, <2>2 DEF TypeOK
    <2>4. \A i \in DOMAIN store : store[i].key # key
      BY <1>2, <1>4 DEF Existing
    <2>5. TypeOK'
      BY <1>1, <2>1, <2>3 DEF TypeOK
    <2>6. TableByContext'
      <3>1. \A i \in DOMAIN store' : i \in DOMAIN store \/ i = n
        BY <2>3
      <3> QED
        BY <1>1, <1>2, <2>3, <2>4, <3>1 DEF TableByContext
    <2>7. NumbersByCounter'
      <3>1. \A i \in DOMAIN store : store[i].number \in Nat
        BY TicketsTyped
      <3> QED
        BY <2>1, <2>3, <3>1 DEF NumbersByCounter
    <2>8. InFlight'
      <3>1. \A q \in requests' : q.attempt <= leg'[q.caller].attempt
        BY <1>1 DEF InFlight
      <3>2. n \in DOMAIN store' /\ \A i \in DOMAIN store : i \in DOMAIN store'
        BY <2>3
      <3> HIDE DEF n
      <3>3. ASSUME restarts' = 0, NEW r \in replies'
            PROVE  \E i \in DOMAIN store' : store'[i].number = r.ticket /\ store'[i].about = r.caller
        <4>1. CASE r \in replies
          <5>1. PICK i \in DOMAIN store : store[i].number = r.ticket /\ store[i].about = r.caller
            BY <1>1, <3>3, <4>1 DEF InFlight
          <5> QED
            BY <2>3, <3>2, <5>1
        <4>2. CASE r.ticket = counter + 1 /\ r.caller = m.caller
          BY <2>3, <3>2, <4>2
        <4> QED
          BY <2>1, <4>1, <4>2
      <3>4. ASSUME restarts' = 0, NEW c \in Callers, leg'[c].state = "opened"
            PROVE  \E i \in DOMAIN store' : store'[i].number = leg'[c].ticket /\ store'[i].about = c
        <4>1. PICK i \in DOMAIN store : store[i].number = leg[c].ticket /\ store[i].about = c
          BY <1>1, <3>4 DEF InFlight
        <4> QED
          BY <1>1, <2>3, <3>2, <4>1
      <3> QED
        BY <3>1, <3>3, <3>4 DEF InFlight
    <2> QED
      BY <2>5, <2>6, <2>7, <2>8
  <1> QED
    BY <1>3, <1>4

LEMMA RestartLegInv == ASSUME LegInv, Restart PROVE LegInv'
  <1> USE DEF LegInv
  <1>1. /\ store' = SeededStore /\ counter' = SeededCounter /\ requests' = {}
        /\ UNCHANGED <<leg, replies>> /\ restarts' \in 1..MaxRestarts
    BY IncidentAssumption DEF Restart, TypeOK
  <1>2. TypeOK'
    BY <1>1, SeededTable, IncidentAssumption DEF TypeOK
  <1>3. TableByContext' /\ NumbersByCounter'
    BY <1>1, SeededTable DEF TableByContext, NumbersByCounter, SeededCounter, SeedCounter
  <1>4. InFlight'
    BY <1>1 DEF InFlight
  <1> QED
    BY <1>2, <1>3, <1>4

LEMMA NextLegInv == LegInv /\ [Next]_vars => LegInv'
  <1> SUFFICES ASSUME LegInv, [Next]_vars PROVE LegInv'
    OBVIOUS
  <1>1. CASE UNCHANGED vars
    BY <1>1 DEF vars, LegInv, TypeOK, TableByContext, NumbersByCounter, InFlight
  <1> QED
    BY <1>1, CallerLegInv, HandleLegInv, RestartLegInv DEF Next

LEMMA AlwaysLegInv == Spec => []LegInv
  BY InitLegInv, NextLegInv, PTL DEF Spec

-----------------------------------------------------------------------------

\* The tickets of a caller, and the attempts whose context ids they have.
LEMMA TicketsByAttempt ==
    ASSUME LegInv, NEW c \in Callers
    PROVE  LET I == {i \in DOMAIN store : store[i].about = c}
               N == leg[c].attempt
           IN  /\ N \in Nat /\ N \in 1..MaxAttempts
               /\ \E f \in [I -> 1..N] : \A i \in I : store[i].key = ContextId(c, f[i])
  <1> DEFINE I == {i \in DOMAIN store : store[i].about = c}
             N == leg[c].attempt
             f == [i \in I |-> CHOOSE k \in 1..N : store[i].key = ContextId(c, k)]
  <1>1. N \in 1..MaxAttempts /\ N \in Nat
    BY IncidentAssumption DEF LegInv, TypeOK
  <1>2. \A i \in I : \E k \in 1..N : store[i].key = ContextId(c, k)
    BY IncidentAssumption DEF LegInv, TableByContext
  <1>3. f \in [I -> 1..N] /\ \A i \in I : store[i].key = ContextId(c, f[i])
    BY <1>2
  <1> QED
    BY <1>1, <1>3

\* An order has one ticket however often its call was retried, and a run without a
\* context id at most one for each attempt (servicenow.py:68, a2a.py:75).
THEOREM OneTicket == Spec => []OneTicketPerOrder
  <1>1. ASSUME LegInv, NEW i \in DOMAIN store, NEW j \in DOMAIN store,
               store[i].about = store[j].about, store[i].about \in Orders
        PROVE  i = j
    <2>1. ASSUME NEW k \in DOMAIN store, store[k].about \in Orders
          PROVE  store[k].key = <<store[k].about>> /\ store[k].key # NoKey
      <3>1. store[k].about \in Callers /\ store[k].about # "seed"
        BY <2>1, IncidentAssumption DEF Callers
      <3>2. PICK a \in 1..leg[store[k].about].attempt : store[k].key = ContextId(store[k].about, a)
        BY <1>1, <2>1, <3>1 DEF LegInv, TableByContext
      <3>3. a \in 1..MaxAttempts
        BY <1>1, <3>1, <3>2, IncidentAssumption DEF LegInv, TypeOK
      <3> QED
        BY <2>1, <3>1, <3>2, <3>3, ContextIds
    <2> QED
      BY <1>1, <2>1 DEF LegInv, TableByContext
  <1>2. ASSUME LegInv, NEW c \in Runs
        PROVE  Cardinality({i \in DOMAIN store : store[i].about = c}) <= leg[c].attempt
    <2> DEFINE I == {i \in DOMAIN store : store[i].about = c}
               N == leg[c].attempt
    <2>1. c \in Callers
      BY DEF Callers
    <2>2. N \in Nat /\ N \in 1..MaxAttempts
      BY <1>2, <2>1, TicketsByAttempt
    <2>3. PICK f \in [I -> 1..N] : \A i \in I : store[i].key = ContextId(c, f[i])
      BY <1>2, <2>1, TicketsByAttempt
    <2>4. \A i, j \in I : f[i] = f[j] => i = j
      <3>1. ASSUME NEW i \in I PROVE store[i].key # NoKey
        <4>1. f[i] \in 1..MaxAttempts /\ store[i].key = ContextId(c, f[i])
          BY <2>2, <2>3, IncidentAssumption
        <4> QED
          BY <2>1, <4>1, ContextIds
      <3> QED
        BY <1>2, <2>3, <3>1 DEF LegInv, TableByContext
    <2> HIDE DEF I, N
    <2>5. f \in Injection(I, 1..N)
      BY <2>3, <2>4, Fun_IsInj
    <2>6. IsFiniteSet(1..N) /\ Cardinality(1..N) = N
      BY <2>2, FS_Interval
    <2>7. Cardinality(I) <= N
      BY <2>5, <2>6, FS_Injection
    <2> QED
      BY <2>7 DEF I, N
  <1>3. LegInv => OneTicketPerOrder
    BY <1>1, <1>2 DEF OneTicketPerOrder
  <1> QED
    BY <1>3, AlwaysLegInv, PTL

\* A number means one ticket, and the ticket a caller reports is its own, as long as
\* the agent has not lost its table (servicenow.py:72).
THEOREM ReportIsOwn == Spec => []ReportedIsOwn
  <1>1. LegInv => ReportedIsOwn
    BY DEF LegInv, NumbersByCounter, InFlight, ReportedIsOwn
  <1> QED
    BY <1>1, AlwaysLegInv, PTL

\* Callers, the table, its counter and what is on the way keep their types: no number,
\* attempt or restart leaves its range, a request or a reply its form.
THEOREM IncidentTyped == Spec => []TypeOK
  <1>1. LegInv => TypeOK
    BY DEF LegInv
  <1> QED
    BY <1>1, AlwaysLegInv, PTL
=============================================================================
