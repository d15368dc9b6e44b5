---------------------------- MODULE IncidentLeg ----------------------------
(***************************************************************************)
(* Opening a ServiceNow incident over A2A: a2a_call_activity with          *)
(* Temporal's retries on one side, the ServiceNow agent and its incident   *)
(* table on the other, an HTTP exchange in between whose request or reply  *)
(* can be late or lost.  Orders send a context id made of their workflow   *)
(* id (order_workflow.py:201); the runs of A2AWorkflow that the command    *)
(* line starts send none, and A2AClient.send invents one for each attempt. *)
(***************************************************************************)
EXTENDS Integers, Sequences, SequencesExt, FiniteSets

CONSTANTS
    Orders,       \* orders that call the agent
    Runs,         \* runs of A2AWorkflow that call it
    MaxAttempts,  \* maximum_attempts of the orders' retry policy; bounds those of the
                  \* runs, which Temporal retries without end
    MaxRestarts   \* bound on the restarts of the agent's process

Callers == Orders \cup Runs

ASSUME IncidentAssumption ==
    /\ Orders \cap Runs = {} /\ "seed" \notin Callers
    /\ MaxAttempts \in Nat \ {0}
    /\ MaxRestarts \in Nat

VARIABLES
    leg,       \* leg[c]: the activity of caller c: state, attempt, ticket returned
    requests,  \* requests on their way to the agent
    replies,   \* replies on their way back
    store,     \* IncidentStore._items
    counter,   \* IncidentStore._counter
    restarts   \* restarts of the agent's process so far

vars == <<leg, requests, replies, store, counter, restarts>>

SeedCounter == 10000
NoTicket    == 0
NoKey       == <<>>
Seed(n)     == [number |-> SeedCounter + n, key |-> NoKey, about |-> "seed"]

\* IncidentStore.__init__: two seeded incidents, which have no correlation id.
SeededStore   == <<Seed(1), Seed(2)>>
SeededCounter == SeedCounter + 2

\* A2AClient.send: context_id or a fresh uuid.
ContextId(c, attempt) == IF c \in Orders THEN <<c>> ELSE <<c, attempt>>

\* Fault: the handler does not pass the context id on.
Uncorrelated(m) == NoKey

\* _handler: the context id is the correlation id.
CorrelationId(m) == ContextId(m.caller, m.attempt)

Requests == [caller : Callers, attempt : 1..MaxAttempts]

Init ==
    /\ leg = [c \in Callers |-> [state |-> "ready", attempt |-> 1, ticket |-> NoTicket]]
    /\ requests = {}
    /\ replies = {}
    /\ store = SeededStore
    /\ counter = SeededCounter
    /\ restarts = 0

-----------------------------------------------------------------------------

\* An attempt of the activity posts its message.
Post(c) ==
    /\ leg[c].state = "ready"
    /\ leg' = [leg EXCEPT ![c].state = "posted"]
    /\ requests' = requests \cup {[caller |-> c, attempt |-> leg[c].attempt]}
    /\ UNCHANGED <<replies, store, counter, restarts>>

\* Fault: any correlated incident will do.
AnyExisting(key) == {i \in DOMAIN store : key # NoKey /\ store[i].key # NoKey}

Existing(key) == {i \in DOMAIN store : key # NoKey /\ store[i].key = key}

Insert(t) == store' = Append(store, t)

\* The agent handles a request, which may have been given up by its sender long ago:
\* create upserts on the correlation id.  The handler has no await around it.
Handle(m) ==
    LET key == CorrelationId(m)
        Reply(n) == replies' = replies \cup {[caller |-> m.caller, attempt |-> m.attempt, ticket |-> n]}
    IN
    /\ m \in requests
    /\ requests' = requests \ {m}
    /\ \/ /\ Existing(key) # {}
          /\ \E i \in Existing(key) : Reply(store[i].number)
          /\ UNCHANGED <<store, counter>>
       \/ /\ Existing(key) = {}
          /\ counter' = counter + 1
          /\ Insert([number |-> counter', key |-> key, about |-> m.caller])
          /\ Reply(counter')
    /\ UNCHANGED <<leg, restarts>>

\* The activity's current attempt reads its reply and completes; earlier attempts'
\* replies have nobody waiting for them.
Complete(c) ==
    /\ leg[c].state = "posted"
    /\ \E r \in replies :
          /\ r.caller = c /\ r.attempt = leg[c].attempt
          /\ leg' = [leg EXCEPT ![c].state = "opened", ![c].ticket = r.ticket]
    /\ UNCHANGED <<requests, replies, store, counter, restarts>>

\* The attempt fails: refused connection, HTTP error, 30 s without a reply, the
\* worker dead before or after the post.  Temporal retries until none is left.
AttemptFails(c) ==
    /\ leg[c].state \in {"ready", "posted"}
    /\ \/ /\ leg[c].attempt < MaxAttempts
          /\ leg' = [leg EXCEPT ![c].state = "ready", ![c].attempt = @ + 1]
       \/ /\ leg[c].attempt = MaxAttempts
          /\ leg' = [leg EXCEPT ![c].state = "error"]
    /\ UNCHANGED <<requests, replies, store, counter, restarts>>

\* The agent's process restarts: the table was in its memory.
Restart ==
    /\ restarts < MaxRestarts
    /\ restarts' = restarts + 1
    /\ store' = SeededStore
    /\ counter' = SeededCounter
    /\ requests' = {}
    /\ UNCHANGED <<leg, replies>>

Next ==
    \/ \E c \in Callers : Post(c) \/ Complete(c) \/ AttemptFails(c)
    \/ \E m \in requests : Handle(m)
    \/ Restart

Spec == Init /\ [][Next]_vars

-----------------------------------------------------------------------------

Tickets == [number : Nat, key : {NoKey} \cup {<<c>> : c \in Callers} \cup (Callers \X (1..MaxAttempts)),
            about : {"seed"} \cup Callers]

\* The type invariant.
TypeOK ==
    /\ leg \in [Callers -> [state : {"ready", "posted", "opened", "error"},
                            attempt : 1..MaxAttempts, ticket : Nat]]
    /\ requests \subseteq Requests
    /\ replies \subseteq [caller : Callers, attempt : 1..MaxAttempts, ticket : Nat]
    /\ store \in Seq(Tickets)
    /\ counter \in Nat
    /\ restarts \in 0..MaxRestarts

\* However many of its attempts reached the agent, late or after one another, an
\* order has one ticket ("a retried create returns the existing ticket"); a run
\* without a context id has at most one for each attempt it made.
OneTicketPerOrder ==
    /\ \A i, j \in DOMAIN store :
          store[i].about = store[j].about /\ store[i].about \in Orders => i = j
    /\ \A c \in Runs :
          Cardinality({i \in DOMAIN store : store[i].about = c}) <= leg[c].attempt

\* The ticket a caller reports is in the table and is about that caller, never one
\* that another caller's concurrent request got; a restart loses the table.  No two
\* tickets share a number, after a restart neither: a number says which one is meant.
ReportedIsOwn ==
    /\ \A i, j \in DOMAIN store : store[i].number = store[j].number => i = j
    /\ restarts = 0 => \A c \in Callers : leg[c].state = "opened" =>
          \E i \in DOMAIN store : store[i].number = leg[c].ticket /\ store[i].about = c

=============================================================================
