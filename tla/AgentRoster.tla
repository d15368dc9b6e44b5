---------------------------- MODULE AgentRoster ----------------------------
(***************************************************************************)
(* scripts/lyzr_provision.py: run after run, it lists the agents of the    *)
(* Lyzr account, creates those of the roster it does not find by name, and *)
(* writes the map of their ids that the worker reads.  A run can end       *)
(* anywhere (an HTTP error, a timeout, Ctrl-C), and a creation that nobody *)
(* waits for any more may still happen.                                    *)
(***************************************************************************)
EXTENDS Naturals, FiniteSets

CONSTANTS
    Roles,    \* the names of ROSTER
    Ids,      \* ids of agents: bounds the agents ever created
    MaxRuns,  \* bound on the runs of the script
    None      \* no name, no id

ASSUME RosterAssumption ==
    /\ IsFiniteSet(Roles) /\ IsFiniteSet(Ids) /\ None \notin Roles \cup Ids
    /\ MaxRuns \in Nat

VARIABLES
    agents,     \* agents[i]: the name of agent i in the account
    late,       \* late[r]: creations under way that nobody waits for
    abandoned,  \* abandoned[r]: creations nobody waited for, ever
    file,       \* lyzr_agents.yaml: file[r] is an id, None where it has none
    prov,       \* a run of the script: where it stands, the ids it has, whose
                \* creation it waits for and the answer that is on its way
    runs        \* runs so far

rosterVars == <<agents, late, abandoned, file, prov, runs>>

NoMap    == [r \in Roles |-> None]
NoRun    == [pc |-> "idle", ids |-> NoMap, role |-> None, answer |-> None]
Named(r) == {i \in Ids : agents[i] = r}

RosterInit ==
    /\ agents = [i \in Ids |-> None]
    /\ late = [r \in Roles |-> 0] /\ abandoned = [r \in Roles |-> 0]
    /\ file = NoMap
    /\ prov = NoRun
    /\ runs = 0

\* Fault: the names of the agents that are there are not looked at.
ListsNothing ==
    /\ prov.pc = "idle" /\ runs < MaxRuns
    /\ runs' = runs + 1
    /\ prov' = [NoRun EXCEPT !.pc = "creating"]
    /\ UNCHANGED <<agents, late, abandoned, file>>

\* list_agents and by_name; of several agents of one name one entry survives.
ListAgents ==
    /\ prov.pc = "idle" /\ runs < MaxRuns
    /\ runs' = runs + 1
    /\ \E known \in [Roles -> Ids \cup {None}] :
          /\ \A r \in Roles : IF Named(r) = {} THEN known[r] = None ELSE known[r] \in Named(r)
          /\ prov' = [NoRun EXCEPT !.pc = "creating", !.ids = known]
    /\ UNCHANGED <<agents, late, abandoned, file>>

\* create_agent posts an agent of the roster that was not found.
PostAgent ==
    /\ prov.pc = "creating"
    /\ \E r \in Roles :
          /\ prov.ids[r] = None
          /\ prov' = [prov EXCEPT !.pc = "waiting", !.role = r]
    /\ UNCHANGED <<agents, late, abandoned, file, runs>>

\* The account creates the agent that the run waits for, or one that it gave up on.
AccountCreates ==
    /\ \E i \in Ids, r \in Roles :
          /\ agents[i] = None
          /\ agents' = [agents EXCEPT ![i] = r]
          /\ \/ /\ prov.pc = "waiting" /\ prov.role = r
                /\ prov' = [prov EXCEPT !.pc = "answered", !.answer = i]
                /\ UNCHANGED late
             \/ late[r] > 0 /\ late' = [late EXCEPT ![r] = @ - 1] /\ UNCHANGED prov
    /\ UNCHANGED <<abandoned, file, runs>>

ReadsAnswer ==
    /\ prov.pc = "answered"
    /\ prov' = [prov EXCEPT !.pc = "creating", !.ids[prov.role] = prov.answer,
                            !.role = None, !.answer = None]
    /\ UNCHANGED <<agents, late, abandoned, file, runs>>

\* write_text empties the file before it writes: two steps.
Truncates ==
    /\ prov.pc = "creating" /\ \A r \in Roles : prov.ids[r] # None
    /\ file' = NoMap
    /\ prov' = [prov EXCEPT !.pc = "writing"]
    /\ UNCHANGED <<agents, late, abandoned, runs>>

WritesFile ==
    /\ prov.pc = "writing"
    /\ file' = prov.ids
    /\ prov' = NoRun
    /\ UNCHANGED <<agents, late, abandoned, runs>>

\* The run ends early: Ctrl-C, a timeout, a status that is an error.  A creation it
\* waited for was refused or goes on without it.
EndsEarly ==
    /\ prov.pc # "idle"
    /\ prov' = NoRun
    /\ \/ UNCHANGED <<late, abandoned>>
       \/ /\ prov.pc = "waiting"
          /\ late' = [late EXCEPT ![prov.role] = @ + 1]
          /\ abandoned' = [abandoned EXCEPT ![prov.role] = @ + 1]
    /\ UNCHANGED <<agents, file, runs>>

Provision ==
    \/ ListAgents \/ PostAgent \/ ReadsAnswer \/ Truncates \/ WritesFile \/ EndsEarly
    \/ AccountCreates

-----------------------------------------------------------------------------
(* Properties                                                              *)

Maps == [Roles -> Ids \cup {None}]

\* The types of the roster's part of the state.
RosterTypeOK ==
    /\ agents \in [Ids -> Roles \cup {None}]
    /\ late \in [Roles -> 0..MaxRuns] /\ abandoned \in [Roles -> 0..MaxRuns]
    /\ file \in Maps
    /\ prov \in [pc : {"idle", "creating", "waiting", "answered", "writing"}, ids : Maps,
                 role : Roles \cup {None}, answer : Ids \cup {None}]
    /\ runs \in 0..MaxRuns

\* lyzr_provision.py:2: rerunning the script creates nothing twice.  An answer that
\* was lost costs nothing, since the next run finds the agent by its name; only a
\* creation that was given up while under way can make a second one, and then it is
\* one more at most.
CreatedOnce == \A r \in Roles : Cardinality(Named(r)) <= 1 + abandoned[r]
=============================================================================
