-------------------------- MODULE WorkerHostProofs --------------------------
(***************************************************************************)
(* What holds of the worker's machine and of the Lyzr account for any      *)
(* roster, any number of runs of the provisioning script and any pids: the *)
(* script's promises about the agents it creates (AgentRoster), and those  *)
(* of services.sh about the worker it starts and stops.                    *)
(***************************************************************************)
EXTENDS WorkerHost, FiniteSetTheorems, TLAPS

\* A map never names an agent that is not there, or is another role's.
MapIsTrue(m) == \A r \in Roles : m[r] \in Named(r) \cup {None}

\* A run that stands at a creation waits for one role; no other state has one.
RunStands ==
    /\ prov.pc \in {"waiting", "answered"} <=> prov.role # None
    /\ prov.pc = "answered" => prov.answer \in Named(prov.role)
    /\ prov.pc = "writing" => \A r \in Roles : prov.ids[r] # None

IdsAreTrue == MapIsTrue(file) /\ MapIsTrue(prov.ids)

\* Only a run gives up a creation, and each run one at most.
GivenUp ==
    \A r \in Roles :
        /\ late[r] <= abandoned[r]
        /\ abandoned[r] + (IF prov.pc = "idle" THEN 0 ELSE 1) <= runs

\* Agents that are there and those that may still come: one more than were given up;
\* and none more while a run has not found or created one.
Expected(r) == Cardinality(Named(r)) + late[r]
CreationsCounted ==
    \A r \in Roles :
        /\ Expected(r) + (IF prov.pc = "waiting" /\ prov.role = r THEN 1 ELSE 0)
               <= 1 + abandoned[r]
        /\ prov.pc \notin {"idle", "writing"} /\ prov.role # r /\ prov.ids[r] = None =>
               Expected(r) <= abandoned[r]

RosterInv == RosterTypeOK /\ RunStands /\ IdsAreTrue /\ GivenUp /\ CreationsCounted

\* No two pids are workers that the script started.
LoneWorker == \A p, q \in Ours : p = q

\* A command that is under way has told nothing yet; the one that stops a worker has
\* the only one that was there when it looked, and may signal it, unless it was mistaken.
CommandStands ==
    /\ cmd.pc # "idle" => told = "nothing"
    /\ cmd.pc = "stopping" =>
          /\ cmd.pid \in Pids
          /\ ~fooled => /\ Workers \subseteq {cmd.pid} \cup since
                        /\ cmd.pid \in Workers \ since => Answers(cmd.pid)

ReadsAreTrue == \A p \in Pids : MapIsTrue(reads[p])

\* A pid that is free is nobody's.
Owned == \A p \in Pids : proc[p] = "free" => owner[p] = "nobody"

HInv ==
    /\ RosterInv /\ TypeOK /\ Owned
    /\ LoneWorker /\ CommandStands /\ StoppedIsStopped
    /\ ReadsAreTrue /\ ServesWholeRoster

-----------------------------------------------------------------------------
(* The account and the script.                                             *)

LEMMA NamedFinite ==
    ASSUME NEW r PROVE IsFiniteSet(Named(r)) /\ Cardinality(Named(r)) \in Nat
  <1>1. Named(r) \in SUBSET Ids
    BY DEF Named
  <1> QED
    BY <1>1, RosterAssumption, FS_Subset, FS_CardinalityType

\* A creation adds one agent to one role.
LEMMA AgentAdded ==
    ASSUME RosterTypeOK, NEW i \in Ids, NEW r \in Roles, agents[i] = None,
           agents' = [agents EXCEPT ![i] = r]
    PROVE  /\ Named(r)' = Named(r) \cup {i}
           /\ Cardinality(Named(r)') = Cardinality(Named(r)) + 1
           /\ \A q \in Roles \ {r} : Named(q)' = Named(q)
           /\ \A q \in Roles : Named(q) \subseteq Named(q)'
           /\ agents' \in [Ids -> Roles \cup {None}]
  <1>1. agents \in [Ids -> Roles \cup {None}] /\ None \notin Roles
    BY RosterAssumption DEF RosterTypeOK
  <1>2. \A q \in Roles : i \notin Named(q)
    BY <1>1 DEF Named
  <1>3. Named(r)' = Named(r) \cup {i}
    BY <1>1 DEF Named
  <1>4. \A q \in Roles \ {r} : Named(q)' = Named(q)
    BY <1>1 DEF Named
  <1>5. Cardinality(Named(r)') = Cardinality(Named(r)) + 1
    BY <1>2, <1>3, NamedFinite, FS_AddElement
  <1> QED
    BY <1>1, <1>3, <1>4, <1>5

LEMMA InitRosterInv == RosterInit => RosterInv
  <1> SUFFICES ASSUME RosterInit PROVE RosterInv
    OBVIOUS
  <1> USE RosterAssumption DEF RosterInit
  <1>1. RosterTypeOK
    BY DEF RosterTypeOK, Maps, NoMap, NoRun
  <1>2. \A r \in Roles : Named(r) = {}
    BY DEF Named
  <1>3. \A r \in Roles : Cardinality(Named(r)) = 0
    BY <1>2, FS_EmptySet
  <1>4. RunStands /\ IdsAreTrue /\ GivenUp
    BY DEF RunStands, IdsAreTrue, MapIsTrue, GivenUp, NoMap, NoRun
  <1>5. CreationsCounted
    BY <1>3 DEF CreationsCounted, Expected, NoMap, NoRun
  <1> QED
    BY <1>1, <1>4, <1>5 DEF RosterInv

\* A step that creates no agent and gives up none leaves the counts alone.
LEMMA CountsKept ==
    ASSUME UNCHANGED <<agents, late, abandoned>>
    PROVE  /\ \A r : Named(r)' = Named(r)
           /\ \A r \in Roles : Expected(r)' = Expected(r)
  BY DEF Named, Expected

LEMMA ListAgentsInv == RosterInv /\ ListAgents => RosterInv'
  <1> SUFFICES ASSUME RosterInv, ListAgents PROVE RosterInv'
    OBVIOUS
  <1> USE RosterAssumption DEF RosterInv
  <1>1. PICK known \in [Roles -> Ids \cup {None}] :
          /\ \A r \in Roles : IF Named(r) = {} THEN known[r] = None ELSE known[r] \in Named(r)
          /\ prov' = [NoRun EXCEPT !.pc = "creating", !.ids = known]
    BY DEF ListAgents
  <1>2. /\ prov.pc = "idle" /\ runs < MaxRuns /\ runs' = runs + 1
        /\ UNCHANGED <<agents, late, abandoned, file>>
    BY DEF ListAgents
  <1>3. prov' = [pc |-> "creating", ids |-> known, role |-> None, answer |-> None]
    BY <1>1 DEF NoRun
  <1>4. RosterTypeOK'
    BY <1>2, <1>3 DEF RosterTypeOK, Maps
  <1>5. RunStands'
    BY <1>3 DEF RunStands
  <1>6. IdsAreTrue'
    BY <1>1, <1>2, <1>3, CountsKept DEF IdsAreTrue, MapIsTrue
  <1>7. GivenUp'
    BY <1>2, <1>3 DEF GivenUp, RosterTypeOK
  <1>8. CreationsCounted'
    <2> SUFFICES ASSUME NEW r \in Roles
                 PROVE  /\ Expected(r) <= 1 + abandoned[r]
                        /\ known[r] = None => Expected(r) <= abandoned[r]
      BY <1>2, <1>3, CountsKept DEF CreationsCounted
    <2>1. Expected(r) + 0 <= 1 + abandoned[r]
      BY <1>2 DEF CreationsCounted
    <2>2. late[r] \in Nat /\ abandoned[r] \in Nat /\ late[r] <= abandoned[r]
      BY DEF RosterTypeOK, GivenUp
    <2>3. known[r] = None => Cardinality(Named(r)) = 0
      BY <1>1, FS_EmptySet DEF Named
    <2> QED
      BY <2>1, <2>2, <2>3, NamedFinite DEF Expected
  <1> QED
    BY <1>4, <1>5, <1>6, <1>7, <1>8

\* The steps of a run that lists nothing and that no creation answers.
LEMMA RunStepInv ==
    ASSUME RosterInv, PostAgent \/ ReadsAnswer \/ Truncates \/ WritesFile PROVE RosterInv'
  <1> USE RosterAssumption DEF RosterInv
  <1>1. UNCHANGED <<agents, late, abandoned, runs>>
    BY DEF PostAgent, ReadsAnswer, Truncates, WritesFile
  <1>2. \A r \in Roles : Cardinality(Named(r)) \in Nat /\ late[r] \in Nat /\ abandoned[r] \in Nat
    BY NamedFinite DEF RosterTypeOK
  <1>3. \A r \in Roles : Expected(r) \in Nat
    BY <1>2 DEF Expected
  <1>4. CASE PostAgent
    <2>1. PICK r \in Roles : /\ prov.ids[r] = None
                             /\ prov' = [prov EXCEPT !.pc = "waiting", !.role = r]
      BY <1>4 DEF PostAgent
    <2>2. /\ prov.pc = "creating" /\ prov.role = None /\ file' = file
          /\ prov' = [prov EXCEPT !.pc = "waiting", !.role = r]
      BY <1>4, <2>1 DEF PostAgent, RunStands
    <2>3. RosterTypeOK' /\ RunStands' /\ GivenUp'
      BY <1>1, <2>2 DEF RosterTypeOK, RunStands, GivenUp
    <2>4. IdsAreTrue'
      BY <1>1, <2>2, CountsKept DEF IdsAreTrue, MapIsTrue, RosterTypeOK
    <2>5. CreationsCounted'
      BY <1>1, <1>2, <1>3, <2>1, <2>2, CountsKept DEF CreationsCounted, RosterTypeOK
    <2> QED
      BY <2>3, <2>4, <2>5
  <1>5. CASE ReadsAnswer
    <2> DEFINE r == prov.role
    <2>1. /\ prov.pc = "answered" /\ r \in Roles /\ prov.answer \in Named(r) /\ prov.answer \in Ids
          /\ file' = file
          /\ prov' = [pc |-> "creating", ids |-> [prov.ids EXCEPT ![r] = prov.answer],
                      role |-> None, answer |-> None]
      BY <1>5 DEF ReadsAnswer, RunStands, RosterTypeOK, Named
    <2>2. prov.ids \in [Roles -> Ids \cup {None}]
      BY DEF RosterTypeOK, Maps
    <2>3. RosterTypeOK' /\ RunStands' /\ GivenUp'
      BY <1>1, <2>1, <2>2 DEF RosterTypeOK, Maps, RunStands, GivenUp
    <2>4. IdsAreTrue'
      BY <1>1, <2>1, <2>2, CountsKept DEF IdsAreTrue, MapIsTrue
    <2>5. CreationsCounted'
      BY <1>1, <1>2, <1>3, <2>1, <2>2, CountsKept DEF CreationsCounted
    <2> QED
      BY <2>3, <2>4, <2>5
  <1>6. CASE Truncates
    <2>1. /\ prov.pc = "creating" /\ (\A r \in Roles : prov.ids[r] # None) /\ file' = NoMap
          /\ prov' = [prov EXCEPT !.pc = "writing"]
      BY <1>6 DEF Truncates
    <2>2. RosterTypeOK' /\ RunStands' /\ GivenUp'
      BY <1>1, <2>1 DEF RosterTypeOK, Maps, NoMap, RunStands, GivenUp
    <2>3. IdsAreTrue'
      BY <1>1, <2>1, CountsKept DEF IdsAreTrue, MapIsTrue, RosterTypeOK, NoMap
    <2>4. CreationsCounted'
      BY <1>1, <1>2, <1>3, <2>1, CountsKept DEF CreationsCounted, RosterTypeOK
    <2> QED
      BY <2>2, <2>3, <2>4
  <1>7. CASE WritesFile
    <2>1. /\ prov.pc = "writing" /\ file' = prov.ids
          /\ prov' = [pc |-> "idle", ids |-> NoMap, role |-> None, answer |-> None]
      BY <1>7 DEF WritesFile, NoRun
    <2>2. RosterTypeOK' /\ RunStands' /\ GivenUp'
      BY <1>1, <2>1 DEF RosterTypeOK, Maps, NoMap, RunStands, GivenUp
    <2>3. IdsAreTrue'
      BY <1>1, <2>1, CountsKept DEF IdsAreTrue, MapIsTrue, NoMap
    <2>4. CreationsCounted'
      BY <1>1, <1>2, <1>3, <2>1, CountsKept DEF CreationsCounted
    <2> QED
      BY <2>2, <2>3, <2>4
  <1> QED
    BY <1>4, <1>5, <1>6, <1>7

LEMMA EndsEarlyInv == RosterInv /\ EndsEarly => RosterInv'
  <1> SUFFICES ASSUME RosterInv, EndsEarly PROVE RosterInv'
    OBVIOUS
  <1> USE RosterAssumption DEF RosterInv
  <1>1. /\ prov.pc # "idle" /\ UNCHANGED <<agents, file, runs>>
        /\ prov' = [pc |-> "idle", ids |-> NoMap, role |-> None, answer |-> None]
    BY DEF EndsEarly, NoRun
  <1>2. \A r \in Roles : Cardinality(Named(r)) \in Nat /\ late[r] \in Nat /\ abandoned[r] \in Nat
    BY NamedFinite DEF RosterTypeOK
  <1>3. \A r : Named(r)' = Named(r)
    BY <1>1 DEF Named
  <1>4. RunStands' /\ IdsAreTrue'
    BY <1>1, <1>3 DEF RunStands, IdsAreTrue, MapIsTrue, NoMap
  <1>5. CASE UNCHANGED <<late, abandoned>>
    <2>1. RosterTypeOK' /\ GivenUp'
      BY <1>1, <1>2, <1>5 DEF RosterTypeOK, Maps, NoMap, GivenUp
    <2>2. CreationsCounted'
      BY <1>1, <1>2, <1>3, <1>5 DEF CreationsCounted, Expected
    <2> QED
      BY <1>4, <2>1, <2>2
  <1>6. CASE /\ prov.pc = "waiting"
             /\ late' = [late EXCEPT ![prov.role] = @ + 1]
             /\ abandoned' = [abandoned EXCEPT ![prov.role] = @ + 1]
    <2>1. prov.role \in Roles /\ runs \in Nat /\ runs <= MaxRuns
      BY <1>6 DEF RunStands, RosterTypeOK
    <2>2. \A r \in Roles : abandoned[r] + 1 <= runs /\ late[r] <= abandoned[r]
      BY <1>1 DEF GivenUp
    <2>3. GivenUp'
      BY <1>1, <1>2, <1>6, <2>1, <2>2 DEF GivenUp, RosterTypeOK
    <2>4. RosterTypeOK'
      <3>1. late' \in [Roles -> 0..MaxRuns] /\ abandoned' \in [Roles -> 0..MaxRuns]
        BY <1>2, <1>6, <2>1, <2>2 DEF RosterTypeOK
      <3> QED
        BY <1>1, <3>1 DEF RosterTypeOK, Maps, NoMap
    <2>5. CreationsCounted'
      BY <1>1, <1>2, <1>3, <1>6, <2>1 DEF CreationsCounted, Expected, RosterTypeOK
    <2> QED
      BY <1>4, <2>3, <2>4, <2>5
  <1> QED
    BY <1>5, <1>6 DEF EndsEarly

LEMMA AccountCreatesInv == RosterInv /\ AccountCreates => RosterInv'
  <1> SUFFICES ASSUME RosterInv, AccountCreates PROVE RosterInv'
    OBVIOUS
  <1> USE RosterAssumption DEF RosterInv
  <1>1. PICK i \in Ids, r \in Roles :
          /\ agents[i] = None /\ agents' = [agents EXCEPT ![i] = r]
          /\ \/ /\ prov.pc = "waiting" /\ prov.role = r
                /\ prov' = [prov EXCEPT !.pc = "answered", !.answer = i]
                /\ UNCHANGED late
             \/ late[r] > 0 /\ late' = [late EXCEPT ![r] = @ - 1] /\ UNCHANGED prov
    BY DEF AccountCreates
  <1>2. UNCHANGED <<abandoned, file, runs>>
    BY DEF AccountCreates
  <1>3. /\ Named(r)' = Named(r) \cup {i}
        /\ Cardinality(Named(r)') = Cardinality(Named(r)) + 1
        /\ \A q \in Roles \ {r} : Named(q)' = Named(q)
        /\ \A q \in Roles : Named(q) \subseteq Named(q)'
        /\ agents' \in [Ids -> Roles \cup {None}]
    BY <1>1, AgentAdded
  <1>4. \A q \in Roles : Cardinality(Named(q)) \in Nat /\ late[q] \in Nat /\ abandoned[q] \in Nat
    BY NamedFinite DEF RosterTypeOK
  <1>5. CASE prov.pc = "waiting" /\ prov.role = r /\ UNCHANGED late
             /\ prov' = [prov EXCEPT !.pc = "answered", !.answer = i]
    <2>1. RosterTypeOK' /\ GivenUp'
      BY <1>2, <1>3, <1>5 DEF RosterTypeOK, GivenUp
    <2>2. RunStands'
      BY <1>3, <1>5 DEF RunStands, RosterTypeOK
    <2>3. IdsAreTrue'
      BY <1>2, <1>3, <1>5 DEF IdsAreTrue, MapIsTrue, RosterTypeOK
    <2>4. \A q \in Roles : Expected(q)' = IF q = r THEN Expected(q) + 1 ELSE Expected(q)
      <3>1. Expected(r)' = Expected(r) + 1
        BY <1>3, <1>4, <1>5 DEF Expected
      <3>2. ASSUME NEW q \in Roles \ {r} PROVE Expected(q)' = Expected(q)
        BY <1>3, <1>5, <3>2 DEF Expected
      <3> QED
        BY <3>1, <3>2
    <2>5. \A q \in Roles : Expected(q) \in Nat
      BY <1>4 DEF Expected
    <2>6. CreationsCounted'
      BY <1>2, <1>4, <1>5, <2>4, <2>5 DEF CreationsCounted, RosterTypeOK
    <2> QED
      BY <2>1, <2>2, <2>3, <2>6
  <1>6. CASE late[r] > 0 /\ late' = [late EXCEPT ![r] = @ - 1] /\ UNCHANGED prov
    <2>1. late' \in [Roles -> 0..MaxRuns] /\ GivenUp'
      BY <1>2, <1>4, <1>6 DEF RosterTypeOK, GivenUp
    <2>2. RosterTypeOK'
      BY <1>2, <1>3, <1>6, <2>1 DEF RosterTypeOK
    <2>3. RunStands'
      BY <1>3, <1>6 DEF RunStands, RosterTypeOK
    <2>4. IdsAreTrue'
      BY <1>2, <1>3, <1>6 DEF IdsAreTrue, MapIsTrue
    <2>5. \A q \in Roles : Expected(q)' = Expected(q)
      <3>1. Expected(r)' = Expected(r)
        <4>1. late'[r] = late[r] - 1
          BY <1>6 DEF RosterTypeOK
        <4> QED
          BY <1>3, <1>4, <4>1 DEF Expected
      <3>2. ASSUME NEW q \in Roles \ {r} PROVE Expected(q)' = Expected(q)
        <4>1. late'[q] = late[q]
          BY <1>6, <3>2 DEF RosterTypeOK
        <4> QED
          BY <1>3, <3>2, <4>1 DEF Expected
      <3> QED
        BY <3>1, <3>2
    <2>6. CreationsCounted'
      BY <1>2, <1>6, <2>5 DEF CreationsCounted
    <2> QED
      BY <2>1, <2>2, <2>3, <2>4, <2>6
  <1> QED
    BY <1>1, <1>5, <1>6

LEMMA ProvisionInv == RosterInv /\ Provision => RosterInv'
  BY ListAgentsInv, RunStepInv, EndsEarlyInv, AccountCreatesInv DEF Provision

LEMMA RosterStutterInv == RosterInv /\ UNCHANGED rosterVars => RosterInv'
  BY DEF rosterVars, RosterInv, RosterTypeOK, RunStands, IdsAreTrue, MapIsTrue, GivenUp,
         CreationsCounted, Expected, Named

-----------------------------------------------------------------------------
(* The machine.                                                            *)

\* The part of the invariant that is about the host alone.
HostTyped ==
    /\ proc \in [Pids -> {"free"} \cup Others \cup Alive]
    /\ owner \in [Pids -> {"nobody", "script", "person", "another"}]
    /\ reads \in [Pids -> Maps]
    /\ pidfile \in Pids \cup {None}
    /\ cmd \in [pc : {"idle", "start_worker", "sleeping", "stopping"}, pid : Pids \cup {None}]
    /\ told \in {"nothing", "infrastructure failed", "already running", "started",
                 "failed to start", "not running", "stopped"}
    /\ fooled \in BOOLEAN /\ since \subseteq Pids
    /\ \A p \in Pids : proc[p] = "free" => owner[p] = "nobody"

LEMMA HostTypedIsTypeOK == TypeOK /\ Owned <=> RosterTypeOK /\ HostTyped
  BY DEF TypeOK, Owned, HostTyped

\* What the script relies on.
OneAtATime == LoneWorker /\ CommandStands /\ StoppedIsStopped

\* What the worker's agents rely on.
ReadsInv == ReadsAreTrue /\ ServesWholeRoster

LEMMA HInvParts == HInv <=> RosterInv /\ HostTyped /\ OneAtATime /\ ReadsInv
  BY HostTypedIsTypeOK DEF HInv, OneAtATime, ReadsInv, RosterInv

LEMMA InitHInv == Init => HInv
  <1> SUFFICES ASSUME Init PROVE HInv
    OBVIOUS
  <1>1. RosterInv
    BY InitRosterInv DEF Init
  <1>2. HostTyped
    BY DEF Init, HostTyped, Idle, NoMap, Maps
  <1>3. OneAtATime
    BY DEF Init, OneAtATime, LoneWorker, Ours, Workers, Alive, Starting, CommandStands,
           StoppedIsStopped, Idle
  <1>4. ReadsInv
    BY DEF Init, ReadsInv, ReadsAreTrue, MapIsTrue, ServesWholeRoster, NoMap
  <1> QED
    BY <1>1, <1>2, <1>3, <1>4, HInvParts

LEMMA Kinds ==
    /\ Alive = {"checking", "healing", "building", "serving", "draining"}
    /\ Others = {"other", "lookalike"}
  BY DEF Alive, Starting, Others

\* Agents are only added: a map that is true stays true.
LEMMA AgentsStay ==
    ASSUME RosterInv, Provision \/ UNCHANGED rosterVars
    PROVE  \A r \in Roles : Named(r) \subseteq Named(r)'
  <1>1. CASE agents' = agents
    BY <1>1 DEF Named
  <1>2. CASE AccountCreates
    BY <1>2, AgentAdded DEF AccountCreates, RosterInv
  <1> QED
    BY <1>1, <1>2
       DEF Provision, ListAgents, PostAgent, ReadsAnswer, Truncates, WritesFile, EndsEarly, rosterVars

\* What a step may do to the processes and to what the workers among them have read.
ProcessSteps ==
    /\ proc' \in [Pids -> {"free"} \cup Others \cup Alive]
    /\ owner' \in [Pids -> {"nobody", "script", "person", "another"}]
    /\ reads' \in [Pids -> Maps]
    /\ \A p \in Pids : proc'[p] = "free" => owner'[p] = "nobody"
    /\ \A p \in Pids : reads'[p] \in {reads[p], file, NoMap}
    /\ \A p \in Pids : proc'[p] \in {"serving", "draining"} =>
          \/ proc[p] \in {"serving", "draining"} /\ reads'[p] = reads[p]
          \/ reads'[p] = file /\ \A r \in Roles : file[r] # None

\* A step that starts no worker: those that are left are as they were.
NoneStarts ==
    /\ Workers' \subseteq Workers
    /\ \A p \in Workers' : owner'[p] = owner[p]

LEMMA Stays ==
    ASSUME HostTyped, UNCHANGED procVars
    PROVE  ProcessSteps /\ NoneStarts /\ Workers' = Workers /\ Ours' = Ours
  BY DEF procVars, HostTyped, ProcessSteps, NoneStarts, Workers, Ours

LEMMA ProcessGoesOn ==
    ASSUME HostTyped, NEW p \in Workers, NEW what \in Alive, GoesOn(p, what),
           what = "serving" => FALSE, what = "draining" => proc[p] \in {"serving", "draining"}
    PROVE  ProcessSteps /\ NoneStarts
  <1>1. /\ p \in Pids /\ UNCHANGED <<owner, reads>>
        /\ proc' = [proc EXCEPT ![p] = what]
    BY DEF GoesOn, Becomes, Workers
  <1>2. /\ proc' \in [Pids -> {"free"} \cup Others \cup Alive]
        /\ proc'[p] = what /\ \A q \in Pids \ {p} : proc'[q] = proc[q]
    BY <1>1 DEF HostTyped
  <1>3. ProcessSteps
    BY <1>1, <1>2, Kinds DEF ProcessSteps, HostTyped
  <1>4. NoneStarts
    BY <1>1, <1>2 DEF NoneStarts, Workers
  <1> QED
    BY <1>3, <1>4

LEMMA WorkerServes ==
    ASSUME RosterInv, HostTyped, NEW p \in Workers, Serves(p), \A r \in Roles : file[r] # None
    PROVE  ProcessSteps /\ NoneStarts
  <1>1. /\ p \in Pids /\ UNCHANGED owner
        /\ proc' = [proc EXCEPT ![p] = "serving"] /\ reads' = [reads EXCEPT ![p] = file]
    BY DEF Serves, Becomes, Workers
  <1>2. file \in Maps /\ "serving" \in Alive
    BY Kinds DEF RosterInv, RosterTypeOK
  <1>3. /\ proc' \in [Pids -> {"free"} \cup Others \cup Alive] /\ reads' \in [Pids -> Maps]
        /\ reads'[p] = file /\ \A q \in Pids \ {p} : proc'[q] = proc[q] /\ reads'[q] = reads[q]
    BY <1>1, <1>2 DEF HostTyped
  <1>4. ProcessSteps
    BY <1>1, <1>3 DEF ProcessSteps, HostTyped
  <1>5. NoneStarts
    BY <1>1, <1>3 DEF NoneStarts, Workers
  <1> QED
    BY <1>4, <1>5

LEMMA ProcessEnds ==
    ASSUME HostTyped, NEW p \in Pids, Ends(p)
    PROVE  ProcessSteps /\ NoneStarts /\ p \notin Workers'
  <1>1. /\ proc' = [proc EXCEPT ![p] = "free"] /\ owner' = [owner EXCEPT ![p] = "nobody"]
        /\ reads' = [reads EXCEPT ![p] = NoMap]
    BY DEF Ends, Becomes
  <1>2. "free" \notin Alive /\ NoMap \in Maps
    BY Kinds DEF Maps, NoMap
  <1>3. /\ proc' \in [Pids -> {"free"} \cup Others \cup Alive]
        /\ owner' \in [Pids -> {"nobody", "script", "person", "another"}]
        /\ reads' \in [Pids -> Maps]
        /\ proc'[p] = "free" /\ owner'[p] = "nobody" /\ reads'[p] = NoMap
        /\ \A q \in Pids \ {p} : /\ proc'[q] = proc[q] /\ owner'[q] = owner[q]
                                  /\ reads'[q] = reads[q]
    BY <1>1, <1>2 DEF HostTyped
  <1>4. ProcessSteps
    <2>1. \A q \in Pids : proc'[q] = "free" => owner'[q] = "nobody"
      BY <1>3 DEF HostTyped
    <2>2. \A q \in Pids : reads'[q] \in {reads[q], file, NoMap}
      BY <1>3
    <2>3. \A q \in Pids : proc'[q] \in {"serving", "draining"} =>
             proc[q] \in {"serving", "draining"} /\ reads'[q] = reads[q]
      BY <1>3
    <2> QED
      BY <1>3, <2>1, <2>2, <2>3 DEF ProcessSteps
  <1>5. NoneStarts /\ p \notin Workers'
    BY <1>2, <1>3 DEF NoneStarts, Workers
  <1> QED
    BY <1>4, <1>5

\* A process that starts: what it is, and whose.
LEMMA ProcessStarts ==
    ASSUME HostTyped, NEW p \in Pids, NEW what \in Others \cup {"checking"},
           NEW who \in {"script", "person", "another"}, Starts(p, what, who), UNCHANGED reads
    PROVE  /\ ProcessSteps
           /\ owner'[p] = who /\ \A q \in Pids \ {p} : owner'[q] = owner[q]
           /\ what \in Others => NoneStarts
           /\ what = "checking" => Workers' = Workers \cup {p}
  <1>1. /\ proc[p] = "free" /\ proc' = [proc EXCEPT ![p] = what]
        /\ owner' = [owner EXCEPT ![p] = who]
    BY DEF Starts, Becomes
  <1>2. what \in Others \cup Alive /\ Others \cap Alive = {} /\ "checking" \in Alive
    BY Kinds
  <1>3. /\ proc' \in [Pids -> {"free"} \cup Others \cup Alive]
        /\ owner' \in [Pids -> {"nobody", "script", "person", "another"}]
        /\ proc'[p] = what /\ owner'[p] = who
        /\ \A q \in Pids \ {p} : proc'[q] = proc[q] /\ owner'[q] = owner[q]
    BY <1>1, <1>2 DEF HostTyped
  <1>4. ProcessSteps
    BY <1>3, Kinds DEF ProcessSteps, HostTyped
  <1>5. what \in Others => NoneStarts
    BY <1>2, <1>3 DEF NoneStarts, Workers
  <1>6. what = "checking" => Workers' = Workers \cup {p}
    BY <1>2, <1>3 DEF Workers
  <1> QED
    BY <1>3, <1>4, <1>5, <1>6

LEMMA WorkerSteps ==
    ASSUME RosterInv, HostTyped, NEW p \in Pids, Worker(p)
    PROVE  ProcessSteps /\ NoneStarts
  <1>1. p \in Workers
    BY Kinds DEF Worker, ChecksServices, WaitsUntilHealthy, Builds, Drained, Crashes, StopsOutside,
                 Workers
  <1>2. ASSUME NEW what \in {"building", "healing"}, GoesOn(p, what)
        PROVE  ProcessSteps /\ NoneStarts
    BY <1>1, <1>2, Kinds, ProcessGoesOn
  <1>3. CASE StopsOutside(p)
    BY <1>1, <1>3, Kinds, ProcessGoesOn DEF StopsOutside
  <1>4. CASE Ends(p)
    BY <1>4, ProcessEnds
  <1>5. CASE (\A r \in Roles : file[r] # None) /\ Serves(p)
    BY <1>1, <1>5, WorkerServes
  <1> QED
    BY <1>2, <1>3, <1>4, <1>5
       DEF Worker, ChecksServices, WaitsUntilHealthy, Builds, Drained, Crashes

LEMMA OtherSteps ==
    ASSUME HostTyped, NEW p \in Pids, Other(p) PROVE ProcessSteps /\ NoneStarts
  <1>1. CASE Ends(p)
    BY <1>1, ProcessEnds
  <1>2. ASSUME NEW what \in Others, NEW who \in {"person", "another"}, Starts(p, what, who),
               UNCHANGED reads
        PROVE  ProcessSteps /\ NoneStarts
    BY <1>2, ProcessStarts
  <1> QED
    BY <1>1, <1>2 DEF Other

LEMMA TerminatedSteps ==
    ASSUME HostTyped, NEW p \in Pids, Terminated(p) PROVE ProcessSteps /\ NoneStarts
  <1>1. CASE Ends(p)
    BY <1>1, ProcessEnds
  <1>2. CASE proc[p] \in {"serving", "draining"} /\ GoesOn(p, "draining")
    <2>1. p \in Workers /\ "draining" \in Alive
      BY <1>2, Kinds DEF Workers
    <2> QED
      BY <1>2, <2>1, ProcessGoesOn
  <1>3. CASE UNCHANGED procVars
    BY <1>3, Stays
  <1> QED
    BY <1>1, <1>2, <1>3 DEF Terminated

\* Whatever processes do, they keep what the agents rely on.
LEMMA ReadsKept ==
    ASSUME RosterInv, HostTyped, ReadsInv, ProcessSteps,
           \A r \in Roles : Named(r) \subseteq Named(r)'
    PROVE  ReadsInv'
  <1>1. \A p \in Pids : MapIsTrue(reads[p])
    BY DEF ReadsInv, ReadsAreTrue
  <1>2. MapIsTrue(file) /\ MapIsTrue(NoMap)
    BY DEF RosterInv, IdsAreTrue, MapIsTrue, NoMap
  <1>3. \A p \in Pids : \A r \in Roles : reads'[p][r] \in Named(r)' \cup {None}
    BY <1>1, <1>2 DEF ProcessSteps, MapIsTrue
  <1>4. \A p \in Pids : proc'[p] \in {"serving", "draining"} =>
            \A r \in Roles : reads'[p][r] \in Named(r)'
    BY <1>2 DEF ProcessSteps, MapIsTrue, ReadsInv, ServesWholeRoster
  <1> QED
    BY <1>3, <1>4 DEF ReadsInv, ReadsAreTrue, MapIsTrue, ServesWholeRoster

LEMMA NobodyFound == HostTyped /\ None \in WorkerPid => Workers = {}
  <1> SUFFICES ASSUME HostTyped, None \in WorkerPid PROVE Scan = {}
    BY DEF Scan, Workers
  <1>1. Scan \subseteq Pids /\ None \notin Pids
    BY HostAssumption DEF Scan
  <1> QED
    BY <1>1 DEF WorkerPid

\* Whoever was found without a mistake is the only worker, and may be signalled.
LEMMA FoundIsWorker ==
    ASSUME HostTyped, OneAtATime, NEW p \in WorkerPid, p # None
    PROVE  p \in Pids /\ (~Mistaken(p) => Workers \subseteq {p} /\ Answers(p))
  <1>1. p \in Pids
    BY DEF WorkerPid, Scan, HostTyped
  <1>2. SUFFICES ASSUME ~Mistaken(p) PROVE Workers \subseteq {p} /\ Answers(p)
    BY <1>1
  <1>3. /\ proc[p] \notin Others /\ Answers(p)
        /\ \A q \in Workers \ Ours : Workers = {q}
    BY <1>2 DEF Mistaken
  <1>4. p \in Workers
    <2>1. proc[p] # "free"
      <3>1. CASE p \in Scan
        BY <3>1, Kinds DEF Scan
      <3>2. CASE p = pidfile
        BY <1>1, <1>3, <3>2 DEF Answers, HostTyped
      <3> QED
        BY <3>1, <3>2 DEF WorkerPid
    <2> QED
      BY <1>1, <1>3, <2>1 DEF HostTyped, Workers
  <1>5. CASE Workers \ Ours = {}
    <2>1. \A q \in Workers : q \in Ours
      BY <1>5
    <2> QED
      BY <1>3, <1>4, <2>1 DEF OneAtATime, LoneWorker
  <1>6. CASE Workers \ Ours # {}
    BY <1>3, <1>4, <1>6
  <1> QED
    BY <1>3, <1>5, <1>6

\* Workers that end, and none that starts, disturb nothing that the script relies on.
LEMMA FewerWorkers ==
    ASSUME OneAtATime, HostTyped, NoneStarts, UNCHANGED <<cmd, told, fooled, since>>
    PROVE  OneAtATime'
  <1>1. Ours' \subseteq Ours
    BY DEF NoneStarts, Ours
  <1>2. \A p \in Workers' : p \in Workers /\ (Answers(p)' <=> Answers(p))
    BY DEF NoneStarts, Answers
  <1>3. LoneWorker'
    BY <1>1 DEF OneAtATime, LoneWorker
  <1>4. CommandStands'
    BY <1>2 DEF OneAtATime, CommandStands, Answers
  <1>5. StoppedIsStopped'
    BY <1>2 DEF OneAtATime, StoppedIsStopped
  <1> QED
    BY <1>3, <1>4, <1>5 DEF OneAtATime

LEMMA OutsideSteps ==
    ASSUME HostTyped, OneAtATime, NEW p \in Pids, StartsOutside(p)
    PROVE  ProcessSteps /\ HostTyped' /\ OneAtATime'
  <1>1. PICK who \in {"person", "another"} : Starts(p, "checking", who)
    BY DEF StartsOutside
  <1>2. UNCHANGED <<reads, pidfile, cmd, told, fooled>> /\ since' = since \cup {p}
    BY DEF StartsOutside, scriptVars
  <1>3. /\ ProcessSteps /\ owner'[p] = who /\ \A q \in Pids \ {p} : owner'[q] = owner[q]
        /\ Workers' = Workers \cup {p}
    BY <1>1, <1>2, ProcessStarts
  <1>4. HostTyped'
    BY <1>2, <1>3 DEF HostTyped, ProcessSteps
  <1>5. Ours' \subseteq Ours
    BY <1>3 DEF Ours, Workers
  <1>6. LoneWorker'
    BY <1>5 DEF OneAtATime, LoneWorker
  <1>7. CommandStands'
    <2>1. \A q \in Workers' \ since' : q \in Workers \ since /\ owner'[q] = owner[q]
      BY <1>2, <1>3 DEF Workers
    <2> QED
      BY <1>2, <1>3, <2>1 DEF OneAtATime, CommandStands, Answers
  <1>8. StoppedIsStopped'
    BY <1>2, <1>3 DEF OneAtATime, StoppedIsStopped
  <1> QED
    BY <1>3, <1>4, <1>6, <1>7, <1>8 DEF OneAtATime

LEMMA ServicesInv ==
    ASSUME RosterInv, HostTyped, OneAtATime, Services
    PROVE  ProcessSteps /\ HostTyped' /\ OneAtATime'
  <1> USE DEF OneAtATime, LoneWorker, CommandStands, StoppedIsStopped
  <1>1. CASE StartInfra
    <2>1. ProcessSteps /\ Ours' = Ours /\ UNCHANGED <<procVars, pidfile>>
      BY <1>1, Stays DEF StartInfra
    <2>2. PICK pc \in {"idle", "start_worker"} :
            /\ cmd' = [pc |-> pc, pid |-> None]
            /\ told' \in {"nothing", "infrastructure failed"}
            /\ pc = "start_worker" => told' = "nothing"
      BY <1>1 DEF StartInfra, Tells, Idle
    <2>3. fooled' = FALSE /\ since' = {}
      BY <1>1 DEF StartInfra
    <2>4. HostTyped'
      BY <2>1, <2>2, <2>3 DEF HostTyped, procVars
    <2> QED
      BY <2>1, <2>2, <2>4
  <1>2. CASE StartWorker
    <2>1. PICK p \in WorkerPid :
            \/ p # None /\ Tells("already running") /\ UNCHANGED <<proc, owner>>
            \/ /\ p = None
               /\ \E q \in Pids : Starts(q, "checking", "script")
               /\ cmd' = [cmd EXCEPT !.pc = "sleeping"] /\ UNCHANGED told
      BY <1>2 DEF StartWorker
    <2>2. UNCHANGED <<reads, pidfile, fooled, since>> /\ cmd.pc = "start_worker" /\ told = "nothing"
      BY <1>2 DEF StartWorker
    <2>3. CASE Tells("already running") /\ UNCHANGED <<proc, owner>>
      <3>1. cmd' = [pc |-> "idle", pid |-> None] /\ told' = "already running"
        BY <2>3 DEF Tells, Idle
      <3>2. ProcessSteps /\ Ours' = Ours
        BY <2>2, <2>3, Stays DEF procVars
      <3>3. HostTyped'
        BY <2>2, <2>3, <3>1 DEF HostTyped
      <3> QED
        BY <3>1, <3>2, <3>3
    <2>4. ASSUME p = None, NEW q \in Pids, Starts(q, "checking", "script"),
                 cmd' = [cmd EXCEPT !.pc = "sleeping"], UNCHANGED told
          PROVE  ProcessSteps /\ HostTyped' /\ OneAtATime'
      <3>1. Workers = {}
        BY <2>4, NobodyFound
      <3>2. ProcessSteps /\ Workers' = {q}
        BY <2>2, <2>4, <3>1, ProcessStarts
      <3>3. Ours' \subseteq {q}
        BY <3>2 DEF Ours
      <3>4. HostTyped'
        BY <2>2, <2>4, <3>2 DEF HostTyped, ProcessSteps
      <3>5. cmd'.pc = "sleeping" /\ told' = "nothing"
        BY <2>2, <2>4 DEF HostTyped
      <3> QED
        BY <3>2, <3>3, <3>4, <3>5
    <2> QED
      BY <2>1, <2>3, <2>4
  <1>3. CASE NotesPid
    <2>1. ProcessSteps /\ Ours' = Ours /\ UNCHANGED <<procVars, fooled, since>>
      BY <1>3, Stays DEF NotesPid
    <2>2. cmd' = [pc |-> "idle", pid |-> None]
      BY <1>3 DEF NotesPid, Tells, Idle
    <2>3. pidfile' \in Pids \cup {None} /\ told' \in {"started", "failed to start"}
      BY <1>3 DEF NotesPid, Tells, Scan, HostTyped
    <2>4. HostTyped'
      BY <2>1, <2>2, <2>3 DEF HostTyped, procVars
    <2> QED
      BY <2>1, <2>2, <2>3, <2>4
  <1>4. CASE StopWorker
    <2>1. PICK p \in WorkerPid :
            /\ fooled' = Mistaken(p)
            /\ \/ /\ p = None
                  /\ pidfile' = None /\ Tells("not running")
                  /\ UNCHANGED procVars
               \/ /\ p # None
                  /\ Terminated(p)
                  /\ cmd' = [pc |-> "stopping", pid |-> p] /\ told' = "nothing"
                  /\ UNCHANGED pidfile
      BY <1>4 DEF StopWorker
    <2>2. fooled' \in BOOLEAN /\ since' = {}
      BY <1>4, <2>1 DEF StopWorker, Mistaken
    <2>3. CASE /\ p = None /\ pidfile' = None /\ Tells("not running")
               /\ UNCHANGED procVars
      <3>1. cmd' = [pc |-> "idle", pid |-> None] /\ told' = "not running"
        BY <2>3 DEF Tells, Idle
      <3>2. ProcessSteps /\ Workers' = {} /\ Ours' = Ours
        BY <2>3, NobodyFound, Stays
      <3>3. HostTyped'
        BY <2>2, <2>3, <3>1 DEF HostTyped, procVars
      <3> QED
        BY <3>1, <3>2, <3>3
    <2>4. CASE /\ p # None /\ Terminated(p)
               /\ cmd' = [pc |-> "stopping", pid |-> p] /\ told' = "nothing"
               /\ UNCHANGED pidfile
      <3>1. p \in Pids /\ (~fooled' => Workers \subseteq {p} /\ Answers(p))
        BY <2>1, <2>4, FoundIsWorker
      <3>2. ProcessSteps /\ NoneStarts
        BY <2>4, <3>1, TerminatedSteps
      <3>3. HostTyped'
        BY <2>2, <2>4, <3>1, <3>2 DEF HostTyped, ProcessSteps
      <3>4. LoneWorker'
        BY <3>2 DEF NoneStarts, Ours
      <3>5. ~fooled' => /\ Workers' \subseteq {p}
                        /\ p \in Workers' => Answers(p)'
        BY <3>1, <3>2 DEF NoneStarts, Answers
      <3>6. CommandStands'
        BY <2>4, <3>1, <3>5 DEF Answers
      <3> QED
        BY <2>4, <3>2, <3>3, <3>4, <3>6
    <2> QED
      BY <2>1, <2>3, <2>4
  <1>5. CASE StopsForGood
    <2>1. /\ cmd.pc = "stopping" /\ cmd.pid \in Pids
          /\ ~fooled => /\ Workers \subseteq {cmd.pid} \cup since
                        /\ cmd.pid \in Workers \ since => Answers(cmd.pid)
          /\ pidfile' = None /\ cmd' = [pc |-> "idle", pid |-> None] /\ told' = "stopped"
          /\ UNCHANGED <<fooled, since>>
      BY <1>5 DEF StopsForGood, Tells, Idle
    <2>2. /\ ProcessSteps /\ NoneStarts
          /\ ~fooled => Workers' \subseteq since
      <3>1. CASE ~Answers(cmd.pid) /\ UNCHANGED procVars
        BY <2>1, <3>1, Stays
      <3>2. CASE Ends(cmd.pid)
        <4>1. ProcessSteps /\ NoneStarts /\ cmd.pid \notin Workers'
          BY <2>1, <3>2, ProcessEnds
        <4> QED
          BY <2>1, <4>1 DEF NoneStarts
      <3> QED
        BY <1>5, <3>1, <3>2 DEF StopsForGood
    <2>3. HostTyped'
      BY <2>1, <2>2 DEF HostTyped, ProcessSteps
    <2>4. LoneWorker'
      BY <2>2 DEF NoneStarts, Ours
    <2> QED
      BY <2>1, <2>2, <2>3, <2>4
  <1>6. CASE Interrupted
    <2>1. ProcessSteps /\ Ours' = Ours /\ UNCHANGED <<procVars, pidfile, fooled, since>>
      BY <1>6, Stays DEF Interrupted
    <2>2. cmd' = [pc |-> "idle", pid |-> None] /\ told' = "nothing"
      BY <1>6 DEF Interrupted, Tells, Idle
    <2>3. HostTyped'
      BY <2>1, <2>2 DEF HostTyped, procVars
    <2> QED
      BY <2>1, <2>2, <2>3
  <1> QED
    BY <1>1, <1>2, <1>3, <1>4, <1>5, <1>6 DEF Services

LEMMA NextHInv == HInv /\ [Next]_vars => HInv'
  <1> SUFFICES ASSUME RosterInv, HostTyped, OneAtATime, ReadsInv, [Next]_vars
               PROVE  RosterInv' /\ HostTyped' /\ OneAtATime' /\ ReadsInv'
    <2>1. HInv' <=> RosterInv' /\ HostTyped' /\ OneAtATime' /\ ReadsInv'
      BY HInvParts, PTL
    <2> QED
      BY <2>1, HInvParts
  <1>1. RosterInv' /\ (Provision \/ UNCHANGED rosterVars)
    BY ProvisionInv, RosterStutterInv DEF Next, vars
  <1>2. \A r \in Roles : Named(r) \subseteq Named(r)'
    BY <1>1, AgentsStay
  <1>3. CASE UNCHANGED hostVars
    <2>1. ProcessSteps /\ NoneStarts /\ HostTyped'
      BY <1>3, Stays DEF hostVars, procVars, scriptVars, HostTyped
    <2>2. OneAtATime'
      BY <1>3, <2>1, FewerWorkers DEF hostVars, scriptVars
    <2> QED
      BY <1>1, <1>2, <2>1, <2>2, ReadsKept
  <1>4. ASSUME NEW p \in Pids, Worker(p) \/ Other(p)
        PROVE  HostTyped' /\ OneAtATime' /\ ReadsInv'
    <2>1. ProcessSteps /\ NoneStarts
      BY <1>4, WorkerSteps, OtherSteps
    <2>2. UNCHANGED <<scriptVars, since>>
      BY <1>4 DEF Worker, Other
    <2>3. HostTyped'
      BY <2>1, <2>2 DEF HostTyped, ProcessSteps, scriptVars
    <2>4. OneAtATime'
      BY <2>1, <2>2, FewerWorkers DEF scriptVars
    <2> QED
      BY <1>2, <2>1, <2>3, <2>4, ReadsKept
  <1>5. ASSUME NEW p \in Pids, StartsOutside(p)
        PROVE  HostTyped' /\ OneAtATime' /\ ReadsInv'
    <2>1. ProcessSteps /\ HostTyped' /\ OneAtATime'
      BY <1>5, OutsideSteps
    <2> QED
      BY <1>2, <2>1, ReadsKept
  <1>6. CASE Services
    <2>1. ProcessSteps /\ HostTyped' /\ OneAtATime'
      BY <1>6, ServicesInv
    <2>2. ReadsInv'
      BY <1>2, <2>1, ReadsKept
    <2> QED
      BY <1>1, <2>1, <2>2
  <1> QED
    BY <1>1, <1>3, <1>4, <1>5, <1>6 DEF Next, vars

LEMMA AlwaysHInv == Spec => []HInv
  BY InitHInv, NextHInv, PTL DEF Spec

\* The machine's and the account's state always has its type; no agent is given up
\* more often than there are runs.
THEOREM HostTypesHold == Spec => []TypeOK
  <1>1. HInv => TypeOK
    BY DEF HInv
  <1> QED
    BY <1>1, AlwaysHInv, PTL

\* The script never runs two workers of its own (services.sh start_worker), however
\* often it is interrupted, whoever gets the pids of workers that died, and whatever
\* workers are started outside it.
THEOREM NeverTwoWorkers == Spec => []OneWorker
  <1>1. HInv => OneWorker
    <2> SUFFICES ASSUME HInv PROVE Cardinality(Ours) <= 1
      BY DEF OneWorker
    <2>1. CASE Ours = {}
      BY <2>1, FS_EmptySet
    <2>2. CASE Ours # {}
      <3>1. PICK p : Ours = {p}
        BY <2>2 DEF HInv, LoneWorker
      <3>2. Cardinality({p}) = 1
        BY FS_Singleton
      <3> QED
        BY <3>1, <3>2
    <2> QED
      BY <2>1, <2>2
  <1> QED
    BY <1>1, AlwaysHInv, PTL

\* What stop says is true of every worker until the next is started, by the script or
\* outside it, unless stop took a wrong process for the only worker (services.sh
\* stop_worker, worker_pid).
THEOREM StopIsTrue == Spec => []StoppedIsStopped
  <1>1. HInv => StoppedIsStopped
    BY DEF HInv
  <1> QED
    BY <1>1, AlwaysHInv, PTL

\* A serving worker has its own agent for each role (worker.py _build_agents,
\* lyzr_provision.py), whatever was cut off.
THEOREM WholeRosterServed == Spec => []ServesWholeRoster
  <1>1. HInv => ServesWholeRoster
    BY DEF HInv
  <1> QED
    BY <1>1, AlwaysHInv, PTL

\* The script creates an agent twice only for a creation that it gave up while it was
\* under way (lyzr_provision.py main), for any roster and number of runs.
THEOREM NothingCreatedTwice == Spec => []CreatedOnce
  <1>1. HInv => CreatedOnce
    <2> SUFFICES ASSUME HInv, NEW r \in Roles PROVE Cardinality(Named(r)) <= 1 + abandoned[r]
      BY DEF CreatedOnce
    <2>1. Expected(r) + (IF prov.pc = "waiting" /\ prov.role = r THEN 1 ELSE 0) <= 1 + abandoned[r]
      BY DEF HInv, RosterInv, CreationsCounted
    <2>2. late[r] \in Nat /\ abandoned[r] \in Nat /\ Cardinality(Named(r)) \in Nat
      BY NamedFinite DEF HInv, RosterInv, RosterTypeOK
    <2> QED
      BY <2>1, <2>2 DEF Expected
  <1> QED
    BY <1>1, AlwaysHInv, PTL
=============================================================================
