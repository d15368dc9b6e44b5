----------------------------- MODULE WorkerHost -----------------------------
(***************************************************************************)
(* The machine a worker runs on: scripts/services.sh, which starts and     *)
(* stops it by a pid file and a scan of the processes, the worker's own    *)
(* start and end (entrypoints/worker.py, infrastructure/docker.py), and    *)
(* the provisioning script whose file it reads.  One person gives one      *)
(* command of services.sh at a time and may interrupt it, and workers are  *)
(* started beside it, with `make worker' or in the app's container, which  *)
(* is another user's.  Docker and its services come and go: a probe may    *)
(* find them up or down.                                                   *)
(***************************************************************************)
EXTENDS AgentRoster

CONSTANTS
    Pids,       \* process ids, given out again once they are free
    AutoStart   \* infrastructure.auto_start

ASSUME HostAssumption == IsFiniteSet(Pids) /\ None \notin Pids /\ AutoStart \in BOOLEAN

VARIABLES
    proc,     \* proc[p]: what process p is and does
    owner,    \* owner[p]: who started it: the script, the person, another user
    reads,    \* reads[p]: the ids that worker p built its agents with
    pidfile,  \* .run/worker.pid
    cmd,      \* the command of services.sh: where it stands, the worker it found
    told,     \* what the last command told the person
    fooled,   \* the command is a stop and was mistaken in the worker it found
    since     \* workers started outside the script since the command was given

procVars   == <<proc, owner, reads>>
scriptVars == <<pidfile, cmd, told, fooled>>
hostVars   == <<procVars, scriptVars, since>>
vars       == <<rosterVars, hostVars>>

\* A worker that has not started yet dies of SIGTERM; one that serves drains.
Starting == {"checking", "healing", "building"}
Alive    == Starting \cup {"serving", "draining"}
Workers  == {p \in Pids : proc[p] \in Alive}
Ours     == {p \in Workers : owner[p] = "script"}

\* Other processes; a lookalike has the path of worker.py in its command line, which
\* the dots of the scan's pattern match.
Others == {"other", "lookalike"}
Scan   == {p \in Pids : proc[p] \in Alive \cup {"lookalike"}}

\* kill -0: a process that one may signal.
Answers(p) == owner[p] \in {"script", "person"}

Idle == [pc |-> "idle", pid |-> None]

Init ==
    /\ RosterInit
    /\ proc = [p \in Pids |-> "free"]
    /\ owner = [p \in Pids |-> "nobody"]
    /\ reads = [p \in Pids |-> NoMap]
    /\ pidfile = None
    /\ cmd = Idle
    /\ told = "nothing"
    /\ fooled = FALSE
    /\ since = {}

-----------------------------------------------------------------------------
(* The worker.                                                             *)

Becomes(p, what) == proc' = [proc EXCEPT ![p] = what]
Starts(p, what, who) ==
    proc[p] = "free" /\ Becomes(p, what) /\ owner' = [owner EXCEPT ![p] = who]
GoesOn(p, what) == Becomes(p, what) /\ UNCHANGED <<owner, reads>>
Ends(p) ==
    /\ Becomes(p, "free") /\ owner' = [owner EXCEPT ![p] = "nobody"]
    /\ reads' = [reads EXCEPT ![p] = NoMap]

\* ensure_infrastructure: go on, fail, or bring the containers up.
ChecksServices(p) ==
    /\ proc[p] = "checking"
    /\ GoesOn(p, "building") \/ Ends(p) \/ (AutoStart /\ GoesOn(p, "healing"))

\* wait_until_healthy: go on, or give up at the deadline.
WaitsUntilHealthy(p) ==
    /\ proc[p] = "healing"
    /\ GoesOn(p, "building") \/ Ends(p)

Serves(p) ==
    Becomes(p, "serving") /\ reads' = [reads EXCEPT ![p] = file] /\ UNCHANGED owner

\* Fault: a role without an id is built nonetheless.
BuildsWhatItFinds(p) ==
    /\ proc[p] = "building"
    /\ Serves(p) \/ Ends(p)

\* _build_agents, with the Lyzr provider, needs an id for every role; then Temporal
\* must be there.
Builds(p) ==
    /\ proc[p] = "building"
    /\ \/ (\A r \in Roles : file[r] # None) /\ Serves(p)
       \/ Ends(p)

\* The activities under way are done, the telemetry is flushed.
Drained(p) == proc[p] = "draining" /\ Ends(p)

Crashes(p) == proc[p] \in Alive /\ Ends(p)

\* Ctrl-C in the terminal of `make worker', docker compose stop.
StopsOutside(p) ==
    proc[p] = "serving" /\ owner[p] \in {"person", "another"} /\ GoesOn(p, "draining")

Worker(p) ==
    /\ \/ ChecksServices(p) \/ WaitsUntilHealthy(p) \/ Builds(p) \/ Drained(p) \/ Crashes(p)
       \/ StopsOutside(p)
    /\ UNCHANGED <<scriptVars, since>>

\* make worker, or the worker of the app's container, which Docker also restarts.
StartsOutside(p) ==
    /\ \E who \in {"person", "another"} : Starts(p, "checking", who)
    /\ since' = since \cup {p}
    /\ UNCHANGED <<reads, scriptVars>>

\* Other processes come and go, and take over pids.
Other(p) ==
    /\ \/ /\ \E what \in Others, who \in {"person", "another"} : Starts(p, what, who)
          /\ UNCHANGED reads
       \/ proc[p] \in Others /\ Ends(p)
    /\ UNCHANGED <<scriptVars, since>>

\* SIGTERM: other processes may ignore it; another user's do not get it.
Terminated(p) ==
    \/ Answers(p) /\ proc[p] \in Starting \cup Others /\ Ends(p)
    \/ Answers(p) /\ proc[p] \in {"serving", "draining"} /\ GoesOn(p, "draining")
    \/ (proc[p] \in Others \/ ~Answers(p)) /\ UNCHANGED procVars

-----------------------------------------------------------------------------
(* services.sh.                                                            *)

\* Fault: without a live pid in its file there is no worker.
PidFromFile == IF pidfile # None /\ Answers(pidfile) THEN {pidfile} ELSE {None}

\* worker_pid: any process that answers to the pid in the file, else what the scan
\* finds, as for a worker started outside the script.
WorkerPid ==
    IF pidfile # None /\ Answers(pidfile) THEN {pidfile}
    ELSE IF Scan # {} THEN Scan ELSE {None}

\* p was taken for the worker and is none, is one that nobody here may signal, or a
\* worker from outside the script runs beside another.
Mistaken(p) ==
    /\ p # None
    /\ \/ proc[p] \in Others
       \/ ~Answers(p)
       \/ \E q \in Workers \ Ours : Workers # {q}
Tells(what) == cmd' = Idle /\ told' = what

\* start: start_infra, which may fail, and then start_worker; or start-worker alone.
StartInfra ==
    /\ cmd.pc = "idle"
    /\ \/ cmd' = [Idle EXCEPT !.pc = "start_worker"] /\ told' = "nothing"
       \/ Tells("infrastructure failed")
    /\ fooled' = FALSE /\ since' = {}
    /\ UNCHANGED <<procVars, pidfile>>

\* start_worker, up to its sleep.
StartWorker ==
    /\ cmd.pc = "start_worker"
    /\ \E p \in WorkerPid :
          \/ p # None /\ Tells("already running") /\ UNCHANGED <<proc, owner>>
          \/ /\ p = None
             /\ \E q \in Pids : Starts(q, "checking", "script")
             /\ cmd' = [cmd EXCEPT !.pc = "sleeping"] /\ UNCHANGED told
    /\ UNCHANGED <<reads, pidfile, fooled, since>>

\* After three seconds, pgrep again.
NotesPid ==
    /\ cmd.pc = "sleeping"
    /\ \/ \E p \in Scan : pidfile' = p /\ Tells("started")
       \/ Scan = {} /\ Tells("failed to start") /\ UNCHANGED pidfile
    /\ UNCHANGED <<procVars, fooled, since>>

\* stop_worker, up to SIGTERM.
StopWorker ==
    /\ cmd.pc = "idle"
    /\ since' = {}
    /\ \E p \in WorkerPid :
          /\ fooled' = Mistaken(p)
          /\ \/ /\ p = None
                /\ pidfile' = None /\ Tells("not running")
                /\ UNCHANGED procVars
             \/ /\ p # None
                /\ Terminated(p)
                /\ cmd' = [pc |-> "stopping", pid |-> p] /\ told' = "nothing"
                /\ UNCHANGED pidfile

\* Fault: there is no SIGKILL.
StopsGently ==
    /\ cmd.pc = "stopping"
    /\ pidfile' = None /\ Tells("stopped")
    /\ UNCHANGED <<procVars, fooled, since>>

\* It no longer answers within five seconds, or is killed, whatever has its pid by now.
StopsForGood ==
    /\ cmd.pc = "stopping"
    /\ \/ ~Answers(cmd.pid) /\ UNCHANGED procVars
       \/ Answers(cmd.pid) /\ Ends(cmd.pid)
    /\ pidfile' = None /\ Tells("stopped")
    /\ UNCHANGED <<fooled, since>>

\* Ctrl-C, between any two steps; the worker has a session of its own.
Interrupted ==
    /\ cmd.pc # "idle"
    /\ Tells("nothing")
    /\ UNCHANGED <<procVars, pidfile, fooled, since>>

Services == StartInfra \/ StartWorker \/ NotesPid \/ StopWorker \/ StopsForGood \/ Interrupted

Next ==
    \/ Provision /\ UNCHANGED hostVars
    \/ ((\E p \in Pids : Worker(p) \/ StartsOutside(p) \/ Other(p)) \/ Services) /\ UNCHANGED rosterVars

Spec == Init /\ [][Next]_vars

-----------------------------------------------------------------------------
(* Properties                                                              *)

\* The types of the variables.
TypeOK ==
    /\ RosterTypeOK
    /\ proc \in [Pids -> {"free"} \cup Others \cup Alive]
    /\ owner \in [Pids -> {"nobody", "script", "person", "another"}]
    /\ reads \in [Pids -> Maps]
    /\ pidfile \in Pids \cup {None}
    /\ cmd \in [pc : {"idle", "start_worker", "sleeping", "stopping"}, pid : Pids \cup {None}]
    /\ told \in {"nothing", "infrastructure failed", "already running", "started",
                 "failed to start", "not running", "stopped"}
    /\ fooled \in BOOLEAN /\ since \subseteq Pids

\* The script never runs two workers, although it may be interrupted before it has
\* noted a pid, or notes that of a worker started outside; workers die without a word
\* and their pids are given out again.
OneWorker == Cardinality(Ours) <= 1

\* "Worker stopped." and "Worker is not running." are true of all workers, those that
\* were started outside the script included, until the next is started; unless stop
\* was mistaken.  It is when it takes a process for the worker that got the pid in the
\* file or looks like one to the scan, when the worker is another user's, and when a
\* worker from outside runs beside another: then it stops one of them.
StoppedIsStopped ==
    told \in {"stopped", "not running"} /\ ~fooled => Workers \subseteq since

\* A worker that serves has an agent of its own for every role, and of that name,
\* although the file it read may be cut off by a run that ended while writing it.
ServesWholeRoster ==
    \A p \in Pids : proc[p] \in {"serving", "draining"} =>
        \A r \in Roles : reads[p][r] \in Named(r)
=============================================================================
