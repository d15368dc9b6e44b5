------------------------------ MODULE Settings ------------------------------
(***************************************************************************)
(* How a process of the application comes by its settings.  A person       *)
(* exports variables in a shell and keeps a .env file; a process is        *)
(* started by services.sh, which sources .env over what is exported, or    *)
(* directly, and then load_dotenv fills in only what is not there.         *)
(* load_settings puts the environment over the YAML file that it names, or *)
(* the directory has, over the models' defaults, and validates the result  *)
(* once, for the life of the process.                                      *)
(***************************************************************************)
EXTENDS Naturals, Sequences

CONSTANTS
    EnvOverrides,  \* _ENV_OVERRIDES in its order: [var, field]
    Kind,       \* the type of each field: "str", "bool" or "enum"
    Options,    \* the values of an enum's field
    Defaults,   \* the models' defaults
    Dirs,       \* directories that processes are started in, "root" is the repository's
    Disks,      \* disks: what each directory's paths name, and in each of these files for
                \* each field [from |-> "nothing" | "value" | "var", is]
    Shells,     \* what a person may have exported
    DotEnvs,    \* what .env may hold
    Absent      \* a variable that is not set, a field that no layer gives

Fields == DOMAIN Defaults
Vars   == {EnvOverrides[i].var : i \in DOMAIN EnvOverrides} \cup {"APP_CONFIG_FILE"}

True  == "<true>"
False == "<false>"
TrueWords  == {"1", "true", "yes", "on"}
FalseWords == {"0", "false", "no", "off"}

\* _coerce: words for truth become booleans, whatever the field.
Coerce(raw) == IF raw \in TrueWords THEN True ELSE IF raw \in FalseWords THEN False ELSE raw

\* pydantic reads words as booleans where a field is one.
Parsed(f, x) == IF Kind[f] = "bool" THEN Coerce(x) ELSE x

\* Every ${VAR} of the config files is a variable of the table; a default is a value of its
\* field's type already.
ASSUME SettingsAssumption ==
    /\ EnvOverrides \in Seq([var : STRING, field : Fields])
    /\ DOMAIN Kind = Fields /\ \A f \in Fields : Kind[f] = "enum" => f \in DOMAIN Options
    /\ \A e \in Shells \cup DotEnvs : DOMAIN e = Vars
    /\ "root" \in Dirs
    /\ \A d \in Disks : \A dir \in Dirs : \A path \in DOMAIN d[dir] : \A f \in Fields :
          d[dir][path][f].from = "var" => d[dir][path][f].is \in Vars
    /\ \A f \in Fields : Parsed(f, Defaults[f]) = Defaults[f]
    /\ Absent \notin {True, False, "localhost:7233"}

VARIABLES
    shell,   \* the exported variables
    dotenv,  \* the .env file
    disk,    \* the config files
    proc,    \* proc[p]: whether process p runs, and the settings it loaded
    via,     \* via[p]: how it was started, and where
    edited   \* edited[p]: shell, .env or config files changed since

settingsVars == <<shell, dotenv, disk, proc, via, edited>>

Processes == {"worker", "order"}

-----------------------------------------------------------------------------

\* Fault: .env is not loaded.
IgnoresDotEnv(exported, file) == exported

\* load_dotenv(override=False): an exported variable stays, an empty one too.
LoadDotEnv(exported, file) ==
    [v \in Vars |-> IF exported[v] # Absent THEN exported[v] ELSE file[v]]

\* services.sh: `set -a; source .env`, then a default of its own in the place of an empty
\* address; load_dotenv finds everything there.
Defaulted(v, x) == IF v = "TEMPORAL_ADDRESS" /\ x = "" THEN "localhost:7233" ELSE x
Sourced(exported, file) ==
    LoadDotEnv([v \in Vars |-> Defaulted(v, IF file[v] # Absent THEN file[v] ELSE exported[v])], file)

\* _default_config_path: the first that is a file, seen from the working directory.
NoFile == [f \in Fields |-> [from |-> "nothing"]]
FirstFile(paths, there) ==
    LET found == {i \in DOMAIN paths : paths[i] \in DOMAIN there}
    IN  IF found = {} THEN NoFile ELSE there[paths[CHOOSE i \in found : \A j \in found : i <= j]]
DefaultConfig(environ, there) ==
    FirstFile(<<environ["APP_CONFIG_FILE"], "config/config.yaml", "config/config.example.yaml">>, there)

\* _interpolate: an unset variable is the empty string.
Interpolate(entry, environ) ==
    CASE entry.from = "nothing" -> Absent
      [] entry.from = "value"   -> entry.is
      [] entry.from = "var"     -> IF environ[entry.is] = Absent THEN "" ELSE environ[entry.is]

\* Fault: a variable that is set to nothing overrides as well.
AppliesEmpty(tree, environ, o) ==
    IF environ[o.var] # Absent THEN [tree EXCEPT ![o.field] = Coerce(environ[o.var])] ELSE tree

\* A row of the table puts its variable over what an earlier row or the file gave.
Override(tree, environ, o) ==
    IF environ[o.var] \notin {Absent, ""}
    THEN [tree EXCEPT ![o.field] = Coerce(environ[o.var])]
    ELSE tree

\* _apply_env_overrides: one row after the other, in the table's order.
ApplyEnvOverrides(tree, environ) ==
    LET after[i \in 0..Len(EnvOverrides)] ==
            IF i = 0 THEN tree ELSE Override(after[i - 1], environ, EnvOverrides[i])
    IN  after[Len(EnvOverrides)]

\* A model takes a field's value: pydantic takes a word for a boolean, and none for a string.
Parses(f, x) == CASE Kind[f] = "str"  -> x \notin {True, False}
                  [] Kind[f] = "bool" -> x \in {True, False} \cup TrueWords \cup FalseWords
                  [] Kind[f] = "enum" -> x \in Options[f]

\* The validators: temporal.mode=cloud requires its credentials, here the key alone.
CloudIsComplete(s) == s["temporal.mode"] = "cloud" => s["temporal.cloud.api_key"] # ""

\* AppSettings.model_validate: the settings, or Absent if something is invalid.
ModelValidate(tree) ==
    LET given == {f \in Fields : tree[f] # Absent}
        s     == [f \in Fields |-> IF f \in given THEN Parsed(f, tree[f]) ELSE Defaults[f]]
    IN  IF (\A f \in given : Parses(f, tree[f])) /\ CloudIsComplete(s) THEN s ELSE Absent

LoadSettings(environ, there) ==
    LET yaml == DefaultConfig(environ, there)
    IN  ModelValidate(ApplyEnvOverrides([f \in Fields |-> Interpolate(yaml[f], environ)], environ))

\* build_llm: what the providers require.
BuildsLlm(s, agent) ==
    /\ s["llm.provider"] \in {"openai", "lyzr"} => s["llm.api_key"] # ""
    /\ s["llm.provider"] = "lyzr" => agent # ""

\* run_worker: some graph is enabled and its models can be built; those of the order's
\* roles have their agents from a file.
RunsWorker(s) ==
    /\ True \in {s["langgraph.enabled"], s["multi_agent.enabled"]}
    /\ s["langgraph.enabled"] = True => BuildsLlm(s, s["llm.lyzr_agent_id"])
    /\ s["multi_agent.enabled"] = True => BuildsLlm(s, "provisioned")

\* What a process asks of its settings before it goes on.
Accepts(p, s) ==
    /\ s # Absent
    /\ p = "worker" => RunsWorker(s)
    /\ p = "order"  => s["multi_agent.enabled"] = True

Down    == [at |-> "down", settings |-> Absent]
Nowhere == [how |-> "none", dir |-> "root"]

SettingsInit ==
    /\ shell \in Shells /\ dotenv \in DotEnvs /\ disk \in Disks
    /\ proc = [p \in Processes |-> Down]
    /\ via = [p \in Processes |-> Nowhere]
    /\ edited = [p \in Processes |-> FALSE]

Starts(p, how, dir, environ) ==
    LET s == LoadSettings(environ, disk[dir]) IN
    /\ proc[p].at # "up"
    /\ proc' = [proc EXCEPT ![p] =
                  IF Accepts(p, s) THEN [at |-> "up", settings |-> s] ELSE [Down EXCEPT !.at = "refused"]]
    /\ via' = [via EXCEPT ![p] = [how |-> how, dir |-> dir]]
    /\ edited' = [edited EXCEPT ![p] = FALSE]
    /\ UNCHANGED <<shell, dotenv, disk>>

\* services.sh starts workers, in the repository; whatever runs may also be started by its
\* module's name, wherever one is.
StartByScript == Starts("worker", "script", "root", Sourced(shell, dotenv))
StartDirectly(p) == \E dir \in Dirs : Starts(p, "direct", dir, LoadDotEnv(shell, dotenv))

Stop(p) ==
    /\ proc[p].at = "up"
    /\ proc' = [proc EXCEPT ![p] = Down]
    /\ via' = [via EXCEPT ![p] = Nowhere]
    /\ edited' = [edited EXCEPT ![p] = FALSE]
    /\ UNCHANGED <<shell, dotenv, disk>>

\* The person exports something else, or edits a file; running processes do not notice.
Edit ==
    /\ \/ shell' \in Shells \ {shell} /\ UNCHANGED <<dotenv, disk>>
       \/ dotenv' \in DotEnvs \ {dotenv} /\ UNCHANGED <<shell, disk>>
       \/ disk' \in Disks \ {disk} /\ UNCHANGED <<shell, dotenv>>
    /\ edited' = [p \in Processes |-> proc[p].at = "up"]
    /\ UNCHANGED <<proc, via>>

SettingsNext == Edit \/ StartByScript \/ \E p \in Processes : StartDirectly(p) \/ Stop(p)

SettingsSpec == SettingsInit /\ [][SettingsNext]_settingsVars

-----------------------------------------------------------------------------

\* What stands in the environment of a process and the config file it reads, the way it
\* was started.
Environ(p) ==
    IF via[p].how = "script"
    THEN [v \in Vars |-> Defaulted(v, IF dotenv[v] # Absent THEN dotenv[v] ELSE shell[v])]
    ELSE [v \in Vars |-> IF shell[v] # Absent THEN shell[v] ELSE dotenv[v]]
FileOf(p) == DefaultConfig(Environ(p), disk[via[p].dir])

\* The rows of the table that give field f a value.
Rows(f, environ) ==
    {i \in DOMAIN EnvOverrides :
        EnvOverrides[i].field = f /\ environ[EnvOverrides[i].var] \notin {Absent, ""}}

\* The documented precedence (loader.py:3), and the last row where several name a field.
Documented(f, environ, yaml) ==
    LET rows  == Rows(f, environ)
        top   == CHOOSE i \in rows : \A j \in rows : j <= i
        given == Interpolate(yaml[f], environ)
    IN  CASE rows # {}                     -> Coerce(environ[EnvOverrides[top].var])
          [] rows = {} /\ given # Absent   -> Parsed(f, given)
          [] OTHER                         -> Defaults[f]

\* Every process that runs has, field by field, what the highest layer gives that gives
\* anything: a variable set to nothing gives nothing, and one process is as good as another.
LayersInOrder ==
    \A p \in Processes : proc[p].at = "up" /\ ~edited[p] =>
        \A f \in Fields : proc[p].settings[f] = Parsed(f, Documented(f, Environ(p), FileOf(p)))

\* The variables that can decide field f: those of its rows, that of the file, and the
\* one that the file names.
Sources(f, yaml) ==
    {EnvOverrides[i].var : i \in {j \in DOMAIN EnvOverrides : EnvOverrides[j].field = f}}
        \cup {"APP_CONFIG_FILE"} \cup (IF yaml[f].from = "var" THEN {yaml[f].is} ELSE {})

\* services.sh and Python find different values for v: it is exported and stands in .env
\* with another value, or it is the address and set to nothing.
FoundApart(v) ==
    \/ Absent \notin {shell[v], dotenv[v]} /\ shell[v] # dotenv[v]
    \/ v = "TEMPORAL_ADDRESS" /\ "" \in {shell[v], dotenv[v]}

\* A worker and an order command started beside each other, in the same directory, mean
\* the same thing by every setting (the task queue first of all), unless services.sh and
\* Python find different values for a variable that can decide it: where a variable is
\* exported and stands in .env, services.sh lets .env win, Python what is exported; and
\* services.sh alone has a default for an empty address.
AgreeUnlessShadowed ==
    \A p, q \in Processes : \A f \in Fields :
        /\ proc[p].at = "up" /\ proc[q].at = "up" /\ ~edited[p] /\ ~edited[q]
        /\ via[p].dir = via[q].dir
        /\ proc[p].settings[f] # proc[q].settings[f]
        => \E v \in Sources(f, FileOf(p)) : FoundApart(v)
=============================================================================
