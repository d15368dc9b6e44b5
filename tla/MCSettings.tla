----------------------------- MODULE MCSettings -----------------------------
(***************************************************************************)
(* Eleven rows of the override table, two of them for one field; fields of *)
(* each type.  A person exports nothing, a key, another queue, a queue     *)
(* named by a word for truth, an empty key and address, or a config file's *)
(* name; .env holds up to four variables, the file's name and an empty    *)
(* address among them.  The repository has no config file, one, or two; a  *)
(* file gives nothing, values, or ${VAR} entries, one of them for a field  *)
(* whose default is not empty.                                             *)
(***************************************************************************)
EXTENDS Settings, TLC

Row(v, f) == [var |-> v, field |-> f]
MCEnvOverrides == <<
    Row("TEMPORAL_MODE", "temporal.mode"),
    Row("TEMPORAL_TASK_QUEUE", "temporal.task_queue"),
    Row("TEMPORAL_ADDRESS", "temporal.self_hosted.address"),
    Row("TEMPORAL_CLOUD_API_KEY", "temporal.cloud.api_key"),
    Row("LANGGRAPH_ENABLED", "langgraph.enabled"),
    Row("MULTI_AGENT_ENABLED", "multi_agent.enabled"),
    Row("LLM_PROVIDER", "llm.provider"),
    Row("OPENAI_API_KEY", "llm.api_key"),
    Row("LYZR_API_KEY", "llm.api_key"),
    Row("LYZR_AGENT_ID", "llm.lyzr_agent_id"),
    Row("ARIZE_OTLP_ENDPOINT", "observability.arize.endpoint")>>

MCKind ==
    "temporal.mode" :> "enum" @@ "temporal.task_queue" :> "str" @@
    "temporal.self_hosted.address" :> "str" @@ "temporal.cloud.api_key" :> "str" @@
    "multi_agent.enabled" :> "bool" @@ "langgraph.enabled" :> "bool" @@
    "llm.provider" :> "enum" @@ "llm.api_key" :> "str" @@ "llm.lyzr_agent_id" :> "str" @@
    "observability.arize.endpoint" :> "str"

MCOptions ==
    "temporal.mode" :> {"self_hosted", "cloud"} @@
    "llm.provider" :> {"openai", "lyzr", "ollama", "fake"}

MCDefaults ==
    "temporal.mode" :> "self_hosted" @@ "temporal.task_queue" :> "langgraph-agent" @@
    "temporal.self_hosted.address" :> "localhost:7233" @@ "temporal.cloud.api_key" :> "" @@
    "multi_agent.enabled" :> False @@ "langgraph.enabled" :> True @@
    "llm.provider" :> "openai" @@ "llm.api_key" :> "" @@ "llm.lyzr_agent_id" :> "" @@
    "observability.arize.endpoint" :> "otlp.arize.com"

NoVars   == [v \in Vars |-> Absent]
Value(x) == [from |-> "value", is |-> x]
Ref(v)   == [from |-> "var", is |-> v]

Demo  == [NoFile EXCEPT !["multi_agent.enabled"] = Value(True), !["llm.provider"] = Value("fake")]
Orders ==
    [NoFile EXCEPT !["multi_agent.enabled"] = Value("on"), !["temporal.task_queue"] = Value("orders"),
                   !["temporal.self_hosted.address"] = Value("temporal:7233"),
                   !["llm.provider"] = Value("lyzr"), !["langgraph.enabled"] = Value(False),
                   !["llm.api_key"] = Ref("LYZR_API_KEY"),
                   !["temporal.cloud.api_key"] = Ref("TEMPORAL_CLOUD_API_KEY"),
                   !["observability.arize.endpoint"] = Ref("ARIZE_OTLP_ENDPOINT")]

MCDirs    == {"root", "elsewhere"}
InRoot(m) == "root" :> m @@ "elsewhere" :> <<>>
MCDisks   == {
    InRoot("config/config.example.yaml" :> Demo),
    InRoot("config/config.yaml" :> Orders @@ "config/demo.yaml" :> Demo),
    InRoot("config/config.yaml" :> Demo @@ "config/config.example.yaml" :> Orders)}

MCShells == {
    NoVars,
    [NoVars EXCEPT !["TEMPORAL_TASK_QUEUE"] = "blue", !["APP_CONFIG_FILE"] = "config/demo.yaml"],
    [NoVars EXCEPT !["TEMPORAL_TASK_QUEUE"] = "on"],
    [NoVars EXCEPT !["OPENAI_API_KEY"] = "sk-o", !["MULTI_AGENT_ENABLED"] = "1"],
    [NoVars EXCEPT !["LYZR_API_KEY"] = "", !["LLM_PROVIDER"] = "openai", !["TEMPORAL_ADDRESS"] = ""],
    [NoVars EXCEPT !["LYZR_AGENT_ID"] = "a", !["LLM_PROVIDER"] = "lyzr", !["LANGGRAPH_ENABLED"] = "off"]}

MCDotEnvs == {
    NoVars,
    [NoVars EXCEPT !["TEMPORAL_TASK_QUEUE"] = "green", !["MULTI_AGENT_ENABLED"] = "yes",
                   !["APP_CONFIG_FILE"] = "config/config.yaml", !["LYZR_API_KEY"] = "sk-l"],
    [NoVars EXCEPT !["OPENAI_API_KEY"] = "", !["LYZR_API_KEY"] = "sk-l", !["TEMPORAL_ADDRESS"] = ""],
    [NoVars EXCEPT !["OPENAI_API_KEY"] = "sk-p", !["LYZR_API_KEY"] = "sk-l", !["MULTI_AGENT_ENABLED"] = "1"],
    [NoVars EXCEPT !["TEMPORAL_MODE"] = "cloud", !["TEMPORAL_CLOUD_API_KEY"] = "sk-c"],
    [NoVars EXCEPT !["TEMPORAL_MODE"] = "cloud", !["TEMPORAL_TASK_QUEUE"] = ""]}
=============================================================================
