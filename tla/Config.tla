------------------------------- MODULE Config -------------------------------
(***************************************************************************)
(* contexide-config: every setting is looked up under the variable of its  *)
(* scope, then a global one, then plain fallbacks; load_app loads the      *)
(* groups one after the other and ends with the first error. A variable    *)
(* has no value, or one of a few kinds of value; the defaults are one      *)
(* value, Default. How .env files reach the environment is left out.       *)
(***************************************************************************)
EXTENDS Integers, Sequences, FiniteSets

CONSTANT Environments  \* the values the variables may have

VARIABLES
  env,      \* the values of the variables that are set
  group,    \* index in Groups of the group to load next
  loaded,   \* the settings loaded: their value, or Default
  failed    \* the group whose loader failed, or "none"

vars == <<env, group, loaded, failed>>

Default == "default"

\* "good": a value as the setting wants it; "odd": it parses and is refused by a
\* validation, if there is one; "junk": it does not parse, or is no URL; "": empty.
ValueKinds == {"good", "odd", "junk", ""}

\* A setting: its scope and key, its plain fallbacks and what becomes of the value.
Text(scope, key, plain)   == [scope |-> scope, key |-> key, plain |-> plain, type |-> "text"]
Number(scope, key, plain) == [scope |-> scope, key |-> key, plain |-> plain, type |-> "number"]
Flag(scope, key, plain)   == [scope |-> scope, key |-> key, plain |-> plain, type |-> "flag"]
Url(scope, key, plain)    == [scope |-> scope, key |-> key, plain |-> plain, type |-> "url"]
Exact(scope, key, plain)  == [scope |-> scope, key |-> key, plain |-> plain, type |-> "exact"]
Strict(scope, key, plain) == [scope |-> scope, key |-> key, plain |-> plain, type |-> "strict"]

Global == {Text("GLOBAL", "ENV", <<"CONTEXIDE_ENV">>)}

Storage ==
  {Text("STORAGE", "DATABASE_URL", <<"DATABASE_URL", "CONTEXIDE_DB_URL">>),
   Number("STORAGE", "DB_MAX_CONNECTIONS", <<"CONTEXIDE_DB_MAX_CONNECTIONS">>),
   Text("STORAGE", "MIGRATIONS_DIR", <<"CONTEXIDE_MIGRATIONS_DIR">>)}

BlobStorage ==
  {Url("BLOB_STORAGE", "S3_ENDPOINT", <<"MINIO_ENDPOINT">>),
   Text("BLOB_STORAGE", "S3_ACCESS_KEY", <<"MINIO_ACCESS_KEY">>),
   Text("BLOB_STORAGE", "S3_SECRET_KEY", <<"MINIO_SECRET_KEY">>),
   Text("BLOB_STORAGE", "S3_BUCKET", <<"MINIO_BUCKET">>),
   Flag("BLOB_STORAGE", "S3_PATH_STYLE", <<"MINIO_PATH_STYLE">>),
   Text("BLOB_STORAGE", "S3_REGION", <<"MINIO_REGION">>)}

Vector ==
  {Url("VECTOR", "VECTOR_ENDPOINT", <<"VECTOR_ENDPOINT">>),
   Text("VECTOR", "VECTOR_COLLECTION_PREFIX", <<"VECTOR_COLLECTION_PREFIX">>),
   Text("VECTOR", "VECTOR_METRIC", <<"VECTOR_METRIC">>),
   Exact("VECTOR", "VECTOR_DIM", <<"VECTOR_DIM">>)}

Embeddings ==
  {Text("EMBEDDINGS", "EMBEDDINGS_PROVIDER", <<"EMBEDDINGS_PROVIDER">>),
   Text("EMBEDDINGS", "EMBEDDINGS_MODEL", <<"EMBEDDINGS_MODEL">>),
   Number("EMBEDDINGS", "EMBEDDINGS_BATCH", <<"EMBEDDINGS_BATCH">>)}

Api == {Text("API", "HTTP_BIND", <<"CONTEXIDE_HTTP_BIND">>)}

Workers ==
  {Number("WORKERS", k, <<k>>) : k \in
     {"WORKERS_INGEST", "WORKERS_EXTRACT", "WORKERS_NORMALIZE", "WORKERS_CHUNK",
      "WORKERS_EMBED", "WORKERS_INDEX"}}

Messaging ==
  {Text("MESSAGING", "NATS_URL", <<"NATS_URL">>),
   Text("MESSAGING", "WORKFLOW_PREFIX", <<"WORKFLOW_PREFIX">>),
   Text("MESSAGING", "WORKFLOW_STREAM", <<"WORKFLOW_STREAM">>),
   Number("MESSAGING", "WORKER_DEFAULT_CONCURRENCY", <<>>)}

Workflow ==
  {Number("WORKFLOW", k, <<k>>) : k \in
     {"MAX_RUNNING_TASKS_TOTAL", "DEFAULT_TENANT_MAX_RUNNING_DAG_RUNS",
      "DEFAULT_TENANT_MAX_RUNNING_TASKS", "DEFAULT_TENANT_MAX_RUNNING_TASKS_PER_DOMAIN"}}

\* Loaded by the executor's own binary, after the others here.
Executor ==
  {Strict("EXECUTOR", "POLL_INTERVAL_MS", <<>>),
   Number("EXECUTOR", "MAX_CONCURRENT_PER_DOMAIN", <<>>),
   Number("EXECUTOR", "MAX_RETRIES", <<>>)}

\* In the order of load_app.
Groups ==
  <<Global, Storage, BlobStorage, Vector, Embeddings, Api, Workers, Messaging, Workflow, Executor>>

Settings == UNION {Groups[g] : g \in DOMAIN Groups}

-----------------------------------------------------------------------------
(* Resolution.                                                             *)

\* The variables a setting is looked up under, the most specific first.
Chain(s) == <<"CONTEXIDE_" \o s.scope \o "_" \o s.key, "CONTEXIDE_" \o s.key>> \o s.plain

Variables(s) == {Chain(s)[i] : i \in DOMAIN Chain(s)}

\* Where in the chain are those that are set and not empty.
Nonempty(s) == {i \in DOMAIN Chain(s) : Chain(s)[i] \in DOMAIN env /\ env[Chain(s)[i]] # ""}

\* The value of the first of them.
Found(s) ==
  IF Nonempty(s) = {} THEN Default
  ELSE env[Chain(s)[CHOOSE i \in Nonempty(s) : \A j \in Nonempty(s) : i <= j]]

\* What the loader keeps: an unparsable number or flag counts as not set, and the
\* variables further down are not tried for it.
Kept(s) == IF s.type \in {"number", "flag", "exact"} /\ Found(s) = "junk" THEN Default ELSE Found(s)

Refused(s) ==
  \/ s.type = "url" /\ Kept(s) = "junk"
  \/ s.type = "exact" /\ Kept(s) = "odd"
  \/ s.type = "strict" /\ Kept(s) = "junk"

\* Mutation of LoadGroup: the group is kept even when a setting of it is refused.
LoadGroupUnchecked ==
  /\ failed = "none" /\ group \in DOMAIN Groups
  /\ failed' = IF \E s \in Groups[group] : Refused(s)
               THEN (CHOOSE s \in Groups[group] : TRUE).scope ELSE "none"
  /\ loaded' = [s \in DOMAIN loaded \cup Groups[group] |->
                  IF s \in Groups[group] THEN Kept(s) ELSE loaded[s]]
  /\ group' = group + 1
  /\ UNCHANGED env

\* One loader: it sets all settings of the group, then validates.
LoadGroup ==
  /\ failed = "none" /\ group \in DOMAIN Groups
  /\ IF \E s \in Groups[group] : Refused(s)
     THEN /\ failed' = (CHOOSE s \in Groups[group] : TRUE).scope
          /\ UNCHANGED loaded
     ELSE /\ loaded' = [s \in DOMAIN loaded \cup Groups[group] |->
                          IF s \in Groups[group] THEN Kept(s) ELSE loaded[s]]
          /\ UNCHANGED failed
  /\ group' = group + 1
  /\ UNCHANGED env

AllVariables == UNION {Variables(s) : s \in Settings}

Init ==
  /\ env \in Environments
  /\ group = 1
  /\ loaded = <<>>
  /\ failed = "none"

Next == LoadGroup

Spec == Init /\ [][Next]_vars

-----------------------------------------------------------------------------

Changed == {s \in DOMAIN loaded : loaded[s] # Default}

\* Scope, global and plain names are put together from words that recur in one
\* another (CONTEXIDE_VECTOR_VECTOR_DIM, CONTEXIDE_VECTOR_DIM, VECTOR_DIM), yet
\* no variable is read for two settings: n variables change n settings at most,
\* and n - 1 when one of them is what a loader refuses.
OneVariableOneSetting ==
  Cardinality(Changed) + (IF failed = "none" THEN 0 ELSE 1) <= Cardinality(DOMAIN env)
=============================================================================
