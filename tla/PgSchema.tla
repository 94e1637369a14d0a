------------------------------ MODULE PgSchema ------------------------------
(***************************************************************************)
(* The database of contexide-storage-pg: the tables its migrations make,   *)
(* run one after the other by the migrator, and the statements of the      *)
(* repositories on them. Every call of a repository is one statement, so   *)
(* one step, whoever makes it; a statement that names a column the table   *)
(* lacks, or refers to a row that does not exist, fails and changes        *)
(* nothing. Columns that are neither key nor reference are left out, and   *)
(* with them set_status, mark_finalized, mark_ready and set_storage_key.   *)
(***************************************************************************)
EXTENDS Integers, Sequences

CONSTANTS
  Keys,          \* Keys[t]: the primary keys of table t
  ChunkOf, SetOf,\* the chunk and the embedding set that a key of embedding_refs is made of
  Existing,      \* what tables may exist before the first migration
  MaxStatements, \* bound on the statements that change something
  MaxStops       \* bound on the migrators that are stopped halfway

VARIABLES
  tables,   \* the tables that exist
  applied,  \* how many migrations are applied
  migrator, \* "idle", "running", or how run_all ended: "ok", "error"
  rows,     \* the stored rows: [table, key, ref], ref[p] the row of p it refers to
  careful,  \* the callers keep the tenants apart, see KeepsTenants
  done,     \* statements so far
  stops     \* migrators stopped so far

vars == <<tables, applied, migrator, rows, careful, done, stops>>

-----------------------------------------------------------------------------
(* The schema.                                                             *)

\* Mutation of Migrations: the sets of chunks come after the chunks.
MigrationsSwapped ==
  << [creates |-> "tenants",        alters |-> {}],
     [creates |-> "documents",      alters |-> {}],
     [creates |-> "assets",         alters |-> {}],
     [creates |-> "blocks",         alters |-> {}],
     [creates |-> "chunks",         alters |-> {}],
     [creates |-> "chunk_sets",     alters |-> {}],
     [creates |-> "embedding_sets", alters |-> {}],
     [creates |-> "embedding_refs", alters |-> {}],
     [creates |-> "jobs",           alters |-> {}],
     [creates |-> "workflow_tenant_limits", alters |-> {"tasks", "task_runs"}],
     [creates |-> "",               alters |-> {"dag_runs", "tasks"}] >>

\* Oldest first: each creates a table, or alters tables that must exist.
Migrations ==
  << [creates |-> "tenants",        alters |-> {}],
     [creates |-> "documents",      alters |-> {}],
     [creates |-> "assets",         alters |-> {}],
     [creates |-> "blocks",         alters |-> {}],
     [creates |-> "chunk_sets",     alters |-> {}],
     [creates |-> "chunks",         alters |-> {}],
     [creates |-> "embedding_sets", alters |-> {}],
     [creates |-> "embedding_refs", alters |-> {}],
     [creates |-> "jobs",           alters |-> {}],
     [creates |-> "workflow_tenant_limits", alters |-> {"tasks", "task_runs"}],
     [creates |-> "",               alters |-> {"dag_runs", "tasks"}] >>

\* The tables a row refers to, all of them ON DELETE CASCADE; the media asset of a
\* block, which is set to null, is left out.
ForeignKeys ==
  [tenants        |-> {},
   documents      |-> {"tenants"},
   assets         |-> {"tenants", "documents"},
   blocks         |-> {"tenants", "documents"},
   chunk_sets     |-> {"tenants", "documents"},
   chunks         |-> {"tenants", "chunk_sets"},
   embedding_sets |-> {"tenants", "chunk_sets"},
   embedding_refs |-> {"tenants", "chunks", "embedding_sets"},
   jobs           |-> {"tenants"}]

RowTables == DOMAIN ForeignKeys

\* The columns the migrations give to assets and blocks, and those that every save
\* and listing of their repositories names.
ColumnsOf ==
  [assets |-> {"id", "tenant_id", "document_id", "filename", "mime", "size_bytes", "storage_key"},
   blocks |-> {"id", "tenant_id", "document_id", "order_no", "modality", "text", "media_asset_id"}]

NamedColumns ==
  [assets |-> {"id", "tenant_id", "document_id", "source", "original_uri", "content_type",
               "size_bytes", "content_hash", "storage_key"},
   blocks |-> {"id", "tenant_id", "asset_id", "modality", "order_no", "text", "meta_json"}]

\* Tables on which the saves of their repository are valid SQL.
Savable(t) ==
  t \in tables /\ (t \in DOMAIN NamedColumns => NamedColumns[t] \subseteq ColumnsOf[t])

-----------------------------------------------------------------------------
(* Rows and references.                                                    *)

Refs(t) == {f \in [ForeignKeys[t] -> UNION {Keys[p] : p \in ForeignKeys[t]}] :
              \A p \in ForeignKeys[t] : f[p] \in Keys[p]}

\* The row a reference of r names.
Refers(r, s) == s.table \in ForeignKeys[r.table] /\ r.ref[s.table] = s.key

Resolves(r, R) == \A p \in ForeignKeys[r.table] : \E s \in R : s.table = p /\ Refers(r, s)

Closed(R) == \A r \in R : Resolves(r, R)

StoredAt(t, k) == {r \in rows : r.table = t /\ r.key = k}

\* What ON DELETE CASCADE leaves when D is deleted: everything that does not
\* refer to D, directly or through other rows.
Survivors(D) == UNION {R \in SUBSET (rows \ D) : Closed(R)}

\* The rows that r refers to, the tenant aside, are its tenant's.
TenantAgrees(r, R) ==
  \A s \in R : s.table # "tenants" /\ Refers(r, s) => s.ref["tenants"] = r.ref["tenants"]

\* What no statement checks and the callers see to: a row is saved for the tenant of
\* the rows it refers to, and only a row that none refers to goes to another tenant.
KeepsTenants(new) ==
  /\ TenantAgrees(new, rows)
  /\ \A old \in StoredAt(new.table, new.key) :
       new.table # "tenants" /\ (\E r \in rows : Refers(r, old)) =>
         old.ref["tenants"] = new.ref["tenants"]

-----------------------------------------------------------------------------
(* The migrator.                                                           *)

RunAll ==
  /\ migrator # "running"
  /\ applied < Len(Migrations)
  /\ migrator' = "running"
  /\ UNCHANGED <<tables, applied, rows, careful, done, stops>>

\* One migration, in a transaction of its own.
ApplyNext ==
  /\ migrator = "running"
  /\ LET m == Migrations[applied + 1] IN
       /\ m.alters \subseteq tables
       /\ tables' = (tables \cup {m.creates}) \ {""}
  /\ applied' = applied + 1
  /\ migrator' = IF applied' = Len(Migrations) THEN "ok" ELSE "running"
  /\ UNCHANGED <<rows, careful, done, stops>>

\* It alters a table that does not exist: run_all returns the error.
ApplyFails ==
  /\ migrator = "running"
  /\ ~(Migrations[applied + 1].alters \subseteq tables)
  /\ migrator' = "error"
  /\ UNCHANGED <<tables, applied, rows, careful, done, stops>>

\* The process stops between two migrations; the next run_all goes on from there.
MigratorStops ==
  /\ migrator = "running"
  /\ stops < MaxStops
  /\ stops' = stops + 1
  /\ migrator' = "idle"
  /\ UNCHANGED <<tables, applied, rows, careful, done>>

-----------------------------------------------------------------------------
(* The statements.                                                         *)

Statement ==
  /\ done < MaxStatements
  /\ done' = done + 1
  /\ UNCHANGED <<tables, applied, migrator, careful, stops>>

\* Mutation of Updated: a chunk set keeps its tenant too.
UpdatedButTenants(old, new) ==
  IF new.table \in {"chunks", "chunk_sets"}
  THEN [new EXCEPT !.ref["tenants"] = old.ref["tenants"]] ELSE new

\* ON CONFLICT DO UPDATE sets every column, except that a chunk keeps its tenant.
Updated(old, new) ==
  IF new.table = "chunks" THEN [new EXCEPT !.ref["tenants"] = old.ref["tenants"]] ELSE new

\* save, and the create of chunk sets, embedding sets and jobs, which has a new id.
Upsert(t, k, f) ==
  LET new == [table |-> t, key |-> k, ref |-> f] IN
  /\ Statement
  /\ Savable(t)
  /\ Resolves(new, rows)
  /\ careful => KeepsTenants(new)
  /\ rows' = (rows \ StoredAt(t, k)) \cup
               {IF StoredAt(t, k) = {} THEN new ELSE Updated(CHOOSE r \in StoredAt(t, k) : TRUE, new)}

\* The save of a document is an INSERT when its id is nil and an UPDATE otherwise:
\* with an id that is not stored it succeeds and stores nothing.
UpdateDocument(k, f) ==
  LET new == [table |-> "documents", key |-> k, ref |-> f] IN
  /\ Statement
  /\ StoredAt("documents", k) # {}
  /\ Resolves(new, rows)
  /\ careful => KeepsTenants(new)
  /\ rows' = (rows \ StoredAt("documents", k)) \cup {new}

InsertDocument(k, f) ==
  /\ StoredAt("documents", k) = {}
  /\ Upsert("documents", k, f)

Delete(t, k) ==
  /\ Statement
  /\ StoredAt(t, k) # {}
  /\ rows' = Survivors(StoredAt(t, k))

\* delete_by_set: the rows of t that refer to row k of p.
DeleteBy(t, p, k) ==
  LET D == {r \in rows : r.table = t /\ r.ref[p] = k} IN
  /\ Statement
  /\ D # {}
  /\ rows' = Survivors(D)

SaveAny(t)   == \E k \in Keys[t], f \in Refs(t) : Upsert(t, k, f)
DeleteAny(t) == \E k \in Keys[t] : Delete(t, k)

PgTenantsRepo       == SaveAny("tenants") \/ DeleteAny("tenants")
PgDocumentsRepo     == DeleteAny("documents") \/
  \E k \in Keys["documents"], f \in Refs("documents") : InsertDocument(k, f) \/ UpdateDocument(k, f)
PgChunkSetsRepo     == SaveAny("chunk_sets") \/ DeleteAny("chunk_sets")
PgEmbeddingSetsRepo == SaveAny("embedding_sets") \/ DeleteAny("embedding_sets")
PgJobsRepo          == SaveAny("jobs") \/ DeleteAny("jobs")
PgChunksRepo        == SaveAny("chunks") \/ DeleteAny("chunks") \/
  \E k \in Keys["chunk_sets"] : DeleteBy("chunks", "chunk_sets", k)

\* The key of a row is (chunk, embedding set).
PgEmbeddingsRefRepo ==
  \/ \E k \in Keys["embedding_refs"], f \in Refs("embedding_refs") :
       /\ f["chunks"] = ChunkOf[k] /\ f["embedding_sets"] = SetOf[k]
       /\ Upsert("embedding_refs", k, f)
  \/ DeleteAny("embedding_refs")
  \/ \E k \in Keys["embedding_sets"] : DeleteBy("embedding_refs", "embedding_sets", k)

\* A save on a table that lacks a column it names returns the error of the database.
SaveRejected(t) ==
  /\ Statement
  /\ t \in tables
  /\ ~Savable(t)
  /\ UNCHANGED rows

\* Every save of these two is rejected, so that there is nothing to list or delete.
PgAssetsRepo == SaveRejected("assets")
PgBlocksRepo == SaveRejected("blocks")

Init ==
  /\ tables \in Existing
  /\ applied = 0
  /\ migrator = "idle"
  /\ rows = {}
  /\ careful \in BOOLEAN
  /\ done = 0
  /\ stops = 0

Next ==
  \/ RunAll \/ ApplyNext \/ ApplyFails \/ MigratorStops
  \/ PgTenantsRepo \/ PgDocumentsRepo \/ PgChunkSetsRepo \/ PgChunksRepo
  \/ PgEmbeddingSetsRepo \/ PgEmbeddingsRefRepo \/ PgJobsRepo \/ PgAssetsRepo \/ PgBlocksRepo

Spec == Init /\ [][Next]_vars

-----------------------------------------------------------------------------

\* While the callers keep the tenants apart, no row of a tenant comes to refer to a row
\* of another one, however saves, moves between sets, deletes and new rows under freed
\* keys interleave. A chunk is left out, whose save does not change its tenant: moved
\* to the set of another tenant it stays with the one it had.
TenantsAgree == careful => \A r \in rows : r.table # "chunks" => TenantAgrees(r, rows)

\* A table is there before any table that refers to it, also when migrators are
\* stopped halfway and start again.
TablesReferTables == \A t \in tables \cap RowTables : ForeignKeys[t] \subseteq tables

\* The migrations of the repository can be applied to an empty database.
MigrationsApply == migrator # "error"
=============================================================================
