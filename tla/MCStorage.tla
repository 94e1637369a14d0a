----------------------------- MODULE MCStorage -----------------------------
(***************************************************************************)
(* The stores for TLC: the repositories in memory (MemRepository and       *)
(* Tenants) and in Postgres (PgSchema), the blob store with the extraction *)
(* out of it (Extraction), and the vector store with the indexing into it  *)
(* (Indexing). They share no state, so each behaviour exercises one of     *)
(* them and leaves the others as they were.                                *)
(***************************************************************************)
EXTENDS MemRepository, FiniteSets, Sequences

CONSTANTS
  Parts,    \* the instances to explore
  i1, i2, o1, o2,
  TenantIds, Names, Emails, Callers, MaxTenantCalls, Nobody,
  Existing, MaxStatements, MaxStops,
  BlobNames, Uploads, Urls, PdfNames, Assets, MaxChanges,
  Jobs, k1, k2, t1, t2, Requests, Chunks, Tenants, StoreDim, Dims, Searches, IdLists, SearchLimits,
  MaxFaults, MaxOps, Absent

VARIABLES
  part,
  backend, contract, byId, byName, byEmail, used, at, calls,
  tables, applied, migrator, rows, careful, done, stops,
  blobs, held, page, asset, step, outcome, seen, changes,
  collection, points, accepted, job, stands, indexedFor, search, faults, ops

SomeIds == {i1, i2}
SomeOwners == {o1, o2}
SetOfEach == [i \in SomeIds |-> IF i = i1 THEN o1 ELSE o2]

SomeKeys ==
  [tenants |-> {"t1", "t2"}, documents |-> {"d1", "d2"}, assets |-> {"a1"}, blocks |-> {"b1"},
   chunk_sets |-> {"s1", "s2"}, chunks |-> {"c1"}, embedding_sets |-> {"m1"},
   embedding_refs |-> {"e1"}, jobs |-> {"j1"}]

\* Every type with every spelling of a blob's key, and some with the other keys.
StoredAs(names, types) ==
  {[key |-> [slash |-> s, name |-> n], content_type |-> t] : s \in BOOLEAN, n \in names, t \in types}

SomeAssets ==
  {[key |-> Absent, content_type |-> "pdf"]}
    \cup StoredAs(BlobNames, {Absent, "pdf", "pdf;v", "text/html", "text/html;v", "image", "octet-stream"})
    \cup {x \in StoredAs(Uploads \cup Urls, {Absent, "pdf"}) : ~x.key.slash}

\* A chunk with a page, or with the list of both.
Given(chunk, pageNo, tenant) ==
  [chunk |-> chunk, tenant_id |-> tenant, page |-> [list |-> FALSE, of |-> {pageNo}]]
GivenBoth(chunk) == [chunk |-> chunk, tenant_id |-> Absent, page |-> [list |-> TRUE, of |-> {1, 2}]]

\* None, one without a known dimension, one of another dimension, and three that
\* overlap, two of them with a payload that names a tenant.
SomeRequests ==
  { [tenant |-> t1, inputs |-> <<>>, dims |-> 2],
    [tenant |-> t1, inputs |-> <<Given(k1, 1, Absent)>>, dims |-> 0],
    [tenant |-> t1, inputs |-> <<Given(k1, 1, Absent)>>, dims |-> 3],
    [tenant |-> t1, inputs |-> <<GivenBoth(k1)>>, dims |-> 2],
    [tenant |-> t1, inputs |-> <<Given(k1, 1, Absent), Given(k2, 2, t2)>>, dims |-> 2],
    [tenant |-> t2, inputs |-> <<Given(k2, 1, Absent), Given(k2, 2, t1)>>, dims |-> 2] }

SomeIdLists == {<<k1>>, <<k2>>, <<k2, k1>>}

\* A tenant's chunks, those of a page too, and those of both or of a page, with a
\* condition that is dropped; and a list of numbers.
Cond(key, type, value) == [key |-> key, type |-> type, value |-> value]
SomeSearches ==
  { {Cond("tenant_id", "string", t1)},
    {Cond("tenant_id", "string", t2), Cond("page", "integer", 2)},
    {Cond("tenant_id", "strings", {t1, t2}), Cond("page", "other", {1, 2})},
    {Cond("page", "integer", 1)},
    {Cond("page", "integers", {1, 2})} }

\* Only the list of numbers.
SearchByList == { {Cond("page", "integers", {1, 2})} }

tenantVars == <<backend, contract, byId, byName, byEmail, used, at, calls>>
pgVars     == <<tables, applied, migrator, rows, careful, done, stops>>
blobVars   == <<blobs, held, page, asset, step, outcome, seen, changes>>
vectorVars == <<collection, points, accepted, job, stands, indexedFor, search, faults, ops>>

T == INSTANCE Tenants

ASSUME NobodyAssumption   == Nobody \notin TenantIds \cup T!Row
ASSUME TenantsAssumption  == MaxTenantCalls \in Nat

P == INSTANCE PgSchema WITH Keys <- SomeKeys, ChunkOf <- [e1 |-> "c1"], SetOf <- [e1 |-> "m1"]

X == INSTANCE Extraction WITH Names <- BlobNames

\* The key of an asset is one of the blob store or a URL, and put_reader makes up none
\* with a leading slash.
ASSUME AssetsAssumption ==
  \A x \in Assets : x.key # Absent =>
    /\ x.key \in [slash : BOOLEAN, name : BlobNames \cup Uploads \cup Urls]
    /\ x.key.name \in Uploads => ~x.key.slash

ASSUME BlockAssumption ==
  Absent \notin [modality : {"text", "image", "binary"}, text : {"converted", "as it is", Absent},
                 of : X!Formats]

V == INSTANCE Indexing

ASSUME RequestsAssumption == Requests \subseteq V!Request
ASSUME ChunksAssumption   == IsFiniteSet(Chunks)
ASSUME LimitsAssumption   == SearchLimits \subseteq Nat /\ IdLists \subseteq Seq(Chunks)
ASSUME SearchesAssumption == Searches \subseteq SUBSET V!Conditions

SomePoints ==
  [of : Chunks, dim : Dims, tenant_id : Tenants, page : SUBSET [text : BOOLEAN, n : 1..2]]

ASSUME AbsentAssumption == Absent \notin Dims \cup SomePoints

StorageInit ==
  /\ part \in Parts
  /\ part # "extraction" => asset = [key |-> Absent, content_type |-> "pdf"]
  /\ part # "indexing" => job = [j \in Jobs |-> [step |-> "new", vectors |-> <<>>,
                                   req |-> [tenant |-> t1, inputs |-> <<>>, dims |-> 2]]]
  /\ part # "repository" => repo = "assets" /\ shared = FALSE
  /\ part # "tenants" => backend = "mem" /\ contract = "exclusive"
  /\ part # "postgres" => tables = {} /\ careful = TRUE
  /\ Init /\ T!Init /\ P!Init /\ X!Init /\ V!Init

StorageNext ==
  /\ UNCHANGED part
  /\ \/ part = "repository" /\ Next /\ UNCHANGED <<tenantVars, pgVars, blobVars, vectorVars>>
     \/ part = "tenants" /\ T!Next /\ UNCHANGED <<vars, pgVars, blobVars, vectorVars>>
     \/ part = "postgres" /\ P!Next /\ UNCHANGED <<vars, tenantVars, blobVars, vectorVars>>
     \/ part = "extraction" /\ X!Next /\ UNCHANGED <<vars, tenantVars, pgVars, vectorVars>>
     \/ part = "indexing" /\ V!Next /\ UNCHANGED <<vars, tenantVars, pgVars, blobVars>>

StorageSpec ==
  StorageInit /\ [][StorageNext]_<<part, vars, tenantVars, pgVars, blobVars, vectorVars>>

\* See Tenants.
TenantsUnique  == T!TenantsUnique
FoundByBoth    == T!FoundByBoth
LookupsResolve == T!LookupsResolve

\* See PgSchema.
TenantsAgree      == P!TenantsAgree
TablesReferTables == P!TablesReferTables
MigrationsApply   == P!MigrationsApply

\* See Extraction.
OutcomeExplained   == X!OutcomeExplained
FailedPdfFallsBack == X!FailedPdfFallsBack

\* See Indexing.
IndexedIsStored     == V!IndexedIsStored
SearchExact         == V!SearchExact
FiltersAsDocumented == V!FiltersAsDocumented
=============================================================================
