--------------------------- MODULE PgSchemaProofs ---------------------------
(***************************************************************************)
(* Proofs about PgSchema, for every set of keys, every database that the   *)
(* migrations start from and any number of statements.                     *)
(***************************************************************************)
EXTENDS PgSchema, TLAPS

\* What the cascade of a delete leaves refers to what it leaves.
LEMMA SurvivorsClosed == ASSUME NEW D PROVE Closed(Survivors(D))
<1> SUFFICES ASSUME NEW r \in Survivors(D), NEW p \in ForeignKeys[r.table]
             PROVE \E s \in Survivors(D) : s.table = p /\ Refers(r, s)
  BY DEF Closed, Resolves
<1>1. PICK R \in SUBSET (rows \ D) : Closed(R) /\ r \in R
  BY DEF Survivors
<1>2. PICK s \in R : s.table = p /\ Refers(r, s)
  BY <1>1 DEF Closed, Resolves
<1> QED
  BY <1>1, <1>2 DEF Survivors

\* A row of the same table and key takes the place of another: what referred to
\* the one refers to the other.
LEMMA ReplacedClosed ==
  ASSUME NEW R, NEW t, NEW k, NEW new, Closed(R),
         new.table = t, new.key = k,
         \A p \in ForeignKeys[t] : \E s \in R : s.table = p /\ Refers(new, s)
  PROVE  Closed((R \ {r \in R : r.table = t /\ r.key = k}) \cup {new})
<1> DEFINE Q == (R \ {r \in R : r.table = t /\ r.key = k}) \cup {new}
<1>1. ASSUME NEW r, NEW s \in R, NEW p, s.table = p, Refers(r, s)
      PROVE \E z \in Q : z.table = p /\ Refers(r, z)
  <2>1. CASE s.table = t /\ s.key = k
    BY <1>1, <2>1 DEF Refers
  <2>2. CASE ~(s.table = t /\ s.key = k)
    BY <1>1, <2>2
  <2> QED
    BY <2>1, <2>2
<1>2. ASSUME NEW r \in Q, NEW p \in ForeignKeys[r.table]
      PROVE \E s \in R : s.table = p /\ Refers(r, s)
  <2>1. CASE r = new
    BY <1>2, <2>1
  <2>2. CASE r \in R
    BY <1>2, <2>2 DEF Closed, Resolves
  <2> QED
    BY <2>1, <2>2
<1> QED
  BY <1>1, <1>2 DEF Closed, Resolves

\* The row that an upsert leaves has references that resolve, also the chunk that
\* keeps the tenant it had.
LEMMA UpdatedResolves ==
  ASSUME Closed(rows), NEW old \in rows, NEW t, NEW k, NEW f \in Refs(t),
         old.table = t,
         Resolves([table |-> t, key |-> k, ref |-> f], rows)
  PROVE  LET new == Updated(old, [table |-> t, key |-> k, ref |-> f]) IN
         /\ new.table = t /\ new.key = k
         /\ \A p \in ForeignKeys[t] : \E s \in rows : s.table = p /\ Refers(new, s)
<1> DEFINE new == [table |-> t, key |-> k, ref |-> f]
           kept == [new EXCEPT !.ref["tenants"] = old.ref["tenants"]]
<1>1. CASE t # "chunks"
  BY <1>1 DEF Updated, Resolves
<1>2. CASE t = "chunks"
  <2>1. Updated(old, new) = kept
    BY <1>2 DEF Updated
  <2>2. kept = [table |-> t, key |-> k, ref |-> [f EXCEPT !["tenants"] = old.ref["tenants"]]]
    OBVIOUS
  <2>3. ForeignKeys[t] = {"tenants", "chunk_sets"} /\ ForeignKeys[t] = DOMAIN f
    BY <1>2 DEF ForeignKeys, Refs
  <2>4. PICK s \in rows : s.table = "tenants" /\ Refers(old, s)
    BY <2>3 DEF Closed, Resolves
  <2>5. Refers(kept, s)
    BY <2>2, <2>3, <2>4 DEF Refers
  <2>6. PICK u \in rows : u.table = "chunk_sets" /\ Refers(new, u)
    BY <2>3 DEF Resolves
  <2>7. Refers(kept, u)
    BY <2>2, <2>3, <2>6 DEF Refers
  <2> QED
    BY <2>1, <2>2, <2>3, <2>4, <2>5, <2>6, <2>7
<1> QED
  BY <1>1, <1>2

LEMMA UpsertCloses ==
  ASSUME Closed(rows), NEW t, NEW k, NEW f \in Refs(t), Upsert(t, k, f)
  PROVE  Closed(rows)'
<1> DEFINE new == [table |-> t, key |-> k, ref |-> f]
<1>1. Resolves(new, rows)
  BY DEF Upsert
<1>2. CASE StoredAt(t, k) = {}
  <2>1. rows' = (rows \ StoredAt(t, k)) \cup {new}
    BY <1>2 DEF Upsert
  <2>2. Closed((rows \ StoredAt(t, k)) \cup {new})
    BY <1>1, ReplacedClosed DEF StoredAt, Resolves
  <2> QED
    BY <2>1, <2>2 DEF Closed
<1>3. CASE StoredAt(t, k) # {}
  <2> DEFINE old == CHOOSE r \in StoredAt(t, k) : TRUE
  <2>1. old \in rows /\ old.table = t
    BY <1>3 DEF StoredAt
  <2>2. rows' = (rows \ StoredAt(t, k)) \cup {Updated(old, new)}
    BY <1>3 DEF Upsert
  <2> HIDE DEF old
  <2>3. Closed((rows \ StoredAt(t, k)) \cup {Updated(old, new)})
    BY <1>1, <2>1, UpdatedResolves, ReplacedClosed DEF StoredAt
  <2> QED
    BY <2>2, <2>3 DEF Closed
<1> QED
  BY <1>2, <1>3

LEMMA UpdateDocumentCloses ==
  ASSUME Closed(rows), NEW k, NEW f, UpdateDocument(k, f)
  PROVE  Closed(rows)'
<1> DEFINE new == [table |-> "documents", key |-> k, ref |-> f]
<1>1. Resolves(new, rows) /\ rows' = (rows \ StoredAt("documents", k)) \cup {new}
  BY DEF UpdateDocument
<1>2. Closed((rows \ StoredAt("documents", k)) \cup {new})
  BY <1>1, ReplacedClosed DEF StoredAt, Resolves
<1> QED
  BY <1>1, <1>2 DEF Closed

LEMMA DeleteCloses ==
  ASSUME NEW D, rows' = Survivors(D) PROVE Closed(rows)' /\ rows' \subseteq rows
  BY SurvivorsClosed DEF Closed, Survivors

\* The tenants of any set of rows are kept apart, but for the chunks'.
Apart(R) == \A r \in R : r.table # "chunks" => TenantAgrees(r, R)

LEMMA FewerApart == ASSUME NEW R, NEW Q \in SUBSET R, Apart(R) PROVE Apart(Q)
  BY DEF Apart, TenantAgrees

LEMMA NoSelfReference == \A t \in RowTables : t \notin ForeignKeys[t]
<1> SUFFICES ASSUME NEW t \in RowTables PROVE t \notin ForeignKeys[t]
  OBVIOUS
<1>1. t \in {"tenants", "documents", "assets", "blocks", "chunk_sets", "chunks",
             "embedding_sets", "embedding_refs", "jobs"}
  BY DEF RowTables, ForeignKeys
<1> QED
  BY <1>1 DEF ForeignKeys

\* A row that is saved with care keeps them apart, whether it is new or takes the place
\* of another, and has the tenant of the one it replaces or that it was saved with.
LEMMA SavedApart ==
  ASSUME Closed(rows), Apart(rows), NEW t \in RowTables, NEW k, NEW new, NEW w,
         new.table = t, new.key = k, Resolves(new, rows), KeepsTenants(new),
         w.table = t, w.key = k, t # "chunks" => w = new,
         \/ w = new
         \/ \E old \in StoredAt(t, k) : w.ref["tenants"] = old.ref["tenants"]
  PROVE  Apart((rows \ StoredAt(t, k)) \cup {w})
<1> DEFINE Q == (rows \ StoredAt(t, k)) \cup {w}
<1> SUFFICES ASSUME NEW r \in Q, r.table # "chunks",
                    NEW s \in Q, s.table # "tenants", Refers(r, s)
             PROVE  s.ref["tenants"] = r.ref["tenants"]
  BY DEF Apart, TenantAgrees
<1>1. s.table \in ForeignKeys[r.table] /\ r.ref[s.table] = s.key
  BY DEF Refers
<1>2. CASE r = w /\ s = w
  <2>1. t \in ForeignKeys[t] /\ t # "chunks"
    BY <1>1, <1>2
  <2> QED
    BY <2>1, NoSelfReference
<1>3. CASE r = w /\ s # w
  <2>1. r = new /\ s \in rows
    BY <1>3
  <2> QED
    BY <2>1 DEF KeepsTenants, TenantAgrees
<1>4. CASE r # w /\ s # w
  <2>1. r \in rows /\ s \in rows
    BY <1>4
  <2> QED
    BY <2>1 DEF Apart, TenantAgrees
<1>5. CASE r # w /\ s = w
  <2>1. r \in rows /\ t \in ForeignKeys[r.table] /\ r.ref[t] = k /\ t # "tenants"
    BY <1>1, <1>5
  <2>2. PICK z \in rows : z.table = t /\ Refers(r, z)
    BY <2>1 DEF Closed, Resolves
  <2>3. \A old \in StoredAt(t, k) : Refers(r, old) /\ old \in rows /\ old.table = t
    BY <2>1 DEF StoredAt, Refers
  <2>4. \A old \in StoredAt(t, k) : old.ref["tenants"] = r.ref["tenants"]
    BY <2>1, <2>3 DEF Apart, TenantAgrees
  <2>5. z \in StoredAt(t, k)
    BY <2>1, <2>2 DEF StoredAt, Refers
  <2>6. \A old \in StoredAt(t, k) : old.ref["tenants"] = new.ref["tenants"]
    BY <2>1, <2>3 DEF KeepsTenants
  <2> QED
    BY <1>5, <2>4, <2>5, <2>6
<1> QED
  BY <1>2, <1>3, <1>4, <1>5

LEMMA UpsertApart ==
  ASSUME Closed(rows), Apart(rows), careful,
         NEW t \in RowTables, NEW k, NEW f \in Refs(t), Upsert(t, k, f)
  PROVE  Apart(rows')
<1> DEFINE new == [table |-> t, key |-> k, ref |-> f]
<1>1. new.table = t /\ new.key = k /\ Resolves(new, rows) /\ KeepsTenants(new)
  BY DEF Upsert
<1>2. CASE StoredAt(t, k) = {}
  <2>1. rows' = (rows \ StoredAt(t, k)) \cup {new}
    BY <1>2 DEF Upsert
  <2> HIDE DEF new
  <2>2. Apart((rows \ StoredAt(t, k)) \cup {new})
    BY <1>1, SavedApart
  <2> QED
    BY <2>1, <2>2
<1>3. CASE StoredAt(t, k) # {}
  <2> DEFINE old == CHOOSE r \in StoredAt(t, k) : TRUE
             w == Updated(old, new)
  <2>1. old \in StoredAt(t, k)
    BY <1>3
  <2>2. rows' = (rows \ StoredAt(t, k)) \cup {w}
    BY <1>3 DEF Upsert
  <2> HIDE DEF old
  <2>3. /\ w.table = t /\ w.key = k /\ (t # "chunks" => w = new)
        /\ t = "chunks" => w.ref["tenants"] = old.ref["tenants"]
    <3>1. CASE t # "chunks"
      BY <3>1 DEF Updated
    <3>2. CASE t = "chunks"
      <4> DEFINE kept == [new EXCEPT !.ref["tenants"] = old.ref["tenants"]]
      <4>1. w = kept
        BY <3>2 DEF Updated
      <4>2. kept = [table |-> t, key |-> k, ref |-> [f EXCEPT !["tenants"] = old.ref["tenants"]]]
        OBVIOUS
      <4>3. "tenants" \in DOMAIN f
        BY <3>2 DEF Refs, ForeignKeys
      <4> QED
        BY <3>2, <4>1, <4>2, <4>3
    <3> QED
      BY <3>1, <3>2
  <2> HIDE DEF new, w
  <2>7. Apart((rows \ StoredAt(t, k)) \cup {w})
    BY <1>1, <2>1, <2>3, SavedApart
  <2> QED
    BY <2>2, <2>7
<1> QED
  BY <1>2, <1>3

LEMMA UpdateDocumentApart ==
  ASSUME Closed(rows), Apart(rows), careful, NEW k, NEW f, UpdateDocument(k, f)
  PROVE  Apart(rows')
<1> DEFINE new == [table |-> "documents", key |-> k, ref |-> f]
<1>1. /\ Resolves(new, rows) /\ KeepsTenants(new)
      /\ rows' = (rows \ StoredAt("documents", k)) \cup {new}
  BY DEF UpdateDocument
<1>2. new.table = "documents" /\ new.key = k /\ "documents" \in RowTables
  BY DEF RowTables, ForeignKeys
<1> HIDE DEF new
<1>3. Apart((rows \ StoredAt("documents", k)) \cup {new})
  BY <1>1, <1>2, SavedApart
<1> QED
  BY <1>1, <1>3

\* References resolve, and while the callers keep the tenants apart so do the rows.
RowsInv == Closed(rows) /\ TenantsAgree

\* No row of a tenant comes to refer to a row of another, but for chunks: what a save
\* replaces has the tenant it is saved with or none that refers to it, what refers to
\* a key that is saved anew is gone with its old row, and a delete only takes away.
THEOREM TenantsAlwaysAgree == Spec => []TenantsAgree
<1>1. Init => RowsInv
  BY DEF Init, RowsInv, TenantsAgree, Closed
<1>2. RowsInv /\ [Next]_vars => RowsInv'
  <2> SUFFICES ASSUME Closed(rows), careful => Apart(rows), [Next]_vars
               PROVE  /\ Closed(rows)'
                      /\ careful' = careful
                      /\ careful => Apart(rows')
    BY DEF RowsInv, TenantsAgree, Apart, TenantAgrees, Refers, ForeignKeys
  <2>1. ASSUME UNCHANGED <<rows, careful>>
        PROVE  Closed(rows)' /\ careful' = careful /\ (careful => Apart(rows'))
    BY <2>1 DEF Closed, Resolves, Refers
  <2>2. CASE RunAll \/ ApplyNext \/ ApplyFails \/ MigratorStops \/ UNCHANGED vars
    BY <2>1, <2>2 DEF RunAll, ApplyNext, ApplyFails, MigratorStops, vars
  <2>3. ASSUME NEW t \in RowTables, NEW k, NEW f \in Refs(t), Upsert(t, k, f)
        PROVE  Closed(rows)' /\ careful' = careful /\ (careful => Apart(rows'))
    <3>1. careful' = careful
      BY <2>3 DEF Upsert, Statement
    <3> QED
      BY <2>3, <3>1, UpsertCloses, UpsertApart
  <2>4. ASSUME NEW D, Statement, rows' = Survivors(D)
        PROVE  Closed(rows)' /\ careful' = careful /\ (careful => Apart(rows'))
    <3>1. careful' = careful
      BY <2>4 DEF Statement
    <3> QED
      BY <2>4, <3>1, DeleteCloses, FewerApart
  <2>5. ASSUME NEW k, NEW f, UpdateDocument(k, f)
        PROVE  Closed(rows)' /\ careful' = careful /\ (careful => Apart(rows'))
    <3>1. careful' = careful
      BY <2>5 DEF UpdateDocument, Statement
    <3> QED
      BY <2>5, <3>1, UpdateDocumentCloses, UpdateDocumentApart
  <2> DEFINE Saves == \E t \in RowTables : \E k : \E f \in Refs(t) : Upsert(t, k, f)
             Deletions == Statement /\ \E D : rows' = Survivors(D)
  <2>0. {"tenants", "documents", "chunk_sets", "chunks", "embedding_sets", "embedding_refs", "jobs"}
          \subseteq RowTables
    BY DEF RowTables, ForeignKeys
  <2>6. \A t \in RowTables : SaveAny(t) => Saves
    BY DEF SaveAny
  <2>7. \A t : DeleteAny(t) => Deletions
    BY DEF DeleteAny, Delete
  <2>8. \A t, p, k : DeleteBy(t, p, k) => Deletions
    BY DEF DeleteBy
  <2>9. CASE PgTenantsRepo \/ PgChunkSetsRepo \/ PgChunksRepo \/ PgEmbeddingSetsRepo \/ PgJobsRepo
    <3>1. \/ Saves
          \/ Deletions
      BY <2>0, <2>6, <2>7, <2>8, <2>9
         DEF PgTenantsRepo, PgChunkSetsRepo, PgChunksRepo, PgEmbeddingSetsRepo, PgJobsRepo
    <3> QED
      BY <2>3, <2>4, <3>1
  <2>10. CASE PgDocumentsRepo
    <3>1. \/ Saves
          \/ \E k, f : UpdateDocument(k, f)
          \/ Deletions
      BY <2>0, <2>7, <2>10 DEF PgDocumentsRepo, InsertDocument
    <3> QED
      BY <2>3, <2>4, <2>5, <3>1
  <2>11. CASE PgEmbeddingsRefRepo
    <3>1. \/ Saves
          \/ Deletions
      BY <2>0, <2>7, <2>8, <2>11 DEF PgEmbeddingsRefRepo
    <3> QED
      BY <2>3, <2>4, <3>1
  <2>12. CASE PgAssetsRepo \/ PgBlocksRepo
    BY <2>1, <2>12 DEF PgAssetsRepo, PgBlocksRepo, SaveRejected, Statement
  <2> QED
    BY <2>2, <2>9, <2>10, <2>11, <2>12 DEF Next
<1>3. RowsInv => TenantsAgree
  BY DEF RowsInv
<1> QED
  BY <1>1, <1>2, <1>3, PTL DEF Spec

-----------------------------------------------------------------------------
(* The order of the migrations.                                            *)

Created(n) == {Migrations[i].creates : i \in 1..n}

\* Each migration that creates a table comes after those of the tables it refers to.
LEMMA MigrationsInOrder ==
  ASSUME NEW n \in 1..Len(Migrations), Migrations[n].creates \in RowTables
  PROVE  ForeignKeys[Migrations[n].creates] \subseteq Created(n - 1) \cap RowTables
<1> DEFINE table == Migrations[n].creates
<1>1. n \in 1..11
  BY DEF Migrations
<1>2. /\ Migrations[1].creates = "tenants" /\ Migrations[2].creates = "documents"
      /\ Migrations[3].creates = "assets" /\ Migrations[4].creates = "blocks"
      /\ Migrations[5].creates = "chunk_sets" /\ Migrations[6].creates = "chunks"
      /\ Migrations[7].creates = "embedding_sets"
  BY DEF Migrations
<1>3. ASSUME NEW i \in 1..(n - 1) PROVE Migrations[i].creates \in Created(n - 1)
  BY DEF Created
<1>4. n > 1 => "tenants" \in Created(n - 1)
  BY <1>1, <1>2, <1>3
<1>5. n > 2 => "documents" \in Created(n - 1)
  BY <1>1, <1>2, <1>3
<1>6. /\ n > 5 => "chunk_sets" \in Created(n - 1)
      /\ n > 7 => {"chunks", "embedding_sets"} \subseteq Created(n - 1)
  BY <1>1, <1>2, <1>3
<1>7. RowTables = {"tenants", "documents", "assets", "blocks", "chunk_sets", "chunks",
                   "embedding_sets", "embedding_refs", "jobs"}
  BY DEF RowTables, ForeignKeys
<1>8. CASE table = "tenants"
  <2>1. ForeignKeys["tenants"] = {}
    BY DEF ForeignKeys
  <2> QED
    BY <1>8, <2>1
<1>9. CASE table \in {"documents", "jobs"}
  <2>1. n > 1
    BY <1>1, <1>2, <1>9
  <2>2. ForeignKeys[table] = {"tenants"}
    BY <1>9 DEF ForeignKeys
  <2> QED
    BY <1>4, <1>7, <2>1, <2>2
<1>10. CASE table \in {"assets", "blocks", "chunk_sets"}
  <2>1. n > 2
    BY <1>1, <1>2, <1>10
  <2>2. ForeignKeys[table] = {"tenants", "documents"}
    BY <1>10 DEF ForeignKeys
  <2> QED
    BY <1>4, <1>5, <1>7, <2>1, <2>2
<1>11. CASE table \in {"chunks", "embedding_sets"}
  <2>1. n > 5
    BY <1>1, <1>2, <1>11
  <2>2. ForeignKeys[table] = {"tenants", "chunk_sets"}
    BY <1>11 DEF ForeignKeys
  <2> QED
    BY <1>4, <1>6, <1>7, <2>1, <2>2
<1>12. CASE table = "embedding_refs"
  <2>1. n > 7
    BY <1>1, <1>2, <1>12
  <2>2. ForeignKeys[table] = {"tenants", "chunks", "embedding_sets"}
    BY <1>12 DEF ForeignKeys
  <2> QED
    BY <1>4, <1>6, <1>7, <2>1, <2>2
<1> QED
  BY <1>7, <1>8, <1>9, <1>10, <1>11, <1>12

\* The tables with foreign keys are those of the migrations applied so far.
TablesOK ==
  /\ applied \in 0..11
  /\ migrator = "running" => applied < 11
  /\ tables \cap RowTables = Created(applied) \cap RowTables

\* Whatever else the database held before, and however often migrators are stopped
\* and start again, a table is there before any table that refers to it.
THEOREM TablesAlwaysReferTables ==
  ASSUME \A E \in Existing : E \cap RowTables = {}
  PROVE  Spec => []TablesReferTables
<1>0. Len(Migrations) = 11
  BY DEF Migrations
<1>1. Init => TablesOK
  BY <1>0 DEF Init, TablesOK, Created
<1>2. TablesOK /\ [Next]_vars => TablesOK'
  <2> SUFFICES ASSUME TablesOK, [Next]_vars PROVE TablesOK'
    OBVIOUS
  <2>1. CASE ApplyNext
    <3>1. "" \notin RowTables
      BY DEF RowTables, ForeignKeys
    <3>2. applied' = applied + 1 /\ applied' \in 1..11
      <4>1. migrator = "running" /\ applied' = applied + 1
        BY <2>1 DEF ApplyNext
      <4>2. applied \in 0..11 /\ applied < 11
        BY <4>1 DEF TablesOK
      <4> QED
        BY <4>1, <4>2
    <3>3. Created(applied') = Created(applied) \cup {Migrations[applied'].creates}
      BY <3>2 DEF Created, TablesOK
    <3>4. tables' = (tables \cup {Migrations[applied'].creates}) \ {""}
      BY <2>1, <3>2 DEF ApplyNext
    <3>5. tables' \cap RowTables = Created(applied') \cap RowTables
      BY <3>1, <3>3, <3>4 DEF TablesOK
    <3>6. migrator' = "running" => applied' < 11
      <4>1. migrator' = "running" => applied' # Len(Migrations)
        BY <2>1 DEF ApplyNext
      <4> QED
        BY <1>0, <3>2, <4>1
    <3>7. Created(applied)' = Created(applied')
      BY DEF Created
    <3> QED
      BY <3>2, <3>5, <3>6, <3>7 DEF TablesOK
  <2>2. CASE RunAll
    BY <1>0, <2>2 DEF RunAll, TablesOK, Created
  <2>3. CASE UNCHANGED <<tables, applied>> /\ (migrator' = migrator \/ migrator' # "running")
    BY <2>3 DEF TablesOK, Created
  <2>4. CASE ApplyFails \/ MigratorStops
    BY <2>3, <2>4 DEF ApplyFails, MigratorStops
  <2>5. CASE Statement
    BY <2>3, <2>5 DEF Statement
  <2>6. CASE \/ PgTenantsRepo \/ PgDocumentsRepo \/ PgChunkSetsRepo \/ PgChunksRepo
             \/ PgEmbeddingSetsRepo \/ PgEmbeddingsRefRepo \/ PgJobsRepo \/ PgAssetsRepo \/ PgBlocksRepo
    BY <2>5, <2>6 DEF PgTenantsRepo, PgDocumentsRepo, PgChunkSetsRepo, PgChunksRepo,
         PgEmbeddingSetsRepo, PgEmbeddingsRefRepo, PgJobsRepo, PgAssetsRepo, PgBlocksRepo,
         SaveAny, DeleteAny, Upsert, Delete, DeleteBy, InsertDocument, UpdateDocument, SaveRejected
  <2>7. CASE UNCHANGED vars
    BY <2>3, <2>7 DEF vars
  <2> QED
    BY <2>1, <2>2, <2>4, <2>6, <2>7 DEF Next
<1>3. TablesOK => TablesReferTables
  <2> SUFFICES ASSUME TablesOK, NEW t \in tables \cap RowTables PROVE ForeignKeys[t] \subseteq tables
    BY DEF TablesReferTables
  <2>1. PICK n \in 1..applied : t = Migrations[n].creates
    BY DEF TablesOK, Created
  <2>2. n \in 1..Len(Migrations)
    BY <1>0, <2>1 DEF TablesOK
  <2>3. ForeignKeys[t] \subseteq Created(n - 1) \cap RowTables
    BY <2>1, <2>2, MigrationsInOrder
  <2>4. Created(n - 1) \subseteq Created(applied)
    BY <2>1 DEF TablesOK, Created
  <2> QED
    BY <2>3, <2>4 DEF TablesOK
<1> QED
  BY <1>1, <1>2, <1>3, PTL DEF Spec
=============================================================================
