------------------------------ MODULE Indexing ------------------------------
(***************************************************************************)
(* The indexer (contexide-indexer), the shape checks of the embeddings     *)
(* providers and the Qdrant store, for one collection that several calls   *)
(* of index share with drop_collection, delete_by_ids and search. The sink *)
(* of the indexer has no implementation in the repository: here it is the  *)
(* Qdrant store, which ignores the dimension it is asked for and creates   *)
(* the collection with its own. Qdrant and the provider's server are       *)
(* external: one call of theirs is one step, which may fail. The store    *)
(* sends its upserts and deletes without asking to wait, so that Qdrant    *)
(* only acknowledges them: it applies them later, in their order, and what *)
(* it has not applied yet no search finds.                                 *)
(***************************************************************************)
EXTENDS Integers, Sequences, FiniteSets

CONSTANTS
  Jobs,       \* calls of index
  Chunks,     \* chunk ids
  Tenants,
  StoreDim,   \* the dimension the Qdrant store is configured with
  Dims,       \* the dimensions providers declare; 0 is unknown
  Requests,   \* the requests to consider, see Request
  Searches,   \* the sets of conditions to search with, see Conditions
  IdLists,    \* the lists of ids to delete
  SearchLimits,  \* how many hits a search asks for
  MaxFaults,  \* bound on the failures of Qdrant and of the provider
  MaxOps,     \* bound on drops, deletes, searches and repeated calls
  Absent

VARIABLES
  collection,  \* its dimension, or Absent
  points,      \* the point of a chunk that a search can find, or Absent
  accepted,    \* the changes of points that are acknowledged and not yet applied
  job,         \* the state of each call
  stands,      \* the calls that succeeded and of which no chunk was deleted since
  indexedFor,  \* what the point of a chunk was made from: its tenant and page as given
  search,      \* the search just made, its conditions, limit and hits, or Absent
  faults, ops  \* failures and operations so far

vars == <<collection, points, accepted, job, stands, indexedFor, search, faults, ops>>

\* The page of a chunk in its extra payload: a number, or a list of numbers.
Pages == [list : {FALSE}, of : {{1}, {2}}] \cup [list : {TRUE}, of : SUBSET (1..2)]

\* A chunk to index with the extra payload: a page, and perhaps a tenant_id.
Input == [chunk : Chunks, page : Pages, tenant_id : Tenants \cup {Absent}]

Request == [tenant : Tenants, inputs : Seq(Input), dims : Dims]

\* json_to_qdrant_value: a number stays one, and the numbers of a list become strings.
JsonToQdrantValue(p) == {[text |-> p.list, n |-> k] : k \in p.of}

Point(vector, payload) ==
  [of |-> vector.of, dim |-> vector.dim,
   tenant_id |-> payload.tenant_id, page |-> JsonToQdrantValue(payload.page)]

\* A change of one point: the point to store, or Absent to delete the one there is.
Change(c, point, from) == [chunk |-> c, point |-> point, from |-> from]

-----------------------------------------------------------------------------
(* The pure parts.                                                         *)

\* Mutation of BuildPayload: the extra payload is merged over the ids.
BuildPayloadOver(req, i) ==
  [tenant_id |-> IF req.inputs[i].tenant_id = Absent THEN req.tenant ELSE req.inputs[i].tenant_id,
   page      |-> req.inputs[i].page]

\* build_payload: the ids of the request are not overwritten.
BuildPayload(req, i) == [tenant_id |-> req.tenant, page |-> req.inputs[i].page]

\* Mutation of ShapeAgrees: the vectors are not counted.
ShapeDimsOnly(vectors, n, dims) == \A i \in DOMAIN vectors : vectors[i].dim = dims

\* validate_batch_shape, and once more the indexer's own checks.
ShapeAgrees(vectors, n, dims) ==
  Len(vectors) = n /\ \A i \in DOMAIN vectors : vectors[i].dim = dims

\* The points of an upsert, as many as there are both inputs and vectors. The id of a
\* point is its chunk: the last of several inputs for one chunk stays.
Upserts(req, vectors) ==
  [i \in DOMAIN vectors |->
     Change(req.inputs[i].chunk, Point(vectors[i], BuildPayload(req, i)),
            [tenant |-> req.tenant, page |-> req.inputs[i].page])]

ChunksOf(req) == {req.inputs[i].chunk : i \in DOMAIN req.inputs}

\* A condition of a search, with the value it compares to: a string, an integer,
\* a list of either, or a value Qdrant cannot match (null, a fraction, an object).
Conditions ==
  [key : {"tenant_id"}, type : {"string"}, value : Tenants]
    \cup [key : {"page"}, type : {"integer"}, value : 1..2]
    \cup [key : {"page"}, type : {"integers", "other"}, value : {{1, 2}}]
    \cup [key : {"tenant_id"}, type : {"strings"}, value : {Tenants}]

\* to_filter: the conditions that have a match value; the others are dropped,
\* and with none left the search has no filter.
Filter(conds) == {c \in conds : c.type # "other"}

\* A field that is a list matches with one element that does. A list to compare to
\* becomes "any of its strings", also a list of integers, which has none.
Matches(point, c) ==
  CASE c.type = "string"   -> point.tenant_id = c.value
    [] c.type = "strings"  -> point.tenant_id \in c.value
    [] c.type = "integer"  -> [text |-> FALSE, n |-> c.value] \in point.page
    [] c.type = "integers" -> FALSE

Matching(conds) ==
  {k \in Chunks : points[k] # Absent /\ \A c \in Filter(conds) : Matches(points[k], c)}

\* The nearest of the matching points, as many as the limit allows: which ones these
\* are depends on vectors that are not modelled.
Hits(conds, limit) ==
  LET n == Cardinality(Matching(conds)) IN
  {H \in SUBSET Matching(conds) : Cardinality(H) = IF n <= limit THEN n ELSE limit}

-----------------------------------------------------------------------------
(* One call of index.                                                      *)

Goto(j, step) == job' = [job EXCEPT ![j].step = step]

\* A request without inputs returns at once, one without a dimension fails.
Begin(j) ==
  /\ job[j].step = "new"
  /\ Goto(j, IF job[j].req.inputs = <<>> THEN "empty"
             ELSE IF job[j].req.dims = 0 THEN "error" ELSE "exists")
  /\ search' = Absent /\ UNCHANGED <<collection, points, accepted, stands, indexedFor, faults, ops>>

\* ensure_collection asks first and creates later.
CollectionExists(j) ==
  /\ job[j].step = "exists"
  /\ Goto(j, IF collection = Absent THEN "create" ELSE "embed")
  /\ search' = Absent /\ UNCHANGED <<collection, points, accepted, stands, indexedFor, faults, ops>>

\* Qdrant refuses to create a collection that another call has created meanwhile.
CreateCollection(j) ==
  /\ job[j].step = "create"
  /\ IF collection = Absent
     THEN collection' = StoreDim /\ Goto(j, "embed")
     ELSE UNCHANGED collection /\ Goto(j, "error")
  /\ search' = Absent /\ UNCHANGED <<points, accepted, stands, indexedFor, faults, ops>>

\* The provider answers with vectors, in the order of the texts: as asked, too
\* few, or of another dimension than it declares.
Embed(j) ==
  /\ job[j].step = "embed"
  /\ LET req == job[j].req n == Len(req.inputs) IN
     \E k \in {n - 1, n}, d \in Dims \ {0} :
       LET vectors == [i \in 1..k |-> [of |-> req.inputs[i].chunk, dim |-> d]] IN
       job' = [job EXCEPT ![j] =
                 IF ShapeAgrees(vectors, n, req.dims)
                 THEN [@ EXCEPT !.step = "upsert", !.vectors = vectors]
                 ELSE [@ EXCEPT !.step = "error"]]
  /\ search' = Absent /\ UNCHANGED <<collection, points, accepted, stands, indexedFor, faults, ops>>

\* Qdrant acknowledges all the points, or refuses them: the collection may be gone, or
\* have another dimension, which Qdrant may also find out only when it applies them.
Upsert(j) ==
  /\ job[j].step = "upsert"
  /\ LET req == job[j].req IN
     \/ /\ collection # Absent
        /\ accepted' = accepted \o Upserts(req, job[j].vectors)
        /\ stands' = stands \cup {j}
        /\ Goto(j, "ok")
     \/ /\ collection # req.dims
        /\ Goto(j, "error")
        /\ UNCHANGED <<accepted, stands>>
  /\ search' = Absent /\ UNCHANGED <<collection, points, indexedFor, faults, ops>>

\* A call to Qdrant or to the provider fails, and so does index. Qdrant may have done
\* what it was asked to: then only the answer was lost.
CallFails(j) ==
  /\ job[j].step \in {"exists", "create", "embed", "upsert"}
  /\ faults < MaxFaults
  /\ faults' = faults + 1
  /\ Goto(j, "error")
  /\ \/ UNCHANGED <<collection, accepted>>
     \/ job[j].step = "create" /\ collection = Absent /\ collection' = StoreDim /\ UNCHANGED accepted
     \/ /\ job[j].step = "upsert" /\ collection # Absent
        /\ accepted' = accepted \o Upserts(job[j].req, job[j].vectors)
        /\ UNCHANGED collection
  /\ search' = Absent /\ UNCHANGED <<points, stands, indexedFor, ops>>

Operation == ops < MaxOps /\ ops' = ops + 1 /\ UNCHANGED faults

\* The caller makes the same call again.
CallAgain(j) ==
  /\ job[j].step \in {"ok", "error"}
  /\ Operation
  /\ Goto(j, "new")
  /\ search' = Absent /\ UNCHANGED <<collection, points, accepted, stands, indexedFor>>

\* Qdrant applies the first change it has acknowledged. A point of another dimension
\* than the collection's is dropped.
Apply ==
  /\ accepted # <<>>
  /\ LET change == accepted[1] c == change.chunk IN
     IF change.point # Absent /\ change.point.dim # collection
     THEN UNCHANGED <<points, indexedFor>>
     ELSE /\ points' = [points EXCEPT ![c] = change.point]
          /\ indexedFor' = [indexedFor EXCEPT ![c] = change.from]
  /\ accepted' = Tail(accepted)
  /\ search' = Absent /\ UNCHANGED <<collection, job, stands, faults, ops>>

-----------------------------------------------------------------------------
(* The other operations of the Qdrant store.                               *)

DropCollection ==
  /\ Operation
  /\ collection # Absent
  /\ collection' = Absent
  /\ points' = [c \in Chunks |-> Absent]
  /\ accepted' = <<>>
  /\ stands' = {}
  /\ search' = Absent /\ UNCHANGED <<job, indexedFor>>

\* Acknowledged as well: the points are there until the deletion is applied.
DeleteByIds(ids) ==
  /\ Operation
  /\ collection # Absent
  /\ accepted' = accepted \o [i \in DOMAIN ids |-> Change(ids[i], Absent, Absent)]
  /\ stands' = {k \in stands : \A i \in DOMAIN ids : ids[i] \notin ChunksOf(job[k].req)}
  /\ search' = Absent /\ UNCHANGED <<collection, points, job, indexedFor>>

\* search and count, which filters in the same way and has no limit.
Search(conds, limit) ==
  /\ Operation
  /\ collection # Absent
  /\ \E H \in Hits(conds, limit) : search' = [conds |-> conds, limit |-> limit, hits |-> H]
  /\ UNCHANGED <<collection, points, accepted, job, stands, indexedFor>>

Init ==
  /\ collection = Absent
  /\ points = [c \in Chunks |-> Absent]
  /\ accepted = <<>>
  /\ job \in [Jobs -> [step : {"new"}, req : Requests, vectors : {<<>>}]]
  /\ stands = {}
  /\ indexedFor = [c \in Chunks |-> Absent]
  /\ search = Absent
  /\ faults = 0
  /\ ops = 0

Next ==
  \/ \E j \in Jobs :
       \/ Begin(j) \/ CollectionExists(j) \/ CreateCollection(j)
       \/ Embed(j) \/ Upsert(j) \/ CallFails(j) \/ CallAgain(j)
  \/ Apply
  \/ DropCollection
  \/ \E ids \in IdLists : DeleteByIds(ids)
  \/ \E conds \in Searches, limit \in SearchLimits : Search(conds, limit)

Spec == Init /\ [][Next]_vars

-----------------------------------------------------------------------------

\* A point of the chunk is stored once all that is acknowledged has been applied.
Stays(c) ==
  LET Deleted(k) == accepted[k].chunk = c /\ accepted[k].point = Absent IN
  \/ points[c] # Absent /\ \A k \in DOMAIN accepted : ~Deleted(k)
  \/ \E i \in DOMAIN accepted :
       /\ accepted[i].chunk = c /\ accepted[i].point # Absent /\ accepted[i].point.dim = collection
       /\ \A k \in i..Len(accepted) : ~Deleted(k)

\* An index call that returned success, in the dimension of the collection, has every
\* chunk it was given stored as soon as Qdrant has applied what it acknowledged, and
\* until one of them is deleted or the collection dropped: no failure in between, no
\* short answer of the provider, no other call and no concurrent drop leaves it half
\* done. And each point is made from its chunk's own text, and of the collection.
IndexedIsStored ==
  /\ \A j \in stands : job[j].req.dims = collection => \A c \in ChunksOf(job[j].req) : Stays(c)
  /\ \A c \in Chunks : points[c] # Absent => points[c].of = c /\ points[c].dim = collection

\* What the chunk was indexed with meets the condition.
Meets(k, c) ==
  CASE c.type = "string"   -> indexedFor[k].tenant = c.value
    [] c.type = "strings"  -> indexedFor[k].tenant \in c.value
    [] c.type = "integer"  -> c.value \in indexedFor[k].page.of
    [] c.type = "integers" -> indexedFor[k].page.of \cap c.value # {}

\* The search found as many of the chunks that meet all its conditions as its limit
\* allows, and nothing else.
FoundAsAsked ==
  LET met == {k \in Chunks : points[k] # Absent /\ \A c \in search.conds : Meets(k, c)} IN
  /\ search.hits \subseteq met
  /\ Cardinality(search.hits) <= search.limit
  /\ Cardinality(met) <= search.limit => search.hits = met

Searched(types) == search # Absent /\ \A c \in search.conds : c.type \in types

NoListStored == \A k \in Chunks : points[k] # Absent => ~indexedFor[k].page.list

\* A search for strings, integers or lists of strings finds, of the points that are
\* applied, those whose chunks meet all its conditions: of a tenant's chunks all that
\* the limit allows, and none that another tenant indexed, even if a payload names
\* that tenant. Not so an integer that is sought among lists of numbers.
SearchExact ==
  /\ Searched({"string", "strings"}) => FoundAsAsked
  /\ Searched({"string", "strings", "integer"}) /\ NoListStored => FoundAsAsked

\* As the documentation of the filters says, strings, numbers and arrays of either are
\* supported. It is not so: a condition that is a list of numbers matches no point, and
\* the numbers of a list in a payload are stored as strings, so that none is found.
FiltersAsDocumented ==
  Searched({"string", "strings", "integer", "integers"}) => FoundAsAsked
=============================================================================
