--------------------------- MODULE MemRepository ---------------------------
(***************************************************************************)
(* The in-memory repositories of contexide-storage-pg under concurrent     *)
(* callers.  A repository is a map by id and, in most of them, an index    *)
(* that lists the ids of an owner: the document of an asset, the set of a  *)
(* chunk, the status of a job.  Map and index have a mutex each and no     *)
(* call holds both (set_status of the jobs excepted), so a call is several *)
(* steps: what it still has to do is in call[c].                           *)
(*                                                                         *)
(* A bucket of the index is a vector of ids; only how often an id is in it *)
(* matters to the properties, so index[o][i] is that number.  The index of *)
(* the jobs is a set.  The other columns of a row are abstracted away,     *)
(* and with them the calls that change one of them only.                   *)
(***************************************************************************)
EXTENDS Integers, FiniteSets

CONSTANTS
  Repos,     \* the repositories to consider
  Ids,       \* row ids
  Owners,    \* values of the indexed column
  Clients,   \* concurrent callers
  SetOfKey,  \* embedding refs: the owner is a part of the key
  MaxCalls,  \* bound on the calls made
  None

RepoNames == {"assets", "blocks", "chunks", "chunk_sets", "embedding_sets",
              "embedding_refs", "jobs", "workflows"}

ASSUME ReposAssumption    == Repos \subseteq RepoNames
ASSUME SetOfKeyAssumption == SetOfKey \in [Ids -> Owners]
ASSUME NoneAssumption     == None \notin Owners
ASSUME MaxCallsAssumption == MaxCalls \in Nat

VARIABLES
  repo,    \* which repository this is
  shared,  \* may two calls at work write the same id?
  store,   \* the map: store[i] is the owner of row i, or None
  index,   \* index[o][i]: how often i is in the bucket of o
  call,    \* what each client's call has still to do
  begun    \* the number of calls made

vars == <<repo, shared, store, index, call, begun>>

Idle == [op |-> "idle"]

CallState ==
  {Idle}
    \cup [op : {"add"}, id : Ids, to : Owners]
    \cup [op : {"move"}, id : Ids, from : Owners, to : Owners]
    \cup [op : {"remove"}, id : Ids, from : Owners]
    \cup [op : {"clear"}, owner : Owners, ids : SUBSET Ids]
    \cup [op : {"list"}, owner : Owners, ids : [Ids -> Nat], quiet : SUBSET Ids]

\* Jobs are indexed by a set of ids, the others by a vector, the workflow
\* repositories not at all.
IsSet == repo = "jobs"

\* The ids that a call at work has written and will write again.
Writes(c) ==
  CASE call[c].op \in {"add", "move", "remove"} -> {call[c].id}
    [] call[c].op = "clear"                     -> call[c].ids
    [] OTHER                                    -> {}

Busy(i) == \E c \in Clients : i \in Writes(c)

\* Callers that do not share ids write only ids nobody else is writing.
Exclusive(S) == shared \/ \A i \in S : ~Busy(i)

-----------------------------------------------------------------------------
(* The index, each operation under its own lock.                           *)

IndexAdd(o, i) == [index EXCEPT ![o][i] = IF IsSet THEN 1 ELSE @ + 1]

\* The first occurrence, if there is one.
IndexRemove(o, i) == [index EXCEPT ![o][i] = IF @ > 0 THEN @ - 1 ELSE 0]

\* Jobs: out of one set and into the other under one lock.
IndexMove(i, from, to) ==
  [o \in Owners |-> [index[o] EXCEPT ![i] = IF o = to THEN 1 ELSE IF o = from THEN 0 ELSE @]]

Bucket(o) == {i \in Ids : index[o][i] > 0}

\* The listings at work can no longer count on S being left alone.
Disturbed(S) ==
  [c \in Clients |-> IF call[c].op = "list" THEN [call[c] EXCEPT !.quiet = @ \ S] ELSE call[c]]

-----------------------------------------------------------------------------
(* The calls.                                                              *)

Begin(c) ==
  /\ call[c] = Idle
  /\ begun < MaxCalls
  /\ begun' = begun + 1
  /\ UNCHANGED <<repo, shared>>

Continue(c) == UNCHANGED <<repo, shared, begun>>

\* Mutation of IndexWork: a changed owner is only added to the index.
IndexWorkAddOnly(i, old, o) ==
  IF old # o THEN [op |-> "add", id |-> i, to |-> o] ELSE Idle

\* What save leaves to do for the index once the row is in the map.
IndexWork(i, old, o) ==
  IF old = None THEN [op |-> "add", id |-> i, to |-> o]
  ELSE IF old # o THEN [op |-> "move", id |-> i, from |-> old, to |-> o]
  ELSE Idle

\* save, and create with a new id: insert under the lock of the map.
SaveRow(c, i, o) ==
  /\ Begin(c)
  /\ Exclusive({i})
  /\ store' = [store EXCEPT ![i] = o]
  /\ call' = [Disturbed({i}) EXCEPT ![c] = IndexWork(i, store[i], o)]
  /\ UNCHANGED index

\* The new row goes into the index.
SaveIndexAdd(c) ==
  /\ call[c].op = "add"
  /\ index' = IndexAdd(call[c].to, call[c].id)
  /\ call' = [Disturbed({call[c].id}) EXCEPT ![c] = Idle]
  /\ Continue(c) /\ UNCHANGED store

\* Mutation of SaveIndexRemove: the call ends here.
SaveIndexRemoveOnly(c) ==
  /\ call[c].op = "move"
  /\ ~IsSet
  /\ index' = IndexRemove(call[c].from, call[c].id)
  /\ call' = [Disturbed({call[c].id}) EXCEPT ![c] = Idle]
  /\ Continue(c) /\ UNCHANGED store

\* The owner changed: out of the old bucket, and with the lock released in
\* between (then SaveIndexAdd) into the new one.
SaveIndexRemove(c) ==
  /\ call[c].op = "move"
  /\ ~IsSet
  /\ index' = IndexRemove(call[c].from, call[c].id)
  /\ call' = [Disturbed({call[c].id}) EXCEPT
                ![c] = [op |-> "add", id |-> call[c].id, to |-> call[c].to]]
  /\ Continue(c) /\ UNCHANGED store

\* The same for jobs, in one step.
SaveIndexMove(c) ==
  /\ call[c].op = "move"
  /\ IsSet
  /\ index' = IndexMove(call[c].id, call[c].from, call[c].to)
  /\ call' = [Disturbed({call[c].id}) EXCEPT ![c] = Idle]
  /\ Continue(c) /\ UNCHANGED store

DeleteRow(c, i) ==
  /\ Begin(c)
  /\ Exclusive({i})
  /\ store[i] # None
  /\ store' = [store EXCEPT ![i] = None]
  /\ call' = [Disturbed({i}) EXCEPT ![c] = [op |-> "remove", id |-> i, from |-> store[i]]]
  /\ UNCHANGED index

DeleteIndexRemove(c) ==
  /\ call[c].op = "remove"
  /\ index' = IndexRemove(call[c].from, call[c].id)
  /\ call' = [Disturbed({call[c].id}) EXCEPT ![c] = Idle]
  /\ Continue(c) /\ UNCHANGED store

\* Mutation of TakeBucket: the bucket is read and stays.
ReadBucket(c, o) ==
  /\ Begin(c)
  /\ Bucket(o) # {}
  /\ Exclusive(Bucket(o))
  /\ call' = [Disturbed(Bucket(o)) EXCEPT ![c] = [op |-> "clear", owner |-> o, ids |-> Bucket(o)]]
  /\ UNCHANGED <<index, store>>

\* delete_by_asset, delete_by_set: the whole bucket is taken off the index; an
\* empty one ends the call.
TakeBucket(c, o) ==
  /\ Begin(c)
  /\ Bucket(o) # {}
  /\ Exclusive(Bucket(o))
  /\ index' = [index EXCEPT ![o] = [i \in Ids |-> 0]]
  /\ call' = [Disturbed(Bucket(o)) EXCEPT ![c] = [op |-> "clear", owner |-> o, ids |-> Bucket(o)]]
  /\ UNCHANGED store

\* Then the rows of the ids taken are removed, whoever owns them now.
RemoveRows(c) ==
  /\ call[c].op = "clear"
  /\ store' = [i \in Ids |-> IF i \in call[c].ids THEN None ELSE store[i]]
  /\ call' = [Disturbed(call[c].ids) EXCEPT ![c] = Idle]
  /\ Continue(c) /\ UNCHANGED index

\* list_by_...: the ids first, under the lock of the index.
ListIds(c, o) ==
  /\ Begin(c)
  /\ call' = [call EXCEPT ![c] = [op |-> "list", owner |-> o, ids |-> index[o],
                                  quiet |-> {i \in Ids : ~Busy(i)}]]
  /\ UNCHANGED <<store, index>>

\* Then their rows, under the lock of the map; see Listed.
ListRows(c) ==
  /\ call[c].op = "list"
  /\ call' = [call EXCEPT ![c] = Idle]
  /\ Continue(c) /\ UNCHANGED <<store, index>>

\* How often ListRows returns row i: once per id of the snapshot, if it is stored.
Listed(c, i) == IF store[i] = None THEN 0 ELSE call[c].ids[i]

\* set_status of the jobs keeps the lock of the map while it moves the index.
SetStatus(c, i, o) ==
  /\ Begin(c)
  /\ Exclusive({i})
  /\ store[i] # None
  /\ store' = [store EXCEPT ![i] = o]
  /\ index' = IndexMove(i, store[i], o)
  /\ call' = Disturbed({i})

-----------------------------------------------------------------------------
(* The repositories: which calls each of them has.                         *)

Upsert(c)   == \E i \in Ids, o \in Owners : SaveRow(c, i, o)
Remove(c)   == \E i \in Ids : DeleteRow(c, i)
ListAll(c)  == \E o \in Owners : ListIds(c, o)
Clear(c)    == \E o \in Owners : TakeBucket(c, o)

AssetsRepo(c)        == Upsert(c) \/ Remove(c) \/ ListAll(c)
BlocksRepo(c)        == Upsert(c) \/ Remove(c) \/ ListAll(c) \/ Clear(c)
ChunksRepo(c)        == Upsert(c) \/ Remove(c) \/ ListAll(c) \/ Clear(c)
ChunkSetsRepo(c)     == Upsert(c) \/ Remove(c) \/ ListAll(c)
EmbeddingSetsRepo(c) == Upsert(c) \/ Remove(c) \/ ListAll(c)

\* A key names its set, so that a save never moves a row.
EmbeddingsRepo(c) ==
  (\E i \in Ids : SaveRow(c, i, SetOfKey[i])) \/ Remove(c) \/ ListAll(c) \/ Clear(c)

JobsRepo(c) ==
  Upsert(c) \/ Remove(c) \/ ListAll(c) \/ \E i \in Ids, o \in Owners : SetStatus(c, i, o)

\* Documents, runs, tasks and attempts: one map and no index, every call one step.
MapSave(c, i, o) ==
  /\ Begin(c)
  /\ store' = [store EXCEPT ![i] = o]
  /\ UNCHANGED <<index, call>>

MapDelete(c, i) ==
  /\ Begin(c)
  /\ store[i] # None
  /\ store' = [store EXCEPT ![i] = None]
  /\ UNCHANGED <<index, call>>

WorkflowRepos(c) == \E i \in Ids : MapDelete(c, i) \/ \E o \in Owners : MapSave(c, i, o)

\* The calls at work, whatever the repository.
Resume(c) ==
  \/ SaveIndexAdd(c) \/ SaveIndexRemove(c) \/ SaveIndexMove(c)
  \/ DeleteIndexRemove(c) \/ RemoveRows(c) \/ ListRows(c)

Init ==
  /\ repo \in Repos
  /\ shared \in BOOLEAN
  /\ store = [i \in Ids |-> None]
  /\ index = [o \in Owners |-> [i \in Ids |-> 0]]
  /\ call = [c \in Clients |-> Idle]
  /\ begun = 0

Next ==
  \E c \in Clients :
    \/ repo = "assets" /\ AssetsRepo(c)
    \/ repo = "blocks" /\ BlocksRepo(c)
    \/ repo = "chunks" /\ ChunksRepo(c)
    \/ repo = "chunk_sets" /\ ChunkSetsRepo(c)
    \/ repo = "embedding_sets" /\ EmbeddingSetsRepo(c)
    \/ repo = "embedding_refs" /\ EmbeddingsRepo(c)
    \/ repo = "jobs" /\ JobsRepo(c)
    \/ repo = "workflows" /\ WorkflowRepos(c)
    \/ Resume(c)

Spec == Init /\ [][Next]_vars

-----------------------------------------------------------------------------

TypeOK ==
  /\ repo \in Repos
  /\ shared \in BOOLEAN
  /\ store \in [Ids -> Owners \cup {None}]
  /\ index \in [Owners -> [Ids -> Nat]]
  /\ call \in [Clients -> CallState]
  /\ begun \in 0..MaxCalls

Indexed == repo # "workflows"

\* When callers do not share ids, the index agrees with the map on every row no
\* call is at work on: one entry in the bucket of its owner and none elsewhere.
\* This is what lets save, delete and delete_by release one lock before they
\* take the other.
IndexAgrees ==
  ~shared /\ Indexed =>
    \A i \in Ids : ~Busy(i) =>
      \A o \in Owners : index[o][i] = IF store[i] = o THEN 1 ELSE 0

\* A listing takes its ids and its rows under different locks. Of the rows that
\* no call writes from before the first step to the second, it still returns
\* exactly those of the owner it was asked for, each once.
ListingExact ==
  ~shared =>
    \A c \in Clients : call[c].op = "list" =>
      \A i \in call[c].quiet :
        Listed(c, i) = IF store[i] = call[c].owner THEN 1 ELSE 0

\* delete_by removes rows by the ids it took from the bucket earlier: they are
\* still rows of that owner when callers do not share ids.
ClearsOwnRows ==
  ~shared =>
    \A c \in Clients : call[c].op = "clear" =>
      \A i \in call[c].ids : store[i] = call[c].owner

\* Every stored row no call is at work on can be found by a listing.
RowsListed ==
  Indexed =>
    \A i \in Ids : ~Busy(i) /\ store[i] # None => index[store[i]][i] > 0

\* Where each call removes only the entry it is answerable for (assets, chunk
\* sets, embedding sets) this is so even when callers write the same row at the
\* same time: entries go stale and double, and none is ever missing. The set of
\* the jobs and the buckets taken by delete_by need callers that do not share ids.
RowsStayListed ==
  repo \in {"assets", "chunk_sets", "embedding_sets"} \/ ~shared => RowsListed
=============================================================================
