# TLA+ models of contexide

contexide is a RAG ingestion pipeline. A control plane (planner and executor)
keeps DAG runs, tasks and attempts in Postgres and talks to worker processes
over NATS; the workers extract, normalize, chunk, embed and index documents.
This directory holds TLA+ modules of the control plane, of the stores and of the
algorithms the workers are to call, TLC configurations that check them and TLAPS
proofs about them. Paths below are relative to
`src/crates/`; `executor/` is `contexide-workflow-executor/src/`.

## 1. The system

| component | state | operations | interacts through |
|---|---|---|---|
| planner (`executor/planner.rs`) | none of its own | `create_dag_run`: saves the run, then each task, with no transaction | the workflow repositories |
| scheduler (`executor/scheduler.rs`, `domain.rs`, `storage.rs`) | retry policy, `max_batch` | `schedule_ready_tasks` (list, check siblings, save attempt, save task, mark run), `handle_worker_status` (deduplicate, save attempt, save task, fan out, derive the run's status) | the workflow repositories |
| messaging and runtime (`executor/messaging.rs`, `runtime.rs`) | a subscription; two tokio tasks | `pump_requests` + sleep in one loop, `listen_worker_statuses` in the other | scheduler, NATS |
| workflow repositories (`contexide-storage-pg/src/workflows*`) | tables `dag_runs`, `tasks`, `task_runs` | `get`, `save` (upsert of the whole row), listings | shared by all processes |
| worker runtime (`contexide-worker-runtime`) | semaphore, set of in-flight tasks, shutdown signal | subscribe, spawn `handle_one` per request, drain on shutdown | NATS |
| worker handlers (`contexide-workers`) | none | one answer per request; stubs in this commit | worker runtime |
| messaging (`contexide-messaging-nats`, `contexide-core/src/messaging`) | NATS connection | publish, subscribe; `ack` and `nack` do nothing | executor, workers |
| per-task retry rules (`executor/retry_logic.rs`, `contexide-core/src/workflow/retry.rs`) | none | read a policy off a task's row, decide retry and delay; not called yet | - |
| DAG and profiles (`contexide-core/src/workflow/dag.rs`, `contexide-workflow-profiles`) | none | build a graph of stages, validate and sort it | - |
| admission limits, policy, priority (`contexide-core/src/workflow`) | none | compare counts, parse words; not called yet | - |
| in-memory repositories (`contexide-storage-pg/src/*/mem.rs`) | a primary map and an index by owner, each under its own mutex | save, delete, delete by owner, list by owner, set status | concurrent callers |
| tenants (`contexide-storage-pg/src/tenants`) | a map and two unique indices, or a table with two unique constraints | create (look up, then insert), save, delete, look up | concurrent callers |
| Postgres schema (`contexide-storage-pg/migrations`, `src/migrator.rs`, `src/*/pg.rs`) | nine tables with foreign keys that cascade | migrate; save, delete, delete by owner, one statement each | all processes |
| indexer, embeddings, vector store (`contexide-indexer`, `contexide-embeddings`, `contexide-vector-qdrant`) | a Qdrant collection and its points | index (ensure collection, embed, upsert), drop, delete, search, count | Qdrant, the embeddings server |
| extractor, blob storage (`contexide-extractor`, `contexide-blob-storage-s3`) | blobs by key | route an asset, fetch, detect its type, make a block; put and delete blobs | S3, web servers |
| chunker (`contexide-chunker-impl`) | none | cut blocks of tokens into overlapping windows | - |
| configuration (`contexide-config`) | the environment | look up each setting under several variables, load group by group | every binary |
| normalizer (`contexide-normalizer`) | none | text to text | - |

`contexide-workflow-core/src/lib.rs` re-exports `contexide-core`; its other
files repeat `contexide-core/src/workflow` and are not compiled.

What is hard: the planner, any number of executors and, in each executor, two
loops share three tables without a transaction; a process may stop between any
two repository calls; each worker replica receives each request and answers it;
requests may be lost; the scan works on rows and sibling lists it read earlier.
The correctness properties that follow from the purpose of each part are:

* scheduler: stages in order, the retry budget, attempt numbering, one final
  outcome per attempt and per task, exact fan-out, a run status that agrees with
  its tasks, and every run settles;
* planner: a run that is only partly saved still makes progress and is not
  declared finished too early;
* messaging: a task that was marked running is answered or retried;
* repositories: rows and indices agree after any interleaving of calls, listings
  and bulk deletes touch the rows of their owner only, names stay unique, and
  rows of one tenant do not come to refer to rows of another;
* indexer: a success means every chunk comes to be stored with its own vector, and a
  search returns what its conditions ask for;
* extractor: a result is explained by what the source held, and a PDF without
  usable text falls back;
* chunker, DAG, retry rules, configuration: no text lost, an order that respects
  all edges, a bounded number of retries with growing delays, no variable that
  feeds two settings;
* worker runtime: at most `max_concurrency` requests in flight, an answer for
  every request that was handled, and a shutdown that ends.

`PROJECT.json` lists the hazards line by line, with the properties that watch
over each of them.

## 2. Modules

| module | content |
|---|---|
| `WorkflowDomain` | the constant rules: status words, stage order, `IsReady`, `DagStatusFromTasks`, `ShouldRetry`, the planner's sequence |
| `WorkflowExecutor` | planner, scheduler, messaging, runtime, the workflow tables, the workers as the executor sees them, crashes and losses |
| `StagedTasks` | abstract specification: what the executor promises about tasks and run statuses |
| `WorkerRuntime` | one worker replica: its loop, semaphore, spawned tasks and shutdown |
| `MemRepository` | the in-memory repositories other than tenants, under concurrent callers |
| `Tenants` | the tenants repository in memory and in Postgres, under concurrent callers |
| `PgSchema` | the migrations, the foreign keys, and the statements of the Postgres repositories |
| `Indexing` | concurrent index calls, drops, deletes and searches over one Qdrant collection |
| `Extraction` | the extraction of one asset while its blob or page changes; the blob store |
| `Chunker` | the two sliding-window chunkers |
| `Dag` | Kahn's algorithm of `topo_order` and `validate`, and the graphs of the profiles |
| `RetryRules` | the per-task retry policy and its backoff |
| `Config` | the resolution of settings and the loaders |
| `MCWorkflowExecutor` | `WorkflowExecutor` as it is, for TLC |
| `MCPipelines` | three instances of `WorkflowExecutor` for TLC: the whole pipeline, with or without crashes, two replicas of each worker, two executors; each behaviour is one of them |
| `MCProgress` | `WorkerRuntime` and `WorkflowExecutor` for TLC, for what must eventually happen; each behaviour exercises one of them |
| `MCStorage` | `MemRepository`, `Tenants`, `PgSchema`, `Extraction` and `Indexing` for TLC; each behaviour exercises one of them |
| `MCRules` | `Chunker`, `Dag`, `RetryRules` and `Config` for TLC, in the same way |
| `WorkflowExecutorProofs` | theorems and proofs about `WorkflowExecutor` with any number of executors |
| `OneExecutorProofs`, `StageOrderProofs` | the same with one executor: rows and attempts (and, with one replica, the attempts of several executors); stages, fan-out, status of runs, refinement |
| `StagedTasksProofs`, `WorkerRuntimeProofs`, `PgSchemaProofs` | theorems and proofs about the module they are named after |
| `StorageProofs` | theorems and proofs about the stores, those of the instances of `MCStorage` with its constants left open |
| `RulesProofs` | theorems and proofs about `Chunker` and, by `MCRules` with its constants left open, `RetryRules`, `Dag` and `Config` |

### State of `WorkflowExecutor` and the code

* `dagRun`, `task`, `attempts` are the status columns of the three tables
  (`attempts[t]` is the sequence of the task's `task_runs` rows with their
  `attempt_no`); `result` is the number of `chunk_set_ids` in a task's result
  column, `created` and `clock` the order of `created_at`. A row that nobody
  saved is `Absent`.
* `pump[e]` holds the locals of one call of `pump_requests`: the rows still to
  look at (`todo`), the listed rows' result column (`row`), the runs whose
  siblings were listed and what was read (`listed`, `seen`), the current task,
  its attempt count, and the `ReadyTask`s to publish. `handler[e]` holds the
  locals of one call of `handle_worker_status`.
* `requests` are requests at a worker replica, `statuses[e]` the messages in
  executor e's subscription. Both are sets: nothing in the code depends on the
  order of messages of different tasks, and those of one task may overtake each
  other (different replicas publish them).
* `planned` and `abandoned` are the progress of each planner call; `up`,
  `crashes` and `losses` the failures.

One action is one repository call or one message, together with the local
computation up to the next call; the comment before each action names the code.
A crash may fall between any two actions. The actions of the pump are, in code
order, `PumpList`, `PumpConsider` (siblings and readiness), `PumpCountAttempts`,
`PumpSaveTaskRun`, `PumpSaveTask`, `PumpGetDag`, `PumpSaveDag`, then, when the
scan is over, `PumpPublish` and `PumpSleep`; those of the status loop are
`HandlerReceive`, `HandlerSaveTaskRun`, `HandlerGetTask`, `HandlerListAttempts`,
`HandlerSaveTask`, `HandlerFanOut`, `HandlerGetDag`, `HandlerListTasks` and
`HandlerSaveDag`. `HandlerGetDag` to `HandlerSaveDag` stand for both copies of
that code, after a success and after a failure.

Abstracted or left out: payloads, error texts, tenants, the columns the executor
never branches on; a round of the pump that lists nothing; the poll interval. A
storage or decoding error ends a loop and with it the process, which is
`ExecutorCrash`. The listing follows the Postgres repository (oldest first); the
in-memory one, used in tests, sorts by id. The workers are external to the
executor: each handler of this commit always succeeds and a chunker announces one
chunk set, while the model allows what the message contract does (`Answers`).

### State of `WorkerRuntime` and the code

`runner` is where `WorkerRunner::run` is: in its `select`, waiting for a permit
inside the subscription's arm, in the drain, or returned. `stage[r]` is where a
request is: not arrived, in the subscription's buffer, in the loop's hands, in a
spawned `handle_one` (before decoding, in the handler, before the publish), in
the NATS client's queue, answered, nacked, or aborted. `permits` is the
semaphore, `signalled` the shutdown future, `closed` the end of the
subscription. The actions of the loop are `SelectShutdown`, `SelectMessage`,
`SelectClosed`, `Acquire`, `DrainDone` and `GraceElapses`, those of a task
`Decode`, `NackMalformed`, `HandlerReturns`, `NackFailed` and `Publish`. NATS and
the operating system are `Deliver`, `CloseSubscription`, `Flush`, `Signal` and
`Exit`. `WorkflowExecutor` sees a request that is answered here as
`WorkerAnswer`, and one that is nacked, aborted or not sent as `WorkerLose`.

### The stores and the code

`MemRepository`: `store` is the primary map reduced to the indexed column, and
`index[o][i]` how often id i is in the bucket of owner o. The mutexes are never
held together (but in `set_status` of the jobs), so one action is one critical
section, and `call[c]` says what the call of client c has still to do: `save` is
`SaveRow` and then `SaveIndexAdd`, or `SaveIndexRemove` and `SaveIndexAdd`
(`SaveIndexMove` for the jobs, whose bucket is a set); `delete` is `DeleteRow` and
`DeleteIndexRemove`; `delete_by_...` is `TakeBucket` and `RemoveRows`; `list_by_...`
is `ListIds` and `ListRows`. `repo` chooses the repository and with it the calls
there are; the documents and the workflow tables are maps without an index. `shared`
says whether two callers may write one id at the same time. Nothing in the
repository promises that they do not, nothing in it does it, and the index is
exact only if they do not: what still holds if they do is `RowsStayListed`.

`Tenants`: `create` is `CreateReadName`, `CreateReadEmail` and then
`CreateExisting` or the insertion, in memory `SaveName`, `SaveEmail`, `SaveRow`, in
Postgres one statement under two constraints (`InsertNew`); `delete` in memory is
`DeleteRow` and `DeleteEntries`. `contract` says what callers do: calls about one
name or email do not overlap, or do, or save also renames. Each property names the
contracts under which it holds; TLC shows the others to fail.

`PgSchema`: `tables` and `applied` are the database as the migrator leaves it after
`ApplyNext`, `ApplyFails` and `MigratorStops`. A row is its table, key and
references. `Upsert`, `Delete`, `DeleteBy`, `InsertDocument` and `UpdateDocument`
are the statements; `Survivors` is what ON DELETE CASCADE leaves, and `Resolves` what
the foreign keys demand: that references resolve is Postgres' promise, and no property
here. What Postgres does not check is that a row and the rows it refers to have one
tenant. The callers are to see to it, and none is in the repository: `careful` says
whether they do (`KeepsTenants`), and `TenantsAgree` what then comes of it. The
columns that
the migrations give to `assets` and `blocks` are not the ones their repositories
name, so that every save of these is `SaveRejected`.

`Indexing`: a call goes through `Begin`, `CollectionExists`, `CreateCollection`,
`Embed` and `Upsert`; `CallFails` is any of its external calls failing, perhaps after
Qdrant has done what it was asked to (only the answer is lost), and `CallAgain` the
same call made once more. The sink of the indexer has no implementation in the
repository: the model connects it to the Qdrant store, whose operations have the same
shape. The store upserts and deletes without asking Qdrant to wait, so that a call
which returns success has an acknowledgement: `accepted` is the sequence of changes
that are acknowledged and not applied, `Apply` applies the first, and a search sees
`points`, the applied ones. That Qdrant applies in the order in which it acknowledged
(by its write-ahead log) and does not lose what it acknowledged is an assumption about
it, as is that it may find out a wrong dimension only then. Payloads are stored as
`JsonToQdrantValue` makes them: a number stays one, the numbers of a list become
strings. A search returns as many matching points as its limit allows (`Hits`); which
are nearest depends on vectors, which the model does not have, so that any of them may
be. `stands` and `indexedFor` are history variables of
the properties. `Extraction`: `Choose` routes, `PdfExtract`, `FileExtract` and
`HttpExtract` fetch and make a block or hand over; `PutBytes`, `PutReader`,
`Delete` and `PageChanges` are others. Bytes are one of eight formats; `held` and
`seen` are history variables that record the contents by name, whatever spelling
of the key was used, and those the source had during the extraction.

### The rules and the code

`Chunker` takes one iteration of the window loop per step (`Emit`, `Drop`) and
differs between the two implementations in `Keep` only. `Dag` takes one edge per
step (`ReadEdge`), looks at one node to fill the queue (`QueueNode`), takes one node
off it (`Pop`) and one of its list entries (`Relax`).
`RetryRules` follows a task from attempt to attempt. The rules document attempts that
are numbered from 1, while `decide_retry_for_task` passes on the stored number, which
counts from 0; nothing calls it yet. `FirstNumbers` says which: `rules` takes 1, and
`retries` shows what 0 does. `Config` resolves the settings of one group per step, under every environment
that sets two variables.

### The abstract specification

`StagedTasks` has only the status of each task and the reported status of each
run. A task is added while no later stage has begun, starts when all earlier
stages have succeeded, ends or goes back to pending; a report of a run is true at
the moment it is made. `WorkflowExecutor` instantiates it with
`state <- task, report <- dagRun` and stages from `OrderingForKind`. The
refinement holds for one executor and runs that were planned before it started:
with a planner at work, a task may be added between the listing and the save of
a run's status, and the report is no longer true; two executors may overwrite
each other's outcome.

## 3. Runs

| run | instance | what it shows |
|---|---|---|
| `pipelines` | see below | stages in order, exact fan-out, the run status agrees with its tasks, outcomes are recorded once and have an attempt as evidence |
| `crash` | five stages, one executor, two crashes, one lost request | types, references, attempt budget, numbering and final outcomes under crashes; implements `StagedTasks` |
| `progress` | see below | permits are conserved, a shutdown drops no request in hand and leaves none in flight, requests are served, the shutdown ends; every run settles |
| `storage` | see below | the stores agree with themselves under concurrent callers, failures and changing sources |
| `rules` | see below | the algorithms meet their reference definitions |

Four of the runs explore several instances at once, one per behaviour. Of `pipelines`:
five stages of one executor whose chunker and embedder may fail, with 0 to 2 chunk sets
and 2 attempts (all its properties); chunker, embedder and indexer with two replicas
that may contradict each other (all of them too); one task and two executors with one
attempt in the budget (`OutcomeHasEvidence`, `AttemptOutcomeFinal`, and `StagesInOrder`
and `FanOutExact`, which say nothing of a single task). `RunStatusAgrees` and
`OutcomeStaysFinal` are `DagStatusAgrees` and `TaskOutcomeFinal` where one executor is
at work. Of `progress`: a replica with two permits, a good, an undecodable, a failing
and a hanging request, and a signal and a closed subscription at any time (`TypeOK` to
`ShutdownEnds`); a live planner that may stop part-way, with chunker and embedder that
may fail (`RunsSettle`). Of
`storage`: three callers, two ids and two owners with four calls, for each of the
in-memory repositories (`IndexAgrees`, `ListingExact`, `ClearsOwnRows`,
`RowsStayListed`); two callers and four calls about two names and emails
(`TenantsUnique`, `FoundByBoth`, `LookupsResolve`); a schema that starts with or
without the workflow tables, one stopped migrator, two tenants, two documents and
seven statements of callers that keep the tenants apart or do not (`TenantsAgree`,
`TablesReferTables`); one asset of every type and spelling of
its key, with one change by others (`OutcomeExplained`); two index calls with
overlapping chunks, one failure and two operations, searches with a limit of 1 or 2
(`IndexedIsStored`, `SearchExact`). Of `rules`: every specification with window and overlap up to 4 and
minimum up to 5, valid or not, for two blocks of up to 8 tokens
(`ChunksCoverBlocks`); every graph on up to three nodes and four edges, duplicate
keys and dangling edges included, and profiles of up to three assets
(`OrderIsTopological`, `ProfilesRunInStages`); every retry policy, limits from -1 to
2, 20 attempts numbered from 1 (`RetriesBounded`, `DelaysGrow`); every pair of one variable and one
of six chosen ones, with four kinds of values (`OneVariableOneSetting`).

The seven other runs check a sentence of the repository that the code does not keep:

| run | property | what TLC finds |
|---|---|---|
| `stranded` | `RunningIsAnswered`, one crash | a task marked running whose request was never published stays running |
| `crash_loses_fanout` | `FanOutExact`, one crash | the chunker task is successful, its embedder tasks do not exist, and the indexer runs |
| `premature_success` | `DagSuccessFinal`, live planner | a run with one saved task becomes successful and then running again |
| `filters` | `FiltersAsDocumented` | a condition on a list of integers matches no point: `to_match_value` takes the list for one of strings, and finds none in it |
| `pdf_fallback` | `FailedPdfFallsBack` | a PDF the parser fails on ends the extraction with an error, where the comments promise a binary block or the fallback |
| `retries` | `BackoffAsDocumented`, attempts numbered from 0 | with `max_attempts` of 1, the first attempt, number 0, is followed by another, and by a delay of the base where the policy documents base times 2^1 |
| `migrations` | `MigrationsApply` on an empty database | the tenth migration alters `tasks` and `task_runs`, which no migration creates, and the migrator ends with an error |

Two more disagreements of this kind have no run. `FiltersAsDocumented` is also false of
a single number that is sought in a chunk whose payload has it in a list: the numbers of
a list are stored as strings (`qdrant.rs:297`, where line 6 says passthrough). And the
save of a stored chunk leaves its tenant as it was (`chunks/pg.rs:83`, where line 76
says "update all fields"); `TenantsAgree` would be false of chunks.

### Bounds

* One run of the pipeline: runs share no row; what two runs share is the
  listing, which matters only with a cap, and the loops' time.
* Two attempts per task: the first failure retries, the second is final, so both
  sides of the boundary occur. `FallibleKinds` holds the kinds whose failure
  differs: the chunker (before the fan-out) and the embedder (planned and
  fanned-out tasks side by side). One attempt where there are two executors, as their
  two scans already make two.
* `MaxFanOut` 2 and 0, 1 or 2 chunk sets: none, one, and two saves with a scan
  between them.
* Two crashes, so that a restarted executor may crash again on what the first
  crash left; one lost request; two replicas, the least that can contradict each
  other; one abandoned planner.
* Four requests at a replica with two permits: one of each sort, and more than the
  permits, so that the loop waits for one. One hanging handler is one fewer than
  the permits.
* Four calls on an in-memory repository: enough for a row to be stored, moved by
  one caller, and taken or listed by two others in between. Four tenant calls by
  two callers: two creates that overlap, a delete and a rename. Seven statements
  are the shortest way to a row of `embedding_refs` (tenant, document, chunk set,
  chunk, embedding set, embedding) and a delete above it; a chunk that is moved between
  the sets of two tenants, or a set that is given to another one, takes fewer.
* One change of the source between two fetches; two index calls, the least that
  compete for a collection, with one failure, and two of drop, delete, search and
  repetition. Limits of 1 and 2 are fewer than the points that can match, and as many.
* The windows are larger than their overlap and smaller, blocks are shorter than
  a window, as long, and longer than two; 20 attempts pass the limit of 16 on the
  exponent; three nodes have every shape of cycle that four edges can make.
* Deadlock checking is off: a run that has settled, or a replica that has stopped,
  leaves nothing to do.

### Fairness

`FairSpec` (and `ProgressSpec`, part by part) adds weak fairness to each loop of a running executor, the planner, the
restart of an executor and the answer of a worker. The loops are tokio tasks that
are polled whenever they can go on, each action is a call that returns, and a
deployment restarts its processes. Weak fairness of a whole loop suffices because
in each state of its program counter exactly one of its actions is enabled.
Crashes, losses and an abandoned planner have no fairness.

In `WorkerRuntime` the loop, each spawned task and the NATS client go on whenever
they can, and the grace period elapses; a handler in `Hanging` never returns, and
no request or signal has to arrive. The select picks at random among its ready
arms; weak fairness of the loop is enough, as the requests are finitely many.

### Assumptions of the properties

Many properties say "one executor". With two, one task may be scheduled twice
under the same attempt number, contradictory answers of replicas may be recorded
one over the other, and a task may go back from success to running; the code has
no lock or version that would prevent it. Two executors are a part of `pipelines`, for
what does hold: with a single worker replica, each
attempt is answered at most once, and executors that record its outcome record the
same. `FanOutExact` and `DagStatusAgrees`
say "no crash" because the code has no transaction around the saves they relate.
`StagesInOrder` depends on the planner's embedder task: a run without one could
start its indexer between the save of the chunker task and the save of the
fanned-out embedder tasks.

Two properties depend on a configuration the runs keep. `RunsSettle` needs
`max_batch` unset, its default: with a cap of 1 the indexer task, older than the
fanned-out embedder task it waits for, is the only row of every listing.
`ShutdownEnds` needs fewer hanging handlers than permits: with as many, the loop
waits for a permit with a request in hand, never sees the signal, and the grace
period never begins; so it is with `max_concurrency` 0, which the configuration
accepts.

`IndexAgrees`, `ListingExact` and `ClearsOwnRows` assume that callers do not write
the same id at once. `TenantsUnique` in memory assumes that creates of one tenant do
not overlap; `LookupsResolve` that no save renames. `TenantsAgree`
assumes careful callers (`KeepsTenants`) and leaves the chunks themselves out, whose
saves do not write the tenant. `IndexedIsStored` is about
calls in the dimension of the collection: the Qdrant store ignores the dimension it is
asked for, and a success in another one may store nothing. `SearchExact` is about
conditions on strings, lists of strings and, as long as no chunk with a list of numbers
is stored, integers: the rest fails (`filters`), and a
condition of any other kind is dropped from the filter. `RetriesBounded` needs attempts
that are numbered from 1. `OutcomeExplained` allows an error for a PDF that the parser
fails on; that it should not be one is `pdf_fallback`.

## 4. Proofs

`WorkflowExecutorProofs` proves, for every number of executors, workers, runs,
attempts, crashes and losses:

* `Invariance`: `Spec => []IInv`, the inductive invariant;
* `TypeCorrect`: `Spec => []TypeOK`;
* `ReferencesAlwaysHold`: `Spec => []ReferencesHold`;
* `FailedBudgetIsSpent`: `Spec => []FailedBudgetSpent`.

`TypeOK` and `ReferencesHold` are not inductive. A message in `statuses` leads to
writes several steps later, from locals: so the invariant must carry through each
program counter what the loop has established. `IInv` is `TypeOK` with

* `DbOK`: a task that exists has a run that exists, an attempt has a task, a
  failed task has spent its budget, and a run whose planner has begun exists;
* `NetOK`: every request and status refers to a saved attempt;
* `PumpOK` for each executor: the rows of the listing exist, the current task
  exists while the program counter is past the readiness check, and every ready
  task has its saved attempt;
* `HandlerOK` for each executor: the message in hand refers to a saved attempt,
  and if the loop is about to save the task as failed, the budget is spent.

Rows are never deleted and attempts never removed (`RowsStay`), which is why
these facts survive the steps of every other process. There is one lemma per
action; actions that only move the locals of a loop share `PumpLocalStep` and
`HandlerLocalStep`. The assumptions are those of `WorkflowExecutor`: a profile
of distinct kinds, a backlog of distinct runs, bounds that are natural numbers,
and a `None` that is no task and no message.

`OneExecutorProofs` and `StageOrderProofs` prove what the properties that say "one
executor" promise, for any number of runs, worker replicas, attempts and lost
requests, and two of them for any number of executors with one replica. Five
assumptions occur, each only in the theorems whose statement it
precedes:

* `OneExecutor`: there is at most one. With two the properties are false
  (section 3); the code expects one and has nothing that enforces it.
* `OneReplica`, in place of `OneExecutor`: there is at most one worker replica. With
  two of both, one executor may record a success over the failure another has recorded.
* `StagedProfile`: the profile names kinds of later stages later and has an embedder
  if it has an indexer. `ProfileSequenceIsStaged` proves it of the profile that the
  planner always uses. Without it an indexer could start before the fan-out
  is saved, and a stage could be passed before the planner fills it.
* `MaxCrashes = 0`, for `FanOutIsExact` and `DagStatusAlwaysAgrees`: the run
  `crash_loses_fanout` shows the first to be false otherwise.
* `PlannedAtStart = Runs`, for the refinement: while the planner is at work a run may
  look finished and change again (`premature_success`), which `StagedTasks` forbids.

| theorem | property | assumes, beside `OneExecutor` or as said | crashes |
|---|---|---|---|
| `TaskOutcomeIsFinal` | `TaskOutcomeFinal` | | any |
| `AttemptOutcomeIsFinal` | `AttemptOutcomeFinal` | | any |
| `AttemptNumbersAlwaysCount` | `AttemptNumbersCount` | | any |
| `OutcomeAlwaysHasEvidence` | `OutcomeHasEvidence` | | any |
| `AnsweredOutcomeIsFinal` | `AttemptOutcomeFinal` | `OneReplica` instead | any |
| `AnsweredOutcomeHasEvidence` | `OutcomeHasEvidence` | `OneReplica` instead | any |
| `BudgetIsKept` | `AttemptsWithinBudget` | | any |
| `FewAttemptsLive` | `OneLiveAttempt` | | any |
| `StagesAlwaysInOrder` | `StagesInOrder` | `StagedProfile` | any |
| `FanOutIsExact` | `FanOutExact` | `StagedProfile` | none |
| `RunFailureIsFinal` | `DagFailureFinal` | | any |
| `DagStatusAlwaysAgrees` | `DagStatusAgrees` | | none |
| `ExecutorImplementsStagedTasks` | `ImplementsStagedTasks` | `StagedProfile`, `PlannedAtStart = Runs` | any |

The inductive invariants come in layers, each inductive with the help of those
before it:

1. `IInv`, above.
2. `PlanSaved`, of any number of executors: the saved tasks of the profile are a
   prefix of it, so that no lower stage is planned after a higher one.
3. `Owned`: who may write what. The pump writes only to rows that are pending, and
   between the listing and the save nothing else makes them otherwise; the status
   loop acts only on an attempt that is not decided and is the last of a running task
   (`Answerable`). So what the pump counted several calls ago is still the number of
   the next attempt, and a late or contradictory status finds its attempt decided.
   The final outcomes, the numbering and the evidence follow from this layer.
4. `WithinBudget` and `FewLive` count. A task that may be tried again has an attempt
   to spare, and a task back to pending has no live attempt, up to one per crash:
   a crash between the save of an attempt and that of its task
   leaves one that nobody answers. `FewLive` counts with the library's facts about
   finite sets, as the live attempts change one at a time.
5. `Staging`: what the scan read of the siblings of a task is out of date by the time
   it starts the task, and still true, because a success is final (3), because the
   listing was taken after the planner had saved the lower stages, if the task was
   there (2), and because a fan-out adds embedder tasks only between the save of the
   chunker's success and the next status, while the embedder task of the profile, which
   the chunker's success has just released, cannot have succeeded.
6. `FanOutCounted`, without crashes: the fan-out that is not complete is in the hands
   of the status loop.
7. `RunsMarked`: a run leaves `created` before any attempt of it reaches a worker, a
   run marked failed has a failed task, and the status that the loop is about to
   save is `failed` exactly if a task has failed. So `running`, which the pump saves, goes
   over `created` only.
8. `ReportTrue` and, without crashes, `DagFollows`: the status that the loop is about to
   write is the one that the rows still say.

Beside these layers stands `OnceSaid`, which needs `OneReplica` and only `IInv`, and
no bound on the executors. `Owned` is false there: two executors may make an attempt
each of one task, and save its row over each other. What is left is the life of one
attempt. It is in one place of one ready list, then in the one request, then in the
one answer, which every executor may receive and hold; while it is in the list or the
request, nothing is recorded of it; and what is recorded of it is what its answer says.
So two status loops in the middle of the same answer, each past the check for a
duplicate, write the same row, and whichever saves the task saves an outcome that its
attempt has. TLC searched twelve million states of two executors with two attempts, a
crash and a lost request for a violation of `OnceSaid`, without finding one and without
finishing.

For the refinement, the variables of `StagedTasks` are functions of the rows, and each
action is shown to be one of its actions or a stutter: the save of a task by the pump
is `Start`, that by the status loop `Finish`, each embedder task saved by the fan-out
`Add`, the save of a run's status by either loop `Report`; every other
action leaves the mapped variables as they are. That the guards of `Start` and
`Report` hold is what `Staging`, `RunsMarked` and `ReportTrue` are for. With
`StagesRespectedAlways` and `OutcomesAreFinal` below, the promises of `StagedTasks`
are promises of the executor.

Most proofs follow one scheme: a lemma per action says what it does to each
variable (`...Does`), and a lemma per conjunct which changes of the rows leave it true
(`...Stays`, `...Kept`), so that what remains for each action is the one local or row
that it changes.

`StagedTasksProofs` proves what `StagedTasks`, which `crash` shows
`WorkflowExecutor` to implement, keeps for every set of tasks, runs and stages:
`TypeCorrect`, `StagesRespectedAlways` (inductive with `TypeOK`: nothing joins a
stage that was passed, and nothing that succeeded changes) and `OutcomesAreFinal`.

`WorkerRuntimeProofs` proves, for every finite set of requests and every limit,
the four safety properties of `WorkerRuntime`: `TypeCorrect`,
`PermitsAlwaysConserved`, `HeldIsHandedOver` and `StopsQuietly`. Their conjunction
is inductive: that a permit taken is still a natural number follows from
`PermitsConserved`, and that `DrainDone` leaves nothing in hand from
`OneHeldWhileAcquiring`. Counting the tasks in flight rests on the library's
facts about adding an element to a finite set and removing one.

### The stores

`StorageProofs` is about the stores that `MCStorage` puts side by side; the run
`storage` gives its constants small values, the theorems leave them open. They say
`StorageSpec => []Inv` for the instances, and for `MemRepository`, which `MCStorage`
extends, `Spec => []Inv`. The assumptions on the constants are in `MCStorage`, and
its runs evaluate them: `Nobody` is no tenant and `Absent` no value it
could be mistaken for (`NobodyAssumption`, `AbsentAssumption`, `BlockAssumption`),
the bound on the calls is a number, the key of an asset is one of the blob store or a
URL and an uploaded one has no leading slash (`AssetsAssumption`: `put_reader` makes
up the key), and requests are what `index` accepts (`RequestsAssumption`).

| theorem | property | holds for any |
|---|---|---|
| `IndexAlwaysAgrees` | `IndexAgrees` | repositories, ids, owners, callers, calls |
| `ListingsAreExact` | `ListingExact` | the same |
| `OwnRowsAreCleared` | `ClearsOwnRows` | the same |
| `RowsAlwaysListed` | `RowsStayListed` | the same, with finitely many callers |
| `TenantsAlwaysUnique` | `TenantsUnique` | ids, names, emails, callers, calls |
| `TenantsAreFound` | `FoundByBoth` | the same |
| `LookupsAlwaysResolve` | `LookupsResolve` | the same |
| `RowsStayApart` | `TenantsAgree` | statements, stops, existing tables |
| `TablesAlwaysRefer` | `TablesReferTables` | the same, if no table of rows exists at first |
| `IndexedAlwaysStored` | `IndexedIsStored` | requests, calls, dimensions, faults, searches, limits, operations |
| `SearchesExact` | `SearchExact` | the same |
| `OutcomesExplained` | `OutcomeExplained` | assets, names, URLs, changes |

**In-memory repositories.** The first three theorems hold for every repository, any ids
and owners and any number of callers. None of the three properties is inductive: they speak of rows that no call is
at work on, or of one kind of call. The invariant says for each call at work what its
rows lack (`WorkOK`): after `SaveRow` of a new row it is in no bucket yet, after one
that moves the row it is in the old bucket only, and so on; the other rows are in the
bucket of their owner (`RestOK`), and no two calls have the same row in hand
(`Disjoint`). The lemma `Touches` does the work: a step of one client that touches only
rows it has in hand and keeps its word about them keeps the invariant. `TypeCorrect`
does not assume that callers do not share ids; the other theorems do, as the properties
say. `RowsAlwaysListed`, for any finite set of callers, covers those that share ids too, in
the repositories where a call removes only the entry it is answerable for. There
`WorkOK` fails, and counting takes its place (`EntriesOK`): of a row and an owner, the
removals still to be made, and one if the row is stored under that owner, are never
more than the entries in the bucket and the additions still to be made. Each step
changes both sides alike, or the left one less; when no call is at
work on the row, an entry is left.

**Tenants.** The invariant is a conjunction per backend and contract of the callers,
as the properties are. In Postgres (`PgOK`) no call is between two steps of an
index and the constraints keep rows apart. In memory, if calls about one name or email
do not overlap or rename only (`MemOK`), callers at work have different names and
emails in hand (`CallersApart`), so what a create has looked up is still so when it
acts on it several locks later (`ReadsHold`), what a save has indexed is still indexed
when it stores the row (`SavesHold`), a delete forgets no name that a row has
(`DeletesHold`), and both indices name every row (`RowsIndexed`). If creates race but no
save renames (`FreshOK`), uniqueness is lost, and what is left is that ids never come
back (`IdsFresh`) and that every index entry is that of its row or of a call that is
still writing or forgetting it (`EntriesExplained`): the last call to end leaves
nothing that points nowhere.

**Postgres.** `PgSchemaProofs` proves for every set of keys, every number of
statements and every schema the migrator may find that careful callers keep the
tenants apart (`TenantsAlwaysAgree`). That references resolve is built into the model,
as it is into Postgres, but the proof needs more of it than the guards give: the rows
that survive a delete are closed under references, because a row that refers to a
removed one is removed with it (`SurvivorsClosed`), so no row is left that refers to a
key which a later save, by another tenant, takes again; and a save that replaces a row
keeps its key, and its tenant if any row refers to it. `TablesAlwaysReferTables` says that a table refers only to
tables that are there however far the migrator came; it assumes that a schema the
migrator finds has none of the tables that hold rows. `StorageProofs` carries both
over to the composition: the steps of `MCStorage` are steps of that specification or
stutter (`SameSchema`, `StorageRunsSchema`).

**Vector store.** That an index call stores what it was asked for follows from
`IndexOK`: between the answer of the provider and the upsert the call has a vector of
each input, made from it and of the dimension of the request; every change that is
acknowledged, and every point that is applied, is made from a chunk, tenant and payload
it was indexed with; and of each chunk of a call that stands there is a point that
stays, among the applied or the acknowledged ones, whichever change `Apply` takes next.
A request may name a chunk several times, so that no place of it in the sequence is
singled out; that some change of it stays is enough, since no upsert deletes.
`SearchExact` is inductive with it: what is applied is what its chunk was indexed with
(`MadeFrom`), so the filter and the conditions as asked agree point by point.

**Extraction.** The invariant (`ExtractOK`) says that under the key every spelling is
normalised to is what was put last, that what the source holds now has been seen, and
that a likely PDF that came to another extractor was no PDF with text when the
PDF extractor looked. So the outcome, made from the second or third fetch of a source
that others change in between, is explained by something the source held.

### The rules

`RulesProofs` proves `ChunksAlwaysCover` for every specification and blocks of any
length. `ChunksCoverBlocks` speaks of the blocks that are through; the invariant adds
where the loop is in the block at work (`Position`) and that the pieces so far cover
it up to the start of the next window and the overlap after that (`Reached`). The
last piece then ends `overlap` tokens into the next window, and a tail that is
dropped, being shorter than the least length, holds fewer than `min - overlap` tokens
that no piece has.

It also proves, for any stored limits, bases and maxima and any defaults,
`RetriesAlwaysBounded` and `DelaysAlwaysGrow`. The assumption (`RetryAssumption`) is
that they are numbers of the kinds the columns hold, or unset. The invariant says that
every retry has waited, as long as the policy has it for the attempt before
(`DelaysKnown`), and the growth is that of one backoff to the next (`BackoffBounds`).
The code caps the exponent at 16, so the powers of two are a finite table (`Powers`) and
need no induction. `NumbersBounded` is the limit in terms of the numbers, whichever they
begin with; that it bounds the attempts assumes that they begin with 1
(`FirstNumbers = {1}`). The delays are natural numbers: the code multiplies with
saturation, and the maximum caps the result either way.

`OrdersAreTopological` is about any node lists, edges and bounds on their number
(`GraphAssumption`: keys of nodes and ends of edges are names of one kind). The
invariant of Kahn's algorithm (`KahnOK`) relates indegrees, queue and order, none of
which the verdict mentions until the end:

* `Into(v)` are the entries of the adjacency lists that lead to `v` and have not been
  taken; the indegree of `v` is their number (`DegreesOK`). All entries of a node are
  untaken until it is sorted, and of the node sorted last those still in `scan`
  (`ScanOK`).
* The *line* is the order followed by the queue. A node is in it, once, exactly when
  its indegree is 0 (`LineOK`; while the queue is filled, only the nodes looked at). So
  `Pop` leaves the line as it is and `QueueNode` and `Relax` add to its end.
* What leads to a node in the line is sorted before it (`DependsOK`), and a root is in
  the line before every node that is no root or a later one (`RootsOK`).

When the queue is empty, a node not sorted has an entry that leads to it from another
one not sorted; if there is any, they make a set without a first node (`UnsortedCycle`),
and if there is none, the least place in the order of any set of nodes is one that no
edge of the set leads to (`SortedAcyclic`): that is `Acyclic`, in which a cycle is a
set of nodes each with an edge from another, and no path has to be followed.

`ProfilesAlwaysInStages` is about any number of assets. `ChainsOK` says where each
stage of each asset is among the nodes and the edges, that its list has the next stage
as its only entry, that the queue is filled with the first stages (`ChainHeads`), and
that the line is a beginning of the order stage by stage (`StageByStage`), as long as
the order plus the number of assets less the entry in hand. If the assets are not
distinct the keys are not, and the graph is refused.

`OneVariableAlwaysOneSetting` is about any environments with finitely many variables.
`ConfigInv` says that what is loaded is what the variables have, and that a failure is
due to a setting that is set and not loaded; each setting changed, and the one that
failed, then has a variable of its own among those set, an injection. That no two
settings share a variable is `NamesApart`: the names are constants, put together of
scope and key, and the prover cannot concatenate strings, so it is an assumption, which
TLC evaluates for all pairs of settings.

### What is only model-checked

* Liveness (`RunsSettle`, `RequestsServed`, `ShutdownEnds`): fairness and ENABLED are
  beyond the prover.
* `NamesApart`, above: TLC evaluates it, and it has no parameter.

## 5. Not modelled, and the plan

* The normalizer: it rewrites text character by character, has no state, and its
  result is wording.
* Admission limits, execution policy and priorities: single comparisons and words,
  which no code calls. The retry columns of the task row, which the scheduler's
  listing resets to defaults, are not read back by any code and not in the model.
* `contexide-workflow-core` beside its re-export: files that are not compiled.
* The executor loop that `tokio::select!` leaves running when the other one ends;
  the poll interval; encodings of messages.
* Presigned URLs, metadata of blocks, scores of a search, the HTTP exchanges with
  providers and Qdrant, and `.env` files. In Postgres the calls that change a
  column that is neither key nor reference.
* Down migrations: no code runs them.

Every invariant and action property of the passing runs is stated by a theorem, under
assumptions that the runs about it meet. The in-memory repositories do not implement a repository whose
operations are one step each, since a listing takes its ids and its rows under two
locks; `ListingExact` states what it promises instead, and is proved.
