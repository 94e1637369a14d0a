-------------------------- MODULE WorkflowExecutor --------------------------
(***************************************************************************)
(* The workflow control plane: the planner that writes a DAG run and its   *)
(* tasks, and the executor processes that schedule tasks, publish worker   *)
(* requests and apply worker statuses, all over one database with no       *)
(* transactions.  An action is one repository call or one message, so any  *)
(* two processes (and the two loops of one process) interleave between     *)
(* every two calls, and a process may stop between them.                   *)
(*                                                                         *)
(* Covered: the planner's partial writes; the pump's listing, its stale    *)
(* sibling cache, its writes from a stale row and the publishing that      *)
(* follows the whole scan; the status loop with its deduplication, fan-out *)
(* and recomputation of the DAG status; several worker replicas answering  *)
(* the same request; several executors; lost requests; executor and        *)
(* planner crashes.  Abstracted: payloads, errors and worker outputs,      *)
(* except the number of chunk sets a chunker announces.                    *)
(***************************************************************************)
EXTENDS WorkflowDomain, Sequences, FiniteSets

CONSTANTS
  Executors,       \* executor processes that share the database
  Workers,         \* replicas of every worker kind; each receives each request
  Runs,            \* DAG run ids
  Profile,         \* the kinds the planner gives a run, in the order it saves them
  Backlog,         \* runs planned before the executors start, in that order
  FallibleKinds,   \* kinds whose worker may report a failure
  ChunkSetCounts,  \* how many chunk_set_ids a chunker's output may hold
  MaxAttempts,     \* RetryPolicy::max_attempts
  MaxBatch,        \* DbScheduler::max_batch; NoCap when it is None
  MaxFanOut,       \* bound: embedder tasks a run may gain by fan-out
  MaxAbandoned,    \* bound: runs whose planner crashes part-way
  MaxCrashes,      \* bound: crashes of executors
  MaxLosses,       \* bound: requests that no status answers
  None

NoCap == 0
Kinds == DOMAIN StageOrder

ASSUME ProfileAssumption  == /\ Profile \in Seq(Kinds) /\ Len(Profile) > 0
                             /\ \A i, j \in DOMAIN Profile :
                                  Profile[i] = Profile[j] => i = j
ASSUME BacklogAssumption  == /\ Backlog \in Seq(Runs)
                             /\ \A i, j \in DOMAIN Backlog :
                                  Backlog[i] = Backlog[j] => i = j
ASSUME KindsAssumption    == FallibleKinds \subseteq Kinds
ASSUME CountsAssumption   == ChunkSetCounts \subseteq Nat
ASSUME BoundsAssumption   == /\ MaxAttempts \in Nat /\ MaxBatch \in Nat
                             /\ MaxFanOut \in Nat /\ MaxAbandoned \in Nat
                             /\ MaxCrashes \in Nat /\ MaxLosses \in Nat

\* Tasks are named by their origin: copy 0 is the planner's task of that kind,
\* the copies from 1 are the embedder tasks of the fan-out, in creation order.
Task == [run : Runs, kind : Kinds, copy : {0}]
          \cup [run : Runs, kind : {"embedder"}, copy : 1..MaxFanOut]

PlannedTask(r, i) == [run |-> r, kind |-> Profile[i], copy |-> 0]
EmbedTask(r, c)   == [run |-> r, kind |-> "embedder", copy |-> c]
TasksOf(r)        == {t \in Task : t.run = r}

\* A TaskRun id: the n-th attempt saved for the task.
Attempt == [task : Task, n : Nat \ {0}]

\* A worker's answer.  sets counts the chunk_set_ids of a successful output.
StatusMsg == [attempt : Attempt, worker : Workers, ok : BOOLEAN, sets : Nat]

ASSUME NoneAssumption == None \notin Task \cup StatusMsg

VARIABLES
  dagRun,     \* dag_runs: the status of each run, or Absent
  task,       \* tasks: the status of each task, or Absent
  result,     \* tasks: the number of chunk_set_ids in the stored result
  created,    \* tasks: created_at, as the rank of the row
  clock,      \* the number of task rows saved so far
  attempts,   \* task_runs: the attempts of each task in the order they were saved
  planned,    \* per run, the saves its planner has done (the run, then its tasks)
  abandoned,  \* runs whose planner crashed
  pump,       \* per executor, the scheduling loop's locals
  handler,    \* per executor, the status loop's locals
  requests,   \* requests delivered to a worker replica and not answered
  statuses,   \* per executor, the statuses delivered to its subscription
  up,         \* executors whose process runs
  crashes, losses

dbVars   == <<dagRun, task, result, created, clock, attempts>>
planVars == <<planned, abandoned>>
netVars  == <<requests, statuses>>
envVars  == <<up, crashes, losses>>
vars     == <<dbVars, planVars, pump, handler, netVars, envVars>>

PumpPc    == {"idle", "scan", "attempts", "save_run", "save_task",
              "get_dag", "save_dag"}
HandlerPc == {"idle", "save_run", "get_task", "list_attempts", "save_task",
              "fan_out", "get_dag", "list_tasks", "save_dag"}

PumpState ==
  [pc : PumpPc, todo : SUBSET Task, row : [Task -> Nat], listed : SUBSET Runs,
   seen : [Task -> TaskStatus \cup {Absent}], cur : Task \cup {None}, count : Nat,
   ready : Seq(Attempt)]
HandlerState ==
  [pc : HandlerPc, msg : StatusMsg \cup {None}, result : Nat,
   next : {"success", "pending", "failed"}, left : Nat, dag : DagRunStatus]

\* A loop of executor e goes on with these locals.
PumpTo(e, locals)    == pump' = [pump EXCEPT ![e] = locals]
HandlerTo(e, locals) == handler' = [handler EXCEPT ![e] = locals]

\* The locals of a loop that is between two rounds.
PumpIdle == [pc |-> "idle", todo |-> {}, row |-> [t \in Task |-> 0],
             listed |-> {}, seen |-> [t \in Task |-> Absent],
             cur |-> None, count |-> 0, ready |-> <<>>]
HandlerIdle == [pc |-> "idle", msg |-> None, result |-> 0, next |-> "success",
                left |-> 0, dag |-> "created"]

PlannedAtStart == {Backlog[i] : i \in DOMAIN Backlog}
PlannedTasks == {PlannedTask(r, i) : r \in PlannedAtStart, i \in DOMAIN Profile}
Position(s, x) == CHOOSE i \in DOMAIN s : s[i] = x
PlannedRank(t) == (Position(Backlog, t.run) - 1) * Len(Profile) + Position(Profile, t.kind)

Init ==
  /\ planned = [r \in Runs |-> IF r \in PlannedAtStart THEN Len(Profile) + 1 ELSE 0]
  /\ abandoned = {}
  /\ dagRun = [r \in Runs |-> IF r \in PlannedAtStart THEN "created" ELSE Absent]
  /\ task = [t \in Task |-> IF t \in PlannedTasks THEN "pending" ELSE Absent]
  /\ result = [t \in Task |-> 0]
  /\ clock = Len(Backlog) * Len(Profile)
  /\ created = [t \in Task |-> IF t \in PlannedTasks THEN PlannedRank(t) ELSE 0]
  /\ attempts = [t \in Task |-> <<>>]
  /\ pump = [e \in Executors |-> PumpIdle]
  /\ handler = [e \in Executors |-> HandlerIdle]
  /\ requests = {}
  /\ statuses = [e \in Executors |-> {}]
  /\ up = Executors
  /\ crashes = 0
  /\ losses = 0

-----------------------------------------------------------------------------
(* The planner: DbPlanner::create_dag_run.                                 *)

\* The first repository call of create_dag_run.
PlannerSaveRun(r) ==
  /\ planned[r] = 0
  /\ r \notin abandoned
  /\ dagRun' = [dagRun EXCEPT ![r] = "created"]
  /\ planned' = [planned EXCEPT ![r] = 1]
  /\ UNCHANGED <<task, result, created, clock, attempts, abandoned,
                 pump, handler, netVars, envVars>>

\* Inserts the row of a new task.
InsertTask(t) ==
  /\ task' = [task EXCEPT ![t] = "pending"]
  /\ result' = [result EXCEPT ![t] = 0]
  /\ created' = [created EXCEPT ![t] = clock + 1]
  /\ clock' = clock + 1

\* The tasks are saved one call at a time, in the profile's order.
PlannerSaveTask(r) ==
  /\ planned[r] \in 1..Len(Profile)
  /\ r \notin abandoned
  /\ InsertTask(PlannedTask(r, planned[r]))
  /\ planned' = [planned EXCEPT ![r] = @ + 1]
  /\ UNCHANGED <<dagRun, attempts, abandoned, pump, handler, netVars, envVars>>

\* The planner's process stops, or a save returns an error, part-way.
PlannerCrash(r) ==
  /\ Cardinality(abandoned) < MaxAbandoned
  /\ planned[r] \in 1..Len(Profile)
  /\ r \notin abandoned
  /\ abandoned' = abandoned \cup {r}
  /\ UNCHANGED <<dbVars, planned, pump, handler, netVars, envVars>>

-----------------------------------------------------------------------------
(* The scheduling loop: WorkflowMessaging::pump_requests, which calls      *)
(* DbScheduler::schedule_ready_tasks and then publishes what it returned.  *)

\* TaskRepo::list_pending: the oldest pending rows, at most MaxBatch of them.
ListPending ==
  LET pending == {t \in Task : task[t] = "pending"}
      Older(t) == {u \in pending : created[u] < created[t]}
  IN  {t \in pending : MaxBatch = NoCap \/ Cardinality(Older(t)) < MaxBatch}

PumpList(e) ==
  /\ e \in up
  /\ pump[e].pc = "idle"
  /\ ListPending # {}
  /\ PumpTo(e, [pump[e] EXCEPT !.pc = "scan", !.todo = ListPending, !.row = result])
  /\ UNCHANGED <<dbVars, planVars, handler, netVars, envVars>>

\* The sibling statuses the scan uses for run r: those it read when it met the
\* run's first task, or a fresh list_by_dag_run.
Siblings(e, r) ==
  [t \in Task |-> IF t.run = r /\ r \notin pump[e].listed THEN task[t]
                                                          ELSE pump[e].seen[t]]

\* Takes the next row of the listing, reads its siblings unless they are
\* cached, and goes on with the row if it is ready.
PumpConsider(e) ==
  /\ e \in up
  /\ pump[e].pc = "scan"
  /\ \E t \in pump[e].todo :
       /\ \A u \in pump[e].todo : created[t] <= created[u]
       /\ LET seen  == Siblings(e, t.run)
              ready == IsReady(t.kind, "pending", TasksOf(t.run), seen)
          IN  PumpTo(e, [pump[e] EXCEPT !.pc     = IF ready THEN "attempts" ELSE "scan",
                                        !.todo   = @ \ {t},
                                        !.seen   = seen,
                                        !.listed = @ \cup {t.run},
                                        !.cur    = IF ready THEN t ELSE None])
  /\ UNCHANGED <<dbVars, planVars, handler, netVars, envVars>>

\* Mutation of PumpCountAttempts: the number of the last attempt, not of the next.
PumpCountFromLast(e) ==
  /\ e \in up
  /\ pump[e].pc = "attempts"
  /\ PumpTo(e, [pump[e] EXCEPT !.pc = "save_run",
                               !.count = Len(attempts[pump[e].cur]) - 1])
  /\ UNCHANGED <<dbVars, planVars, handler, netVars, envVars>>

\* list_by_task: its length becomes the attempt_no of the new attempt.
PumpCountAttempts(e) ==
  /\ e \in up
  /\ pump[e].pc = "attempts"
  /\ PumpTo(e, [pump[e] EXCEPT !.pc = "save_run",
                               !.count = Len(attempts[pump[e].cur])])
  /\ UNCHANGED <<dbVars, planVars, handler, netVars, envVars>>

NextAttempt(t) == [task |-> t, n |-> Len(attempts[t]) + 1]

\* Mutation of PumpSaveTaskRun: the ready task is queued, its TaskRun not saved.
PumpSkipTaskRun(e) ==
  /\ e \in up
  /\ pump[e].pc = "save_run"
  /\ LET t == pump[e].cur
     IN  PumpTo(e, [pump[e] EXCEPT !.pc = "save_task",
                                   !.ready = Append(@, NextAttempt(t))])
  /\ UNCHANGED <<dbVars, planVars, handler, netVars, envVars>>

\* Mutation of PumpSaveTaskRun: the row is keyed by task and attempt_no, so a
\* second attempt with the same number replaces the first.
PumpUpsertTaskRun(e) ==
  /\ e \in up
  /\ pump[e].pc = "save_run"
  /\ LET t   == pump[e].cur
         row == [status |-> "running", no |-> pump[e].count]
         n   == pump[e].count + 1
     IN  /\ attempts' = [attempts EXCEPT ![t] =
                           IF n <= Len(@) THEN [@ EXCEPT ![n] = row] ELSE Append(@, row)]
         /\ PumpTo(e, [pump[e] EXCEPT !.pc = "save_task",
                                      !.ready = Append(@, [task |-> t, n |-> n])])
  /\ UNCHANGED <<dagRun, task, result, created, clock, planVars, handler,
                 netVars, envVars>>

PumpSaveTaskRun(e) ==
  /\ e \in up
  /\ pump[e].pc = "save_run"
  /\ LET t == pump[e].cur
     IN  /\ attempts' = [attempts EXCEPT ![t] =
                           Append(@, [status |-> "running", no |-> pump[e].count])]
         /\ PumpTo(e, [pump[e] EXCEPT !.pc = "save_task",
                                      !.ready = Append(@, NextAttempt(t))])
  /\ UNCHANGED <<dagRun, task, result, created, clock, planVars, handler,
                 netVars, envVars>>

\* Mutation of PumpSaveTask: the listed row is saved as it was.
PumpSaveTaskUnmarked(e) ==
  /\ e \in up
  /\ pump[e].pc = "save_task"
  /\ PumpTo(e, [pump[e] EXCEPT !.pc = "get_dag"])
  /\ UNCHANGED <<dbVars, planVars, handler, netVars, envVars>>

\* Saves the listed row, whatever the table holds by now, as running.
PumpSaveTask(e) ==
  /\ e \in up
  /\ pump[e].pc = "save_task"
  /\ task' = [task EXCEPT ![pump[e].cur] = "running"]
  /\ result' = [result EXCEPT ![pump[e].cur] = pump[e].row[pump[e].cur]]
  /\ PumpTo(e, [pump[e] EXCEPT !.pc = "get_dag"])
  /\ UNCHANGED <<dagRun, created, clock, attempts, planVars, handler, netVars, envVars>>

\* Mutation of PumpGetDag: every run that is not running is marked running.
PumpGetDagUnguarded(e) ==
  /\ e \in up
  /\ pump[e].pc = "get_dag"
  /\ LET next == IF dagRun[pump[e].cur.run] # "running" THEN "save_dag" ELSE "scan"
     IN  PumpTo(e, [pump[e] EXCEPT !.pc = next, !.count = 0])
  /\ UNCHANGED <<dbVars, planVars, handler, netVars, envVars>>

\* mark_dag_running reads the run and saves it only if it was just created.
PumpGetDag(e) ==
  /\ e \in up
  /\ pump[e].pc = "get_dag"
  /\ LET next == IF dagRun[pump[e].cur.run] = "created" THEN "save_dag" ELSE "scan"
     IN  PumpTo(e, [pump[e] EXCEPT !.pc = next, !.count = 0])
  /\ UNCHANGED <<dbVars, planVars, handler, netVars, envVars>>

PumpSaveDag(e) ==
  /\ e \in up
  /\ pump[e].pc = "save_dag"
  /\ dagRun' = [dagRun EXCEPT ![pump[e].cur.run] = "running"]
  /\ PumpTo(e, [pump[e] EXCEPT !.pc = "scan"])
  /\ UNCHANGED <<task, result, created, clock, attempts, planVars, handler,
                 netVars, envVars>>

\* The scan is over: publish the ready tasks one by one.  Plain NATS hands the
\* request to every replica that is subscribed.
PumpPublish(e) ==
  /\ e \in up
  /\ pump[e].pc = "scan"
  /\ pump[e].todo = {}
  /\ pump[e].ready # <<>>
  /\ requests' = requests \cup [worker : Workers, attempt : {Head(pump[e].ready)}]
  /\ PumpTo(e, [pump[e] EXCEPT !.ready = Tail(@)])
  /\ UNCHANGED <<dbVars, planVars, handler, statuses, envVars>>

PumpSleep(e) ==
  /\ e \in up
  /\ pump[e].pc = "scan"
  /\ pump[e].todo = {}
  /\ pump[e].ready = <<>>
  /\ PumpTo(e, PumpIdle)
  /\ UNCHANGED <<dbVars, planVars, handler, netVars, envVars>>

-----------------------------------------------------------------------------
(* The status loop: WorkflowMessaging::listen_worker_statuses, which hands *)
(* every message to DbScheduler::handle_worker_status before the next.     *)

\* Mutation of HandlerReceive: no deduplication.
HandlerReceiveAll(e) ==
  /\ e \in up
  /\ handler[e].pc = "idle"
  /\ \E m \in statuses[e] :
       /\ statuses' = [statuses EXCEPT ![e] = @ \ {m}]
       /\ HandlerTo(e, [handler[e] EXCEPT !.pc = "save_run", !.msg = m])
  /\ UNCHANGED <<dbVars, planVars, pump, requests, envVars>>

\* Takes a message and reads its TaskRun: a terminal one is a duplicate.
HandlerReceive(e) ==
  /\ e \in up
  /\ handler[e].pc = "idle"
  /\ \E m \in statuses[e] :
       /\ statuses' = [statuses EXCEPT ![e] = @ \ {m}]
       /\ LET row == attempts[m.attempt.task][m.attempt.n]
          IN  HandlerTo(e, IF row.status \in TerminalRun THEN handler[e]
                           ELSE [handler[e] EXCEPT !.pc = "save_run", !.msg = m])
  /\ UNCHANGED <<dbVars, planVars, pump, requests, envVars>>

\* Mutation of HandlerSaveTaskRun: the save of the attempt is missing.
HandlerSkipTaskRun(e) ==
  /\ e \in up
  /\ handler[e].pc = "save_run"
  /\ HandlerTo(e, [handler[e] EXCEPT !.pc = "get_task"])
  /\ UNCHANGED <<dbVars, planVars, pump, netVars, envVars>>

HandlerSaveTaskRun(e) ==
  /\ e \in up
  /\ handler[e].pc = "save_run"
  /\ LET m == handler[e].msg
     IN  attempts' = [attempts EXCEPT ![m.attempt.task][m.attempt.n] =
                        [status |-> IF m.ok THEN "success" ELSE "failed", no |-> @.no]]
  /\ HandlerTo(e, [handler[e] EXCEPT !.pc = "get_task"])
  /\ UNCHANGED <<dagRun, task, result, created, clock, planVars, pump, netVars, envVars>>

\* Reads the task.  A success stores the worker's output with it; after a
\* failure the attempts decide.
HandlerGetTask(e) ==
  /\ e \in up
  /\ handler[e].pc = "get_task"
  /\ LET m == handler[e].msg
     IN  HandlerTo(e, IF m.ok
                      THEN [handler[e] EXCEPT !.pc = "save_task", !.next = "success",
                                              !.result = m.sets]
                      ELSE [handler[e] EXCEPT !.pc = "list_attempts",
                                              !.result = result[m.attempt.task]])
  /\ UNCHANGED <<dbVars, planVars, pump, netVars, envVars>>

\* Counts the attempts made so far.  A retry keeps the stored result, a final
\* failure replaces it.
HandlerListAttempts(e) ==
  /\ e \in up
  /\ handler[e].pc = "list_attempts"
  /\ LET made == Len(attempts[handler[e].msg.attempt.task])
     IN  HandlerTo(e, IF ShouldRetry(made, MaxAttempts)
                      THEN [handler[e] EXCEPT !.pc = "save_task", !.next = "pending"]
                      ELSE [handler[e] EXCEPT !.pc = "save_task", !.next = "failed",
                                              !.result = 0])
  /\ UNCHANGED <<dbVars, planVars, pump, netVars, envVars>>

\* Mutation of HandlerSaveTask: the fan-out is left out.
HandlerSaveTaskNoFanOut(e) ==
  /\ e \in up
  /\ handler[e].pc = "save_task"
  /\ LET t == handler[e].msg.attempt.task
     IN  /\ task' = [task EXCEPT ![t] = handler[e].next]
         /\ result' = [result EXCEPT ![t] = handler[e].result]
  /\ HandlerTo(e, [handler[e] EXCEPT !.pc = "get_dag"])
  /\ UNCHANGED <<dagRun, created, clock, attempts, planVars, pump, netVars, envVars>>

\* Mutation of HandlerSaveTask: a failure ends the handling, and the run's
\* status is not derived again.
HandlerSaveTaskNoDag(e) ==
  /\ e \in up
  /\ handler[e].pc = "save_task"
  /\ LET t == handler[e].msg.attempt.task
     IN  /\ task' = [task EXCEPT ![t] = handler[e].next]
         /\ result' = [result EXCEPT ![t] = handler[e].result]
  /\ HandlerTo(e, IF ~handler[e].msg.ok THEN HandlerIdle
                  ELSE [handler[e] EXCEPT
                          !.pc = IF handler[e].msg.sets > 0 THEN "fan_out" ELSE "get_dag",
                          !.left = handler[e].msg.sets])
  /\ UNCHANGED <<dagRun, created, clock, attempts, planVars, pump, netVars, envVars>>

HandlerSaveTask(e) ==
  /\ e \in up
  /\ handler[e].pc = "save_task"
  /\ LET t == handler[e].msg.attempt.task
     IN  /\ task' = [task EXCEPT ![t] = handler[e].next]
         /\ result' = [result EXCEPT ![t] = handler[e].result]
  /\ LET sets == handler[e].msg.sets
     IN  HandlerTo(e, [handler[e] EXCEPT !.pc = IF sets > 0 THEN "fan_out" ELSE "get_dag",
                                         !.left = sets])
  /\ UNCHANGED <<dagRun, created, clock, attempts, planVars, pump, netVars, envVars>>

\* The first embedder task of the run that no process has saved.
IsFreshEmbed(r, c) ==
  /\ task[EmbedTask(r, c)] = Absent
  /\ \A d \in 1..c-1 : task[EmbedTask(r, d)] # Absent

\* extract_embed_tasks: one new embedder task per announced chunk set, each a
\* save of its own.
HandlerFanOut(e) ==
  /\ e \in up
  /\ handler[e].pc = "fan_out"
  /\ \E c \in 1..MaxFanOut :
       /\ IsFreshEmbed(handler[e].msg.attempt.task.run, c)
       /\ InsertTask(EmbedTask(handler[e].msg.attempt.task.run, c))
  /\ LET left == handler[e].left - 1
     IN  HandlerTo(e, [handler[e] EXCEPT !.pc = IF left > 0 THEN "fan_out" ELSE "get_dag",
                                         !.left = left])
  /\ UNCHANGED <<dagRun, attempts, planVars, pump, netVars, envVars>>

HandlerGetDag(e) ==
  /\ e \in up
  /\ handler[e].pc = "get_dag"
  /\ HandlerTo(e, [handler[e] EXCEPT !.pc = "list_tasks",
                                     !.dag = dagRun[handler[e].msg.attempt.task.run]])
  /\ UNCHANGED <<dbVars, planVars, pump, netVars, envVars>>

\* Lists the run's tasks; the run is saved only if the derived status differs
\* from the one read before.
HandlerListTasks(e) ==
  /\ e \in up
  /\ handler[e].pc = "list_tasks"
  /\ LET r     == handler[e].msg.attempt.task.run
         final == DagStatusFromTasks({task[t] : t \in TasksOf(r)} \ {Absent})
     IN  HandlerTo(e, IF final = handler[e].dag THEN HandlerIdle
                      ELSE [handler[e] EXCEPT !.pc = "save_dag", !.dag = final])
  /\ UNCHANGED <<dbVars, planVars, pump, netVars, envVars>>

HandlerSaveDag(e) ==
  /\ e \in up
  /\ handler[e].pc = "save_dag"
  /\ dagRun' = [dagRun EXCEPT ![handler[e].msg.attempt.task.run] = handler[e].dag]
  /\ HandlerTo(e, HandlerIdle)
  /\ UNCHANGED <<task, result, created, clock, attempts, planVars, pump, netVars, envVars>>

-----------------------------------------------------------------------------
(* The workers, as the executor sees them, and the failures.               *)

\* What a worker of this kind can answer.
Answers(kind) ==
  {[ok |-> TRUE, sets |-> n] : n \in IF kind = "chunker" THEN ChunkSetCounts ELSE {0}}
    \cup {[ok |-> FALSE, sets |-> 0] : k \in {kind} \cap FallibleKinds}

\* A replica handles a request and publishes the status, which reaches the
\* executors that are subscribed at that moment.
WorkerAnswer(q) ==
  /\ requests' = requests \ {q}
  /\ \E a \in Answers(q.attempt.task.kind) :
       statuses' = [e \in Executors |->
                      IF e \notin up THEN statuses[e]
                      ELSE statuses[e] \cup {[attempt |-> q.attempt, worker |-> q.worker,
                                              ok |-> a.ok, sets |-> a.sets]}]
  /\ UNCHANGED <<dbVars, planVars, pump, handler, envVars>>

\* The replica stops, cannot decode the request, or fails to handle it or to
\* publish the status: nack is a no-op, so nothing comes back.
WorkerLose(q) ==
  /\ losses < MaxLosses
  /\ losses' = losses + 1
  /\ requests' = requests \ {q}
  /\ UNCHANGED <<dbVars, planVars, pump, handler, statuses, up, crashes>>

\* The executor's process stops: killed, or because one of its loops returned
\* an error.  Its locals and the messages buffered in its subscription are gone.
ExecutorCrash(e) ==
  /\ crashes < MaxCrashes
  /\ e \in up
  /\ crashes' = crashes + 1
  /\ up' = up \ {e}
  /\ PumpTo(e, PumpIdle)
  /\ HandlerTo(e, HandlerIdle)
  /\ statuses' = [statuses EXCEPT ![e] = {}]
  /\ UNCHANGED <<dbVars, planVars, requests, losses>>

ExecutorStart(e) ==
  /\ e \notin up
  /\ up' = up \cup {e}
  /\ UNCHANGED <<dbVars, planVars, pump, handler, netVars, crashes, losses>>

Planner(r) == PlannerSaveRun(r) \/ PlannerSaveTask(r)

Pump(e) ==
  \/ PumpList(e) \/ PumpConsider(e) \/ PumpCountAttempts(e) \/ PumpSaveTaskRun(e)
  \/ PumpSaveTask(e) \/ PumpGetDag(e) \/ PumpSaveDag(e) \/ PumpPublish(e) \/ PumpSleep(e)

Handler(e) ==
  \/ HandlerReceive(e) \/ HandlerSaveTaskRun(e) \/ HandlerGetTask(e)
  \/ HandlerListAttempts(e) \/ HandlerSaveTask(e) \/ HandlerFanOut(e)
  \/ HandlerGetDag(e) \/ HandlerListTasks(e) \/ HandlerSaveDag(e)

Next ==
  \/ \E r \in Runs : Planner(r) \/ PlannerCrash(r)
  \/ \E e \in Executors : Pump(e) \/ Handler(e) \/ ExecutorCrash(e) \/ ExecutorStart(e)
  \/ \E q \in requests : WorkerAnswer(q) \/ WorkerLose(q)

Spec == Init /\ [][Next]_vars
-----------------------------------------------------------------------------
(* The abstract specification that the executor implements.                *)

RunOfTask   == [t \in Task |-> t.run]
StageOfTask == [t \in Task |-> OrderingForKind(t.kind)]

Staged == INSTANCE StagedTasks
            WITH Tasks <- Task, RunOf <- RunOfTask, StageOf <- StageOfTask,
                 state <- task, report <- dagRun

\* One executor, crashes and lost requests allowed, runs planned before it
\* started: the writes to tasks and dag_runs, taken together over all the loops
\* and restarts, are those of StagedTasks.
ImplementsStagedTasks == Staged!Spec

-----------------------------------------------------------------------------
(* Fairness.  The loops of a running executor are tokio tasks that are     *)
(* polled again whenever they can go on; a planner call runs to its end    *)
(* unless it crashes; a replica answers a request unless it loses it.      *)
(* Crashes and losses are never fair.                                      *)

Fairness ==
  /\ \A r \in Runs : WF_vars(Planner(r))
  /\ \A e \in Executors : /\ WF_vars(Pump(e)) /\ WF_vars(Handler(e))
                          /\ WF_vars(ExecutorStart(e))
  /\ WF_vars(\E q \in requests : WorkerAnswer(q))

FairSpec == Spec /\ Fairness

-----------------------------------------------------------------------------
(* Properties.                                                             *)

\* Every variable, and every local of a loop, holds a value of its kind.
TypeOK ==
  /\ dagRun \in [Runs -> DagRunStatus \cup {Absent}]
  /\ task \in [Task -> TaskStatus \cup {Absent}]
  /\ result \in [Task -> Nat]
  /\ created \in [Task -> Nat]
  /\ clock \in Nat
  /\ attempts \in [Task -> Seq([status : TaskRunStatus, no : Nat])]
  /\ planned \in [Runs -> 0..Len(Profile) + 1]
  /\ abandoned \subseteq Runs
  /\ pump \in [Executors -> PumpState]
  /\ handler \in [Executors -> HandlerState]
  /\ requests \subseteq [worker : Workers, attempt : Attempt]
  /\ statuses \in [Executors -> SUBSET StatusMsg]
  /\ up \subseteq Executors
  /\ crashes \in 0..MaxCrashes
  /\ losses \in 0..MaxLosses

\* The TaskRun row that a message or a local refers to is in the database.
Saved(a) == a.n <= Len(attempts[a.task])

\* Any number of executors and crashes: every reference resolves, from a task to
\* its run, from an attempt to its task, and from every request, status, ready
\* task and loop local to its rows, so no repository get of the scheduler comes
\* back empty (the branches that return without a trace when it does).
ReferencesHold ==
  /\ \A t \in Task : /\ task[t] # Absent => dagRun[t.run] # Absent
                     /\ attempts[t] # <<>> => task[t] # Absent
  /\ \A q \in requests : Saved(q.attempt)
  /\ \A e \in Executors :
       /\ \A t \in pump[e].todo : task[t] # Absent
       /\ pump[e].cur # None => task[pump[e].cur] # Absent
       /\ \A i \in DOMAIN pump[e].ready : Saved(pump[e].ready[i])
       /\ \A m \in statuses[e] : Saved(m.attempt)
       /\ handler[e].msg # None => Saved(handler[e].msg.attempt)

\* The derived status of a run's stored tasks.
Derived(r) == DagStatusFromTasks({task[t] : t \in TasksOf(r)} \ {Absent})

Stage(t) == OrderingForKind(t.kind)
FanOut(r) == {c \in 1..MaxFanOut : task[EmbedTask(r, c)] # Absent}
ChunkSets(r) == result[[run |-> r, kind |-> "chunker", copy |-> 0]]

\* One executor: a task is tried at most MaxAttempts times (once if that is 0),
\* plus one attempt for every crash that may have left one behind unpublished.
AttemptsWithinBudget ==
  \A t \in Task :
    Len(attempts[t]) <= (IF MaxAttempts = 0 THEN 1 ELSE MaxAttempts) + crashes

\* One executor: a task never has two attempts running at once, except those a
\* crash orphaned.
OneLiveAttempt ==
  \A t \in Task :
    Cardinality({n \in DOMAIN attempts[t] : attempts[t][n].status = "running"}) <= 1 + crashes

\* One executor: once a task has an attempt, every task of an earlier stage of
\* its run is done, the fan-out included, although the scan decides from
\* sibling statuses read earlier.
StagesInOrder ==
  \A t, s \in Task :
    /\ attempts[t] # <<>>
    /\ s.run = t.run /\ Stage(s) < Stage(t) /\ task[s] # Absent
    => Unblocks(task[s])

\* One executor, whatever it crashes into: attempt numbers count the attempts of
\* the task from 0 in the order of their rows, with no gap and no repetition.
AttemptNumbersCount ==
  \A t \in Task : \A n \in DOMAIN attempts[t] : attempts[t][n].no = n - 1

\* One executor, or one worker replica: a task counts as done only if one of its
\* attempts succeeded, and as failed only if one of them failed.
OutcomeHasEvidence ==
  \A t \in Task :
    task[t] \in {"success", "failed"}
      => \E n \in DOMAIN attempts[t] : attempts[t][n].status = task[t]

\* Any number of executors and crashes: a task is given up only when its retry
\* budget is spent.
FailedBudgetSpent ==
  \A t \in Task : task[t] = "failed" => Len(attempts[t]) >= MaxAttempts

\* One executor, no crash: indexing starts only when the run has exactly one
\* embedder task for every chunk set its chunker announced.  A crash between the
\* saves of the chunker's task and of the embedder tasks breaks it.
FanOutExact ==
  \A t \in Task :
    t.kind = "indexer" /\ attempts[t] # <<>> => Cardinality(FanOut(t.run)) = ChunkSets(t.run)

\* The status loop of some executor is in the middle of a status of run r.
Settling(r) ==
  \E e \in Executors : handler[e].pc # "idle" /\ handler[e].msg.attempt.task.run = r

\* One executor, no crash, runs planned before it started: outside the handling
\* of a status, a run is finished exactly when its tasks say so.
DagStatusAgrees ==
  \A r \in PlannedAtStart :
    ~Settling(r) /\ {dagRun[r], Derived(r)} \cap TerminalDag # {} => dagRun[r] = Derived(r)

\* One executor: a finished task never changes again, whatever late or
\* duplicated statuses arrive.
TaskOutcomeFinal ==
  [][\A t \in Task : task[t] \in {"success", "failed"} => task'[t] = task[t]]_vars

\* One executor, or one worker replica: an attempt that has an outcome keeps it,
\* and its number.
AttemptOutcomeFinal ==
  [][\A t \in Task : \A n \in DOMAIN attempts[t] :
       attempts[t][n].status \in TerminalRun => attempts'[t][n] = attempts[t][n]]_vars

\* One executor: a failed run stays failed, although siblings go on finishing.
DagFailureFinal ==
  [][\A r \in Runs : dagRun[r] = "failed" => dagRun'[r] = "failed"]_vars

\* What DagRunStatus::is_terminal says of Success: a successful run is over.
\* It does not hold while the planner is still saving the run's tasks.
DagSuccessFinal ==
  [][\A r \in Runs : dagRun[r] = "success" => dagRun'[r] = "success"]_vars

\* What the design document says of the message bus, at-least-once: a running
\* task is eventually answered for.  It does not hold when a request is lost,
\* or when a crash comes before it is published.
RunningIsAnswered ==
  \A t \in Task : task[t] = "running" ~> task[t] # "running"

\* No executor crash and no loss: every run that has a task ends in the final
\* status its tasks derive, the tasks its planner never saved apart.
RunsSettle ==
  \A r \in Runs :
    <>[]((\E t \in TasksOf(r) : task[t] # Absent)
           => dagRun[r] \in {"success", "failed"} /\ dagRun[r] = Derived(r))

=============================================================================
