-------------------------- MODULE StageOrderProofs --------------------------
(***************************************************************************)
(* Proofs about WorkflowExecutor with one executor, continued: the order   *)
(* of the stages, the fan-out, the status of the runs, and the refinement  *)
(* of StagedTasks.  They rest on the ownership of the rows proved in       *)
(* OneExecutorProofs.                                                      *)
(***************************************************************************)
EXTENDS OneExecutorProofs

-----------------------------------------------------------------------------
(* The order of the stages.                                                *)

\* A profile saves the tasks of earlier stages first, and an indexer never
\* comes without an embedder: true of ProfileSequence.
StagedProfile ==
  /\ \A i, j \in DOMAIN Profile :
       i < j => OrderingForKind(Profile[i]) < OrderingForKind(Profile[j])
  /\ \A i \in DOMAIN Profile :
       Profile[i] = "indexer" => \E j \in DOMAIN Profile : Profile[j] = "embedder"

Lower(t) == {s \in Task : s.run = t.run /\ Stage(s) < Stage(t)}
Gate(t)  == \A s \in Lower(t) : task[s] # Absent => task[s] = "success"

Chunker(r)  == [run |-> r, kind |-> "chunker", copy |-> 0]
Embedder(r) == [run |-> r, kind |-> "embedder", copy |-> 0]

FanOutStaged ==
  \A r \in Runs : \A c \in 1..MaxFanOut :
    task[EmbedTask(r, c)] # Absent => task[Chunker(r)] = "success"

HandlerStaged(h) ==
  /\ h.pc # "idle" => SetsFromChunker(h.msg)
  /\ h.pc = "fan_out" => /\ h.msg.attempt.task.kind = "chunker"
                         /\ task[h.msg.attempt.task] = "success"
                         /\ task[Embedder(h.msg.attempt.task.run)] # "success"

PumpStaged(p) ==
  /\ p.pc = "idle" => p.listed = {}
  /\ p.pc \in {"attempts", "save_run"} => Gate(p.cur)
  /\ \A s \in Task : Unblocks(p.seen[s]) => task[s] = "success"
  /\ \A t \in p.todo : t.run \in p.listed =>
       \A s \in Lower(t) : s.copy = 0 /\ task[s] # Absent => p.seen[s] # Absent
  /\ \A r \in Runs : Unblocks(p.seen[Embedder(r)]) =>
       \A c \in 1..MaxFanOut :
         p.seen[EmbedTask(r, c)] = Absent => task[EmbedTask(r, c)] = Absent

Staging ==
  /\ FanOutStaged
  /\ \A t \in Task : attempts[t] # <<>> => Gate(t)
  /\ \A e \in Executors : \A m \in statuses[e] : SetsFromChunker(m)
  /\ \A e \in Executors : PumpStaged(pump[e]) /\ HandlerStaged(handler[e])


\* The profile of the planner is such a profile.
LEMMA ProfileSequenceIsStaged == ASSUME Profile = ProfileSequence PROVE StagedProfile
  BY DEF StagedProfile, ProfileSequence, OrderingForKind, StageOrder

-----------------------------------------------------------------------------
(* Tasks, kinds and stages.                                                *)

LEMMA StageFacts ==
  ASSUME NEW t \in Task
  PROVE  /\ Stage(t) \in 0..4
         /\ t.kind = "extractor"  <=> Stage(t) = 0
         /\ t.kind = "chunker"  <=> Stage(t) = 2
         /\ t.kind = "embedder" <=> Stage(t) = 3
         /\ t.kind = "indexer"  <=> Stage(t) = 4
  BY TaskFields DEF Stage, OrderingForKind, StageOrder, Kinds

LEMMA TaskCases ==
  ASSUME NEW t \in Task
  PROVE  \/ t.copy = 0 /\ t = [run |-> t.run, kind |-> t.kind, copy |-> 0]
         \/ t.copy \in 1..MaxFanOut /\ t.kind = "embedder" /\ t = EmbedTask(t.run, t.copy)
  BY DEF Task, EmbedTask

\* Only embedder tasks have copies.
LEMMA FirstCopy ==
  ASSUME NEW t \in Task, t.kind # "embedder"
  PROVE  t.copy = 0 /\ t = [run |-> t.run, kind |-> t.kind, copy |-> 0]
  BY TaskCases

LEMMA NamedTasks ==
  ASSUME NEW r \in Runs
  PROVE  /\ Chunker(r) \in Task /\ Chunker(r).run = r /\ Chunker(r).kind = "chunker"
         /\ Chunker(r).copy = 0
         /\ Embedder(r) \in Task /\ Embedder(r).run = r /\ Embedder(r).kind = "embedder"
         /\ Embedder(r).copy = 0
         /\ \A c \in 1..MaxFanOut : /\ EmbedTask(r, c) \in Task /\ EmbedTask(r, c).run = r
                                    /\ EmbedTask(r, c).kind = "embedder"
                                    /\ EmbedTask(r, c).copy = c /\ c # 0
<1>1. Chunker(r) \in Task /\ Embedder(r) \in Task
  BY DEF Chunker, Embedder, Task, Kinds, StageOrder
<1> QED
  BY <1>1, EmbedTaskType DEF Chunker, Embedder, EmbedTask

LEMMA ChunkerOfRun == ASSUME NEW t \in Task, t.kind = "chunker" PROVE t = Chunker(t.run)
  BY FirstCopy DEF Chunker

\* A first copy that is saved is a planned task, saved before the planner came
\* to its present position.
LEMMA PlannedPosition ==
  ASSUME PlanSaved, NEW t \in Task, t.copy = 0, task[t] # Absent
  PROVE  \E i \in 1..Len(Profile) : /\ t = PlannedTask(t.run, i) /\ Profile[i] = t.kind
                                    /\ i < planned[t.run]
<1>1. PICK i \in 1..Len(Profile) : Profile[i] = t.kind
  BY DEF PlanSaved
<1>2. t = PlannedTask(t.run, i) /\ t.run \in Runs
  BY <1>1, TaskCases, TaskFields DEF PlannedTask
<1>3. i < planned[t.run]
  BY <1>2 DEF PlanSaved
<1> QED
  BY <1>1, <1>2, <1>3

\* An indexer is saved only after the embedder of its run.
LEMMA EmbedderBeforeIndexer ==
  ASSUME StagedProfile, IInv, PlanSaved, NEW t \in Task, t.kind = "indexer", task[t] # Absent
  PROVE  task[Embedder(t.run)] # Absent /\ Embedder(t.run) \in Lower(t)
<1>1. t.copy = 0 /\ t.run \in Runs
  BY FirstCopy, TaskFields
<1>2. PICK i \in 1..Len(Profile) : Profile[i] = "indexer" /\ i < planned[t.run]
  BY <1>1, PlannedPosition
<1>3. DOMAIN Profile = 1..Len(Profile) /\ Len(Profile) \in Nat
  BY ProfileAssumption
<1>4. PICK j \in 1..Len(Profile) : Profile[j] = "embedder"
  BY <1>2, <1>3 DEF StagedProfile
<1>5. OrderingForKind("embedder") = 3 /\ OrderingForKind("indexer") = 4
  BY DEF OrderingForKind, StageOrder
<1>6. ~(i < j) /\ i # j
  BY <1>2, <1>3, <1>4, <1>5 DEF StagedProfile
<1>7. j < i
  BY <1>6
<1>8. planned[t.run] \in Nat
  BY <1>1, ProfileAssumption DEF IInv, TypeOK
<1>9. j < planned[t.run]
  BY <1>2, <1>7, <1>8
<1>10. PlannedTask(t.run, j) = Embedder(t.run)
  BY <1>4 DEF PlannedTask, Embedder
<1>11. task[Embedder(t.run)] # Absent
  BY <1>1, <1>9, <1>10 DEF PlanSaved
<1>12. Embedder(t.run) \in Lower(t)
  BY <1>1, NamedTasks, StageFacts DEF Lower
<1> QED
  BY <1>11, <1>12

\* The planner never inserts a task below one that is saved.
LEMMA PlannerNotLower ==
  ASSUME StagedProfile, IInv, PlanSaved, FanOutStaged, NEW r \in Runs, PlannerSaveTask(r),
         NEW t \in Task, task[t] # Absent
  PROVE  PlannedTask(r, planned[r]) \notin Lower(t)
<1> DEFINE k == planned[r]
           s == PlannedTask(r, k)
<1>1. k \in 1..Len(Profile) /\ s \in Task /\ s.run = r /\ s.kind = Profile[k]
  BY PlannerSaveTaskDoes DEF PlannedTask
<1>2. Stage(s) = OrderingForKind(Profile[k])
  BY <1>1 DEF Stage
<1>3. DOMAIN Profile = 1..Len(Profile) /\ Len(Profile) \in Nat
  BY ProfileAssumption
<1> HIDE DEF s
<1> SUFFICES ASSUME s \in Lower(t) PROVE FALSE
  BY DEF s
<1>4. t.run = r /\ Stage(s) < Stage(t)
  BY <1>1 DEF Lower
<1>5. ASSUME NEW u \in Task, u.run = r, u.copy = 0, task[u] # Absent PROVE Stage(u) < Stage(s)
  <2>1. PICK i \in 1..Len(Profile) : Profile[i] = u.kind /\ i < k
    BY <1>5, PlannedPosition
  <2> HIDE DEF k
  <2> QED
    BY <2>1, <1>1, <1>2, <1>3 DEF StagedProfile, Stage
<1>6. CASE t.copy = 0
  BY <1>1, <1>4, <1>5, <1>6, StageFacts
<1>7. CASE t.copy # 0
  <2>1. t = EmbedTask(r, t.copy) /\ t.copy \in 1..MaxFanOut /\ t.kind = "embedder"
    BY <1>4, <1>7, TaskCases
  <2>2. task[Chunker(r)] = "success"
    BY <2>1 DEF FanOutStaged
  <2>3. Stage(Chunker(r)) < Stage(s)
    BY <1>5, <2>2, NamedTasks DEF Absent
  <2>4. Stage(Chunker(r)) = 2 /\ Stage(t) = 3
    BY <2>1, NamedTasks, StageFacts
  <2> QED
    BY <1>1, <1>4, <2>3, <2>4, StageFacts
<1> QED
  BY <1>6, <1>7

-----------------------------------------------------------------------------
(* How the status of a task changes.                                       *)

Inserted(t) ==
  \/ \E r \in Runs : PlannerSaveTask(r) /\ t = PlannedTask(r, planned[r])
  \/ \E e \in Executors : /\ HandlerFanOut(e) /\ t.run = handler[e].msg.attempt.task.run
                          /\ \E c \in 1..MaxFanOut : t = EmbedTask(t.run, c)

Started(t) == \E e \in Executors : PumpSaveTask(e) /\ t = pump[e].cur

Finished(t) == \E e \in Executors : /\ HandlerSaveTask(e) /\ t = handler[e].msg.attempt.task
                                    /\ task'[t] = handler[e].next

LEMMA TaskChange ==
  ASSUME OneExecutor, IInv, PlanSaved, Owned, [Next]_vars, NEW t \in Task, task'[t] # task[t]
  PROVE  \/ task[t] = Absent /\ task'[t] = "pending" /\ Inserted(t)
         \/ task[t] = "pending" /\ task'[t] = "running" /\ Started(t)
         \/ task[t] = "running" /\ task'[t] \in {"success", "pending", "failed"} /\ Finished(t)
<1>1. ASSUME NEW r \in Runs, PlannerSaveRun(r) \/ PlannerSaveTask(r)
      PROVE  task[t] = Absent /\ task'[t] = "pending" /\ Inserted(t)
  <2>1. PlannerSaveTask(r)
    BY <1>1 DEF PlannerSaveRun
  <2>2. t = PlannedTask(r, planned[r]) /\ task'[t] = "pending"
    BY <2>1, PlannerSaveTaskDoes
  <2> QED
    BY <2>1, <2>2, PlannerSaveTaskPlan DEF Inserted
<1>2. ASSUME NEW e \in Executors, PumpSaveTask(e)
      PROVE  task[t] = "pending" /\ task'[t] = "running" /\ Started(t)
  <2>1. t = pump[e].cur /\ task'[t] = "running" /\ pump[e].pc = "save_task"
    BY <1>2, PumpSaveTaskDoes
  <2>2. PumpOwns(pump[e])
    BY DEF Owned
  <2> QED
    BY <1>2, <2>1, <2>2 DEF PumpOwns, Started
<1>3. ASSUME NEW e \in Executors, HandlerSaveTask(e)
      PROVE  task[t] = "running" /\ task'[t] \in {"success", "pending", "failed"} /\ Finished(t)
  <2>1. /\ t = handler[e].msg.attempt.task /\ task'[t] = handler[e].next
        /\ handler[e].pc = "save_task" /\ handler[e].next \in {"success", "pending", "failed"}
    BY <1>3, HandlerSaveTaskDoes
  <2>2. HandlerOwns(handler[e])
    BY DEF Owned
  <2>3. task[t] = "running"
    BY <2>1, <2>2 DEF HandlerOwns, Current
  <2> QED
    BY <1>3, <2>1, <2>3 DEF Finished
<1>4. ASSUME NEW e \in Executors, HandlerFanOut(e)
      PROVE  task[t] = Absent /\ task'[t] = "pending" /\ Inserted(t)
  <2> DEFINE r == handler[e].msg.attempt.task.run
  <2>1. PICK c \in 1..MaxFanOut :
          /\ task[EmbedTask(r, c)] = Absent
          /\ \A u \in Task : task'[u] = IF u = EmbedTask(r, c) THEN "pending" ELSE task[u]
    BY <1>4, HandlerFanOutDoes
  <2>2. t = EmbedTask(r, c) /\ t.run = r
    BY <2>1, TaskCases DEF EmbedTask
  <2> HIDE DEF r
  <2>3. task[t] = Absent /\ task'[t] = "pending"
    BY <2>1, <2>2
  <2>4. \E d \in 1..MaxFanOut : t = EmbedTask(t.run, d)
    BY <2>2
  <2> QED
    BY <1>4, <2>2, <2>3, <2>4 DEF Inserted, r
<1> QED
  BY <1>1, <1>2, <1>3, <1>4, TaskSteps

-----------------------------------------------------------------------------
(* The gates stay open.                                                    *)

GateStays == \A t \in Task : task[t] # Absent /\ Gate(t) => Gate(t)'

\* No first copy is inserted below a saved task.
LowerStays ==
  \A t \in Task : task[t] # Absent =>
    \A s \in Lower(t) : s.copy = 0 /\ task'[s] # Absent => task[s] # Absent

\* No embedder task is inserted once the embedder of the run is done.
FanOutCloses ==
  \A r \in Runs : task[Embedder(r)] = "success" =>
    \A c \in 1..MaxFanOut : task[EmbedTask(r, c)] = Absent => task'[EmbedTask(r, c)] = Absent

LEMMA LowerType ==
  ASSUME NEW t \in Task, NEW s \in Lower(t) PROVE s \in Task /\ s.run = t.run /\ Stage(s) < Stage(t)
  BY DEF Lower

LEMMA FanOutStep ==
  ASSUME IInv, Staging, NEW e \in Executors, HandlerFanOut(e)
  PROVE  LET h == handler[e]
             r == h.msg.attempt.task.run
         IN  /\ r \in Runs /\ h.msg.attempt.task = Chunker(r)
             /\ task[Chunker(r)] = "success" /\ task[Embedder(r)] # "success"
<1>1. handler[e].pc = "fan_out" /\ handler[e].msg.attempt.task \in Task
  BY HandlerFanOutDoes, CurrentMessage
<1>2. HandlerStaged(handler[e])
  BY DEF Staging
<1> QED
  BY <1>1, <1>2, ChunkerOfRun, TaskFields DEF HandlerStaged

LEMMA StepGates ==
  ASSUME OneExecutor, StagedProfile, IInv, PlanSaved, Owned, Staging, [Next]_vars
  PROVE  GateStays /\ LowerStays /\ FanOutCloses
<1>1. FanOutCloses
  <2> SUFFICES ASSUME NEW r \in Runs, task[Embedder(r)] = "success", NEW c \in 1..MaxFanOut,
                      task[EmbedTask(r, c)] = Absent, task'[EmbedTask(r, c)] # Absent
               PROVE  FALSE
    BY DEF FanOutCloses
  <2> DEFINE s == EmbedTask(r, c)
  <2>1. s \in Task /\ s.run = r /\ s.copy # 0
    BY NamedTasks
  <2>2. Inserted(s)
    BY <2>1, TaskChange DEF Absent
  <2>3. \A q \in Runs : PlannedTask(q, planned[q]).copy = 0
    BY DEF PlannedTask
  <2> HIDE DEF s
  <2>4. PICK e \in Executors : HandlerFanOut(e) /\ r = handler[e].msg.attempt.task.run
    BY <2>1, <2>2, <2>3 DEF Inserted
  <2> QED
    BY <2>4, FanOutStep
<1>2. LowerStays
  <2> SUFFICES ASSUME NEW t \in Task, task[t] # Absent, NEW s \in Lower(t), s.copy = 0,
                      task[s] = Absent, task'[s] # Absent
               PROVE  FALSE
    BY DEF LowerStays
  <2>1. Inserted(s)
    BY TaskChange, LowerType DEF Absent
  <2>2. ASSUME NEW c \in 1..MaxFanOut, s = EmbedTask(s.run, c) PROVE FALSE
    BY <2>2 DEF EmbedTask
  <2>3. PICK r \in Runs : PlannerSaveTask(r) /\ s = PlannedTask(r, planned[r])
    BY <2>1, <2>2 DEF Inserted
  <2> QED
    BY <2>3, PlannerNotLower DEF Staging
<1>3. GateStays
  <2> SUFFICES ASSUME NEW t \in Task, task[t] # Absent, Gate(t), NEW s \in Lower(t),
                      task'[s] # Absent, task'[s] # "success"
               PROVE  FALSE
    BY DEF GateStays, Gate
  <2>1. task[s] = Absent \/ task[s] = "success"
    BY DEF Gate
  <2>2. task[s] = Absent /\ Inserted(s)
    BY <2>1, TaskChange, LowerType DEF Absent
  <2>3. s.copy # 0
    BY <1>2, <2>2 DEF LowerStays
  <2>4. s.copy \in 1..MaxFanOut /\ s.kind = "embedder" /\ s = EmbedTask(s.run, s.copy)
    BY <2>3, LowerType, TaskCases
  <2>5. t.kind = "indexer"
    BY <2>4, LowerType, StageFacts
  <2>6. task[Embedder(t.run)] = "success"
    BY <2>5, EmbedderBeforeIndexer DEF Gate
  <2> QED
    BY <1>1, <2>2, <2>4, <2>6, LowerType, TaskFields DEF FanOutCloses
<1> QED
  BY <1>1, <1>2, <1>3

-----------------------------------------------------------------------------
(* Which steps change the locals of the loops.                             *)

LEMMA PumpLeavesHandler == ASSUME NEW e \in Executors, Pump(e) PROVE UNCHANGED handler
  BY DEF Pump, PumpList, PumpConsider, PumpCountAttempts, PumpSaveTaskRun, PumpSaveTask,
         PumpGetDag, PumpSaveDag, PumpPublish, PumpSleep

LEMMA HandlerLeavesPump == ASSUME NEW e \in Executors, Handler(e) PROVE UNCHANGED pump
  BY DEF Handler, HandlerReceive, HandlerSaveTaskRun, HandlerGetTask, HandlerListAttempts,
         HandlerSaveTask, HandlerFanOut, HandlerGetDag, HandlerListTasks, HandlerSaveDag

LEMMA LoopSteps ==
  ASSUME [Next]_vars
  PROVE  \/ UNCHANGED <<pump, handler>>
         \/ \E e \in Executors : Pump(e) \/ Handler(e) \/ ExecutorCrash(e)
<1>1. ASSUME NEW r \in Runs, Planner(r) \/ PlannerCrash(r) PROVE UNCHANGED <<pump, handler>>
  BY <1>1 DEF Planner, PlannerSaveRun, PlannerSaveTask, PlannerCrash
<1>2. ASSUME NEW q \in requests, WorkerAnswer(q) \/ WorkerLose(q) PROVE UNCHANGED <<pump, handler>>
  BY <1>2 DEF WorkerAnswer, WorkerLose
<1>3. ASSUME NEW e \in Executors, ExecutorStart(e) PROVE UNCHANGED <<pump, handler>>
  BY <1>3 DEF ExecutorStart
<1> QED
  BY <1>1, <1>2, <1>3 DEF Next, vars

-----------------------------------------------------------------------------
(* The two loops, as far as the order of the stages goes.                  *)

\* A scan that keeps its rows and what it has seen.
SameScan(p, q) ==
  /\ q.seen = p.seen /\ q.listed = p.listed /\ q.todo = p.todo /\ q.cur = p.cur
  /\ q.pc = "idle" => p.pc = "idle"
  /\ q.pc \in {"attempts", "save_run"} => p.pc \in {"attempts", "save_run"}

LEMMA PumpStagedStays ==
  ASSUME IInv, TaskFinal, GateStays, LowerStays, FanOutCloses,
         NEW e \in Executors, PumpStaged(pump[e]), SameScan(pump[e], pump'[e])
  PROVE  PumpStaged(pump[e])'
<1> DEFINE p == pump[e]
           q == pump'[e]
<1>1. /\ p.todo \subseteq Task /\ \A t \in p.todo : task[t] # Absent
      /\ p.pc \in {"attempts", "save_run"} => p.cur \in Task /\ task[p.cur] # Absent
  BY RecordOfLoop DEF PumpState, PumpOK
<1>2. SameScan(p, q) /\ PumpStaged(p)
  OBVIOUS
<1> HIDE DEF p, q
<1>3. q.pc = "idle" => q.listed = {}
  BY <1>2 DEF SameScan, PumpStaged
<1>4. q.pc \in {"attempts", "save_run"} =>
        \A s \in Lower(q.cur) : task'[s] # Absent => task'[s] = "success"
  <2> SUFFICES ASSUME q.pc \in {"attempts", "save_run"}
               PROVE  \A s \in Lower(q.cur) : task'[s] # Absent => task'[s] = "success"
    OBVIOUS
  <2>1. PICK t \in Task : t = p.cur /\ t = q.cur /\ task[t] # Absent /\ Gate(t)
    BY <1>1, <1>2 DEF SameScan, PumpStaged
  <2>2. Gate(t)'
    BY <2>1 DEF GateStays
  <2> QED
    BY <2>1, <2>2 DEF Gate
<1>5. \A s \in Task : Unblocks(q.seen[s]) => task'[s] = "success"
  BY <1>2 DEF SameScan, PumpStaged, TaskFinal
<1>6. \A t \in q.todo : t.run \in q.listed =>
        \A s \in Lower(t) : s.copy = 0 /\ task'[s] # Absent => q.seen[s] # Absent
  BY <1>1, <1>2 DEF SameScan, PumpStaged, LowerStays
<1>7. \A r \in Runs : Unblocks(q.seen[Embedder(r)]) =>
        \A c \in 1..MaxFanOut :
          q.seen[EmbedTask(r, c)] = Absent => task'[EmbedTask(r, c)] = Absent
  BY <1>2, NamedTasks DEF SameScan, PumpStaged, FanOutCloses
<1>8. pump'[e] = q
  BY DEF q
<1> QED
  BY <1>3, <1>4, <1>5, <1>6, <1>7, <1>8 DEF PumpStaged, Gate

LEMMA IdleStaged == PumpStaged(PumpIdle) /\ HandlerStaged(HandlerIdle)
<1>1. HandlerStaged(HandlerIdle)
  BY DEF HandlerStaged, HandlerIdle
<1>2. \A s \in Task : ~Unblocks(PumpIdle.seen[s])
  BY DEF PumpIdle, Unblocks, Absent
<1>3. PumpIdle.pc = "idle" /\ PumpIdle.listed = {} /\ PumpIdle.todo = {}
  BY DEF PumpIdle
<1> QED
  BY <1>1, <1>2, <1>3, NamedTasks DEF PumpStaged

LEMMA IdleStagedAfter ==
  ASSUME NEW e \in Executors
  PROVE  /\ pump'[e] = PumpIdle => PumpStaged(pump[e])'
         /\ handler'[e] = HandlerIdle => HandlerStaged(handler[e])'
<1>1. PumpStaged(PumpIdle)' /\ HandlerStaged(HandlerIdle)'
  BY IdleStaged, PTL
<1> QED
  BY <1>1 DEF PumpStaged, HandlerStaged, Gate

LEMMA PumpListStaged ==
  ASSUME IInv, NEW e \in Executors, PumpStaged(pump[e]), PumpList(e)
  PROVE  PumpStaged(pump[e])'
<1>1. /\ pump[e].pc = "idle" /\ pump'[e].pc = "scan" /\ pump'[e].listed = pump[e].listed
      /\ pump'[e].seen = pump[e].seen
  BY PumpListDoes
<1>2. task' = task
  BY DEF PumpList, dbVars
<1>3. pump'[e].listed = {}
  BY <1>1 DEF PumpStaged
<1> QED
  BY <1>1, <1>2, <1>3 DEF PumpStaged

\* The row is ready only if its gate is open now, although some of the statuses
\* the scan goes by were read earlier.
LEMMA ReadyIsOpen ==
  ASSUME StagedProfile, IInv, PlanSaved, Owned, Staging, NEW e \in Executors,
         NEW t \in pump[e].todo,
         IsReady(t.kind, "pending", TasksOf(t.run), Siblings(e, t.run))
  PROVE  Gate(t)
<1> DEFINE seen == Siblings(e, t.run)
<1>1. t \in Task /\ task[t] # Absent /\ PumpStaged(pump[e])
  BY RecordOfLoop DEF PumpState, PumpOK, Staging
<1>2. /\ \A s \in Task : s.run = t.run =>
           seen[s] = IF t.run \in pump[e].listed THEN pump[e].seen[s] ELSE task[s]
      /\ \A s \in Lower(t) : seen[s] # Absent => Unblocks(seen[s])
  <2>1. \A s \in Task : s.run = t.run =>
           seen[s] = IF t.run \in pump[e].listed THEN pump[e].seen[s] ELSE task[s]
    BY DEF Siblings
  <2>2. CASE Stage(t) = 0
    <3>1. Lower(t) = {}
      BY <1>1, <2>2, StageFacts, LowerType
    <3> QED
      BY <2>1, <3>1
  <2>3. CASE Stage(t) # 0
    <3> HIDE DEF seen
    <3>1. \A s \in TasksOf(t.run) :
            seen[s] # Absent /\ OrderingForKind(s.kind) < OrderingForKind(t.kind)
              => Unblocks(seen[s])
      BY <1>1, <2>3, StageFacts DEF IsReady, Stage, UnknownStage, seen
    <3> QED
      BY <2>1, <3>1 DEF Lower, Stage, TasksOf
  <2> QED
    BY <2>2, <2>3
<1> HIDE DEF seen
<1>3. ASSUME NEW s \in Lower(t), task[s] # Absent, seen[s] # Absent PROVE task[s] = "success"
  <2>1. s \in Task /\ s.run = t.run /\ Unblocks(seen[s])
    BY <1>1, <1>2, <1>3, LowerType
  <2>2. task[s] \in {"pending", "running", "success", "failed"}
    BY <1>3, <2>1 DEF Owned, RowsOwned
  <2> QED
    BY <1>1, <1>2, <2>1, <2>2 DEF PumpStaged, Unblocks
<1>4. ASSUME NEW s \in Lower(t), task[s] # Absent, s.copy = 0 PROVE seen[s] # Absent
  <2>1. s \in Task /\ s.run = t.run
    BY <1>1, LowerType
  <2> QED
    BY <1>1, <1>2, <1>4, <2>1 DEF PumpStaged
<1>5. ASSUME NEW s \in Lower(t), task[s] # Absent, seen[s] = Absent PROVE FALSE
  <2>1. s \in Task /\ s.run = t.run /\ t.run \in Runs
    BY <1>1, LowerType, TaskFields
  <2>2. s.copy # 0
    BY <1>4, <1>5
  <2>3. s.copy \in 1..MaxFanOut /\ s.kind = "embedder" /\ s = EmbedTask(t.run, s.copy)
    BY <2>1, <2>2, TaskCases
  <2>4. t.kind = "indexer"
    BY <1>1, <2>3, LowerType, StageFacts
  <2>5. task[Embedder(t.run)] # Absent /\ Embedder(t.run) \in Lower(t)
    BY <1>1, <2>4, EmbedderBeforeIndexer
  <2>6. Unblocks(seen[Embedder(t.run)])
    BY <1>2, <1>4, <2>1, <2>5, NamedTasks
  <2>7. t.run \in pump[e].listed
    BY <1>2, <1>5, <2>1
  <2>8. Unblocks(pump[e].seen[Embedder(t.run)]) /\ pump[e].seen[s] = Absent
    BY <1>2, <1>5, <2>1, <2>6, <2>7, NamedTasks
  <2> QED
    BY <1>1, <1>5, <2>1, <2>3, <2>8 DEF PumpStaged
<1> QED
  BY <1>3, <1>5 DEF Gate

LEMMA PumpConsiderStaged ==
  ASSUME StagedProfile, IInv, PlanSaved, Owned, Staging, NEW e \in Executors, PumpConsider(e)
  PROVE  PumpStaged(pump[e])'
<1>1. PICK t \in pump[e].todo :
        /\ pump'[e].todo = pump[e].todo \ {t}
        /\ pump'[e].seen = Siblings(e, t.run)
        /\ pump'[e].listed = pump[e].listed \cup {t.run}
        /\ \/ /\ pump'[e].pc = "attempts" /\ pump'[e].cur = t
              /\ IsReady(t.kind, "pending", TasksOf(t.run), Siblings(e, t.run))
           \/ pump'[e].pc = "scan" /\ pump'[e].cur = None
  BY PumpConsiderDoes
<1>2. t \in Task /\ pump[e].todo \subseteq Task /\ PumpStaged(pump[e])
  BY RecordOfLoop DEF PumpState, Staging
<1>3. task' = task
  BY DEF PumpConsider, dbVars
<1>4. pump'[e].pc \in {"attempts", "save_run"} => Gate(pump'[e].cur)
  BY <1>1, ReadyIsOpen
<1> DEFINE p == pump[e]
           q == pump'[e]
<1>5. \A s \in Task : q.seen[s] = IF s.run = t.run /\ t.run \notin p.listed THEN task[s]
                                                                            ELSE p.seen[s]
  BY <1>1 DEF Siblings
<1>6. q.todo \subseteq p.todo /\ p.todo \subseteq Task /\ q.listed = p.listed \cup {t.run}
      /\ q.pc # "idle" /\ PumpStaged(p)
  BY <1>1, <1>2
<1> HIDE DEF p, q
<1>7. \A s \in Task : Unblocks(q.seen[s]) => task[s] = "success"
  <2> SUFFICES ASSUME NEW s \in Task, Unblocks(q.seen[s]) PROVE task[s] = "success"
    OBVIOUS
  <2>1. task[s] \in {Absent, "pending", "running", "success", "failed"}
    BY DEF Owned, RowsOwned
  <2> QED
    BY <1>5, <1>6, <2>1 DEF PumpStaged, Unblocks, Absent
<1>8. ASSUME NEW u \in q.todo, u.run \in q.listed, NEW s \in Lower(u), s.copy = 0,
             task[s] # Absent
      PROVE  q.seen[s] # Absent
  <2>1. s \in Task /\ s.run = u.run
    BY <1>2, <1>6, LowerType
  <2> QED
    BY <1>5, <1>6, <1>8, <2>1 DEF PumpStaged
<1>9. ASSUME NEW r \in Runs, Unblocks(q.seen[Embedder(r)]), NEW c \in 1..MaxFanOut,
             q.seen[EmbedTask(r, c)] = Absent
      PROVE  task[EmbedTask(r, c)] = Absent
  <2>1. /\ Embedder(r) \in Task /\ EmbedTask(r, c) \in Task
        /\ Embedder(r).run = r /\ EmbedTask(r, c).run = r
    BY NamedTasks
  <2> QED
    BY <1>5, <1>6, <1>9, <2>1 DEF PumpStaged
<1>10. pump'[e] = q
  BY DEF q
<1> QED
  BY <1>3, <1>4, <1>6, <1>7, <1>8, <1>9, <1>10 DEF PumpStaged, Gate

LEMMA PumpStepStaged ==
  ASSUME OneExecutor, StagedProfile, IInv, PlanSaved, Owned, Staging, [Next]_vars,
         NEW e \in Executors, Pump(e)
  PROVE  PumpStaged(pump[e])'
<1>1. PumpStaged(pump[e]) /\ TaskFinal /\ GateStays /\ LowerStays /\ FanOutCloses
  BY StepTaskFinal, StepGates DEF Staging
<1>2. CASE PumpList(e)
  BY <1>1, <1>2, PumpListStaged
<1>3. CASE PumpConsider(e)
  BY <1>3, PumpConsiderStaged
<1>4. CASE PumpSleep(e)
  BY <1>4, PumpSleepDoes, IdleStagedAfter
<1>5. CASE PumpCountAttempts(e) \/ PumpSaveTaskRun(e)
  <2>1. SameScan(pump[e], pump'[e])
    BY <1>5, PumpCountAttemptsDoes, PumpSaveTaskRunDoes DEF SameScan
  <2> QED
    BY <1>1, <2>1, PumpStagedStays
<1>6. CASE PumpSaveTask(e) \/ PumpGetDag(e) \/ PumpSaveDag(e) \/ PumpPublish(e)
  <2>1. SameScan(pump[e], pump'[e])
    BY <1>6, PumpSaveTaskDoes, PumpGetDagDoes, PumpSaveDagDoes, PumpPublishDoes DEF SameScan
  <2> QED
    BY <1>1, <2>1, PumpStagedStays
<1> QED
  BY <1>2, <1>3, <1>4, <1>5, <1>6 DEF Pump

\* A status loop that keeps its message.
LEMMA HandlerStagedStays ==
  ASSUME OneExecutor, IInv, PlanSaved, Owned, Staging, [Next]_vars, NEW e \in Executors,
         handler'[e].msg = handler[e].msg,
         handler'[e].pc # "idle" => handler[e].pc # "idle",
         handler'[e].pc = "fan_out" => handler[e].pc = "fan_out"
  PROVE  HandlerStaged(handler[e])'
<1> DEFINE h == handler[e]
           g == handler'[e]
           t == h.msg.attempt.task
<1>1. HandlerStaged(h) /\ TaskFinal
  BY StepTaskFinal DEF Staging
<1>2. g.pc # "idle" => SetsFromChunker(h.msg)
  BY <1>1 DEF HandlerStaged
<1>3. ASSUME g.pc = "fan_out"
      PROVE  /\ t.kind = "chunker" /\ task'[t] = "success"
             /\ task'[Embedder(t.run)] # "success"
  <2>1. t \in Task /\ t.run \in Runs /\ h.pc = "fan_out"
    BY <1>3, CurrentMessage
  <2>2. t.kind = "chunker" /\ task[t] = "success" /\ task[Embedder(t.run)] # "success"
    BY <1>1, <2>1 DEF HandlerStaged
  <2>3. task'[t] = "success"
    BY <1>1, <2>1, <2>2 DEF TaskFinal
  <2>4. ASSUME task'[Embedder(t.run)] = "success" PROVE FALSE
    <3>1. Finished(Embedder(t.run))
      BY <2>1, <2>2, <2>4, NamedTasks, TaskChange
    <3>2. \A f \in Executors : ~HandlerSaveTask(f)
      BY <2>1, HandlerSaveTaskDoes DEF OneExecutor
    <3> QED
      BY <3>1, <3>2 DEF Finished
  <2> QED
    BY <2>2, <2>3, <2>4
<1> HIDE DEF h
<1>4. g.msg = h.msg
  BY DEF h
<1> HIDE DEF g
<1>5. handler'[e] = g
  BY DEF g
<1> QED
  BY <1>2, <1>3, <1>4, <1>5 DEF HandlerStaged, SetsFromChunker

LEMMA HandlerStepStaged ==
  ASSUME OneExecutor, StagedProfile, IInv, PlanSaved, Owned, Staging, [Next]_vars,
         NEW e \in Executors, Handler(e)
  PROVE  HandlerStaged(handler[e])'
<1>1. CASE HandlerReceive(e)
  <2>1. CASE handler'[e] = handler[e]
    BY <2>1, HandlerStagedStays
  <2>2. CASE handler'[e] # handler[e]
    <3>1. PICK m \in statuses[e] : handler'[e].pc = "save_run" /\ handler'[e].msg = m
      BY <1>1, <2>2, HandlerReceiveDoes
    <3> QED
      BY <3>1 DEF HandlerStaged, Staging
  <2> QED
    BY <2>1, <2>2
<1>2. CASE HandlerSaveTaskRun(e) \/ HandlerGetTask(e) \/ HandlerListAttempts(e)
  <2>1. /\ handler'[e].msg = handler[e].msg /\ handler[e].pc # "idle"
        /\ handler'[e].pc \in {"get_task", "save_task", "list_attempts"}
    BY <1>2, HandlerSaveTaskRunDoes, HandlerGetTaskDoes, HandlerListAttemptsDoes
  <2> QED
    BY <2>1, HandlerStagedStays
<1>3. CASE HandlerFanOut(e) \/ HandlerGetDag(e)
  <2>1. /\ handler'[e].msg = handler[e].msg /\ handler[e].pc # "idle"
        /\ handler'[e].pc = "fan_out" => handler[e].pc = "fan_out"
    BY <1>3, HandlerFanOutDoes, HandlerGetDagDoes
  <2> QED
    BY <2>1, HandlerStagedStays
<1>4. CASE HandlerListTasks(e) \/ HandlerSaveDag(e)
  <2>1. \/ handler'[e] = HandlerIdle
        \/ handler'[e].msg = handler[e].msg /\ handler[e].pc # "idle" /\ handler'[e].pc = "save_dag"
    BY <1>4, HandlerListTasksDoes, HandlerSaveDagDoes
  <2> QED
    BY <2>1, HandlerStagedStays, IdleStagedAfter
<1>5. CASE HandlerSaveTask(e)
  <2> DEFINE m == handler[e].msg
             t == m.attempt.task
             s == Embedder(t.run)
  <2>1. /\ handler[e].pc = "save_task" /\ t \in Task /\ m.sets \in Nat
        /\ \A u \in Task : task'[u] = IF u = t THEN handler[e].next ELSE task[u]
        /\ handler'[e].pc = IF m.sets > 0 THEN "fan_out" ELSE "get_dag"
        /\ handler'[e].msg = m
    BY <1>5, HandlerSaveTaskDoes
  <2>2. HandlerOwns(handler[e]) /\ RowsOwned /\ HandlerStaged(handler[e])
    BY DEF Owned, Staging
  <2>3. task[t] = "running" /\ (m.ok => handler[e].next = "success")
        /\ SetsFromChunker(m)
    BY <2>1, <2>2 DEF HandlerOwns, Current, HandlerStaged
  <2>4. ASSUME handler'[e].pc = "fan_out"
        PROVE  t.kind = "chunker" /\ task'[t] = "success" /\ task'[s] # "success"
    <3>1. t.kind = "chunker" /\ m.ok
      BY <2>1, <2>3, <2>4 DEF SetsFromChunker
    <3>2. s \in Task /\ s.run = t.run /\ s.kind = "embedder"
      BY <2>1, TaskFields, NamedTasks
    <3>3. t \in Lower(s)
      BY <2>1, <3>1, <3>2, StageFacts DEF Lower
    <3>4. ~Gate(s)
      BY <2>3, <3>3 DEF Gate, Absent
    <3>5. attempts[s] = <<>>
      BY <3>2, <3>4 DEF Staging
    <3>6. task[s] # "success"
      BY <2>2, <3>2, <3>5 DEF RowsOwned
    <3> QED
      BY <2>1, <2>3, <3>1, <3>2, <3>6
  <2> HIDE DEF m
  <2>5. handler'[e].pc # "idle" => SetsFromChunker(handler'[e].msg)
    BY <2>1, <2>3
  <2> QED
    BY <2>1, <2>4, <2>5 DEF HandlerStaged, SetsFromChunker
<1> QED
  BY <1>1, <1>2, <1>3, <1>4, <1>5 DEF Handler

LEMMA LoopsStaged ==
  ASSUME OneExecutor, StagedProfile, IInv, PlanSaved, Owned, Staging, [Next]_vars,
         NEW e \in Executors
  PROVE  PumpStaged(pump[e])' /\ HandlerStaged(handler[e])'
<1>1. ASSUME UNCHANGED handler PROVE HandlerStaged(handler[e])'
  BY <1>1, HandlerStagedStays
<1>2. ASSUME UNCHANGED pump PROVE PumpStaged(pump[e])'
  <2>1. SameScan(pump[e], pump'[e])
    BY <1>2 DEF SameScan
  <2> QED
    BY <2>1, StepTaskFinal, StepGates, PumpStagedStays DEF Staging
<1>3. CASE Pump(e)
  BY <1>1, <1>3, PumpLeavesHandler, PumpStepStaged
<1>4. CASE Handler(e)
  BY <1>2, <1>4, HandlerLeavesPump, HandlerStepStaged
<1>5. CASE ExecutorCrash(e)
  BY <1>5, ExecutorCrashDoes, IdleStagedAfter
<1> QED
  BY <1>1, <1>2, <1>3, <1>4, <1>5, LoopSteps DEF OneExecutor

\* Who puts requests and statuses on the network.
LEMMA NetSteps ==
  ASSUME IInv, [Next]_vars
  PROVE  /\ requests' \subseteq requests \/ \E e \in Executors : PumpPublish(e)
         /\ \/ \A f \in Executors : statuses'[f] \subseteq statuses[f]
            \/ \E q \in requests : WorkerAnswer(q)
<1> DEFINE Quiet == /\ requests' \subseteq requests
                    /\ \A f \in Executors : statuses'[f] \subseteq statuses[f]
<1> USE DEF netVars
<1>1. ASSUME UNCHANGED netVars PROVE Quiet
  BY <1>1
<1>2. ASSUME NEW r \in Runs, Planner(r) \/ PlannerCrash(r) PROVE UNCHANGED netVars
  BY <1>2 DEF Planner, PlannerSaveRun, PlannerSaveTask, PlannerCrash
<1>3. ASSUME NEW e \in Executors, Pump(e), ~PumpPublish(e) PROVE UNCHANGED netVars
  BY <1>3 DEF Pump, PumpList, PumpConsider, PumpCountAttempts, PumpSaveTaskRun, PumpSaveTask,
              PumpGetDag, PumpSaveDag, PumpSleep
<1>4. ASSUME NEW e \in Executors, PumpPublish(e)
      PROVE  \A f \in Executors : statuses'[f] \subseteq statuses[f]
  BY <1>4 DEF PumpPublish
<1>5. ASSUME NEW e \in Executors, Handler(e), ~HandlerReceive(e) PROVE UNCHANGED netVars
  BY <1>5 DEF Handler, HandlerSaveTaskRun, HandlerGetTask, HandlerListAttempts, HandlerSaveTask,
              HandlerFanOut, HandlerGetDag, HandlerListTasks, HandlerSaveDag
<1>6. ASSUME NEW e \in Executors, HandlerReceive(e) PROVE Quiet
  BY <1>6, HandlerReceiveDoes DEF HandlerReceive
<1>7. ASSUME NEW e \in Executors, ExecutorCrash(e) PROVE Quiet
  BY <1>7, ExecutorCrashDoes DEF ExecutorCrash
<1>8. ASSUME NEW e \in Executors, ExecutorStart(e) PROVE UNCHANGED netVars
  BY <1>8 DEF ExecutorStart
<1>9. ASSUME NEW q \in requests, WorkerAnswer(q) \/ WorkerLose(q)
      PROVE  requests' \subseteq requests /\ (WorkerLose(q) => statuses' = statuses)
  BY <1>9 DEF WorkerAnswer, WorkerLose
<1>10. CASE UNCHANGED vars
  BY <1>1, <1>10 DEF vars
<1> QED
  BY <1>1, <1>2, <1>3, <1>4, <1>5, <1>6, <1>7, <1>8, <1>9, <1>10 DEF Next

LEMMA InitStaging == Init => Staging
<1> SUFFICES ASSUME Init PROVE Staging
  OBVIOUS
<1>1. FanOutStaged
  <2> SUFFICES ASSUME NEW r \in Runs, NEW c \in 1..MaxFanOut PROVE task[EmbedTask(r, c)] = Absent
    BY DEF FanOutStaged
  <2>1. EmbedTask(r, c) \in Task /\ EmbedTask(r, c).copy # 0
    BY NamedTasks
  <2>2. \A t \in PlannedTasks : t.copy = 0
    BY DEF PlannedTasks, PlannedTask
  <2> QED
    BY <2>1, <2>2 DEF Init
<1> QED
  BY <1>1, IdleStaged DEF Init, Staging

LEMMA StepStaging ==
  ASSUME OneExecutor, StagedProfile
  PROVE  IInv /\ PlanSaved /\ Owned /\ Staging /\ [Next]_vars => Staging'
<1> SUFFICES ASSUME IInv, PlanSaved, Owned, Staging, [Next]_vars PROVE Staging'
  OBVIOUS
<1>1. TaskFinal /\ GateStays
  BY StepTaskFinal, StepGates
<1>2. FanOutStaged'
  <2> SUFFICES ASSUME NEW r \in Runs, NEW c \in 1..MaxFanOut, task'[EmbedTask(r, c)] # Absent
               PROVE  task'[Chunker(r)] = "success"
    BY DEF FanOutStaged
  <2> DEFINE s == EmbedTask(r, c)
  <2>1. s \in Task /\ s.run = r /\ s.copy # 0 /\ Chunker(r) \in Task
    BY NamedTasks
  <2>2. CASE task[s] # Absent
    BY <1>1, <2>1, <2>2 DEF TaskFinal, Staging, FanOutStaged
  <2>3. CASE task[s] = Absent
    <3>1. Inserted(s)
      BY <2>1, <2>3, TaskChange DEF Absent
    <3>2. \A q \in Runs : PlannedTask(q, planned[q]).copy = 0
      BY DEF PlannedTask
    <3> HIDE DEF s
    <3>3. PICK e \in Executors : HandlerFanOut(e) /\ r = handler[e].msg.attempt.task.run
      BY <2>1, <3>1, <3>2 DEF Inserted
    <3>4. task[Chunker(r)] = "success"
      BY <3>3, FanOutStep
    <3> QED
      BY <1>1, <2>1, <3>4 DEF TaskFinal
  <2> QED
    BY <2>2, <2>3
<1>3. ASSUME NEW t \in Task, attempts'[t] # <<>> PROVE Gate(t)'
  <2>1. task[t] # Absent /\ Gate(t)
    <3>1. CASE attempts[t] # <<>>
      BY <3>1 DEF Staging, IInv, DbOK
    <3>2. CASE attempts[t] = <<>>
      <4>1. PICK e \in Executors : PumpSaveTaskRun(e)
        <5>1. ASSUME NEW e \in Executors, HandlerSaveTaskRun(e) PROVE FALSE
          <6> DEFINE a == handler[e].msg.attempt
          <6>1. /\ a.n \in DOMAIN attempts[a.task]
                /\ \A u \in Task : u # a.task => attempts'[u] = attempts[u]
            BY <5>1, HandlerSaveTaskRunDoes
          <6> QED
            BY <1>3, <3>2, <6>1
        <5> QED
          BY <1>3, <3>2, <5>1, AttemptSteps
      <4>2. pump[e].pc = "save_run" /\ t = pump[e].cur
        BY <1>3, <3>2, <4>1, PumpSaveTaskRunDoes
      <4>3. PumpStaged(pump[e]) /\ PumpOwns(pump[e])
        BY DEF Staging, Owned
      <4> QED
        BY <4>2, <4>3 DEF PumpStaged, PumpOwns, Absent
    <3> QED
      BY <3>1, <3>2
  <2> QED
    BY <1>1, <2>1 DEF GateStays
<1>4. ASSUME NEW e \in Executors, NEW m \in statuses'[e] PROVE SetsFromChunker(m)
  BY NetSteps, WorkerAnswerDoes DEF Staging
<1>5. \A e \in Executors : PumpStaged(pump[e])' /\ HandlerStaged(handler[e])'
  BY LoopsStaged
<1> QED
  BY <1>2, <1>3, <1>4, <1>5 DEF Staging, SetsFromChunker

\* A saved attempt has its gate open, and the scan and the status loop keep it so.
THEOREM StagingInvariant == ASSUME OneExecutor, StagedProfile PROVE Spec => []Staging
<1>1. Init => Staging
  BY InitStaging
<1>2. IInv /\ PlanSaved /\ Owned /\ Staging /\ [Next]_vars => Staging'
  BY StepStaging
<1> QED
  BY <1>1, <1>2, Invariance, PlanIsPrefix, Ownership, PTL DEF Spec

\* Once a task has an attempt, every task of an earlier stage of its run is
\* done, the fan-out included, although the scan decides from sibling statuses
\* read earlier.
THEOREM StagesAlwaysInOrder == ASSUME OneExecutor, StagedProfile PROVE Spec => []StagesInOrder
<1>1. Staging => StagesInOrder
  BY DEF Staging, StagesInOrder, Gate, Lower, Unblocks
<1> QED
  BY <1>1, StagingInvariant, PTL
-----------------------------------------------------------------------------
(* The fan-out, when nothing crashes.                                      *)

FanningOut(r) ==
  \E e \in Executors : handler[e].pc = "fan_out" /\ handler[e].msg.attempt.task.run = r

FanOutCounted ==
  /\ \A t \in Task : task[t] = Absent => result[t] = 0
  /\ \A r \in Runs : task[Chunker(r)] = "success" /\ ~FanningOut(r)
                       => Cardinality(FanOut(r)) = ChunkSets(r)
  /\ \A e \in Executors :
       /\ handler[e].pc = "fan_out" =>
            Cardinality(FanOut(handler[e].msg.attempt.task.run)) + handler[e].left
              = ChunkSets(handler[e].msg.attempt.task.run)
       /\ handler[e].pc = "save_task" /\ handler[e].msg.ok =>
            handler[e].result = handler[e].msg.sets


LEMMA FanOutType ==
  ASSUME NEW r \in Runs
  PROVE  FanOut(r) \subseteq 1..MaxFanOut /\ IsFiniteSet(FanOut(r)) /\ Cardinality(FanOut(r)) \in Nat
<1>1. FanOut(r) \subseteq 1..MaxFanOut
  BY DEF FanOut
<1>2. IsFiniteSet(1..MaxFanOut)
  BY BoundsAssumption, FS_Interval
<1>3. IsFiniteSet(FanOut(r))
  BY <1>1, <1>2, FS_Subset
<1> QED
  BY <1>1, <1>3, FS_CardinalityType

LEMMA ChunkSetsType ==
  ASSUME IInv, NEW r \in Runs PROVE ChunkSets(r) = result[Chunker(r)] /\ ChunkSets(r) \in Nat
  BY NamedTasks DEF IInv, TypeOK, ChunkSets, Chunker

\* The stored result of a task that is done, or not saved, is written by no
\* step but the save of its outcome.
LEMMA ResultSteps ==
  ASSUME OneExecutor, IInv, PlanSaved, Owned, [Next]_vars, NEW t \in Task,
         task[t] \in {Absent, "success"}
  PROVE  result'[t] = result[t] \/ (task[t] = Absent /\ task'[t] = "pending" /\ result'[t] = 0)
<1>1. ASSUME NEW r \in Runs, PlannerSaveRun(r) \/ PlannerSaveTask(r)
      PROVE  result'[t] = result[t] \/ (task[t] = Absent /\ task'[t] = "pending" /\ result'[t] = 0)
  <2>1. CASE PlannerSaveRun(r)
    BY <2>1 DEF PlannerSaveRun
  <2>2. CASE PlannerSaveTask(r)
    BY <2>2, PlannerSaveTaskDoes, PlannerSaveTaskPlan
  <2> QED
    BY <1>1, <2>1, <2>2
<1>2. ASSUME NEW e \in Executors, PumpSaveTask(e) PROVE result'[t] = result[t]
  <2>1. PumpOwns(pump[e])
    BY DEF Owned
  <2> QED
    BY <1>2, <2>1, PumpSaveTaskDoes DEF PumpOwns, Absent
<1>3. ASSUME NEW e \in Executors, HandlerSaveTask(e) PROVE result'[t] = result[t]
  <2>1. HandlerOwns(handler[e])
    BY DEF Owned
  <2> QED
    BY <1>3, <2>1, HandlerSaveTaskDoes DEF HandlerOwns, Current, Absent
<1>4. ASSUME NEW e \in Executors, HandlerFanOut(e)
      PROVE  result'[t] = result[t] \/ (task[t] = Absent /\ task'[t] = "pending" /\ result'[t] = 0)
  BY <1>4, HandlerFanOutDoes
<1> QED
  BY <1>1, <1>2, <1>3, <1>4, TaskSteps

\* A step that is not a fan-out leaves the embedder tasks of the run as they are.
LEMMA FanOutKept ==
  ASSUME OneExecutor, IInv, PlanSaved, Owned, [Next]_vars, NEW r \in Runs,
         ~ \E e \in Executors : HandlerFanOut(e) /\ handler[e].msg.attempt.task.run = r
  PROVE  FanOut(r)' = FanOut(r)
<1>1. ASSUME NEW c \in 1..MaxFanOut
      PROVE  task'[EmbedTask(r, c)] # Absent <=> task[EmbedTask(r, c)] # Absent
  <2> DEFINE s == EmbedTask(r, c)
  <2>1. s \in Task /\ s.run = r /\ s.copy # 0
    BY NamedTasks
  <2>2. \A q \in Runs : PlannedTask(q, planned[q]).copy = 0
    BY DEF PlannedTask
  <2> HIDE DEF s
  <2>3. ~Inserted(s)
    BY <2>1, <2>2 DEF Inserted
  <2>4. task'[s] # Absent <=> task[s] # Absent
    BY <2>1, <2>3, TaskChange DEF Absent
  <2> QED
    BY <2>4 DEF s
<1> QED
  BY <1>1 DEF FanOut

LEMMA FanOutGrows ==
  ASSUME IInv, NEW e \in Executors, HandlerFanOut(e)
  PROVE  \E r \in Runs : /\ r = handler[e].msg.attempt.task.run
                         /\ Cardinality(FanOut(r))' = Cardinality(FanOut(r)) + 1
                         /\ \A q \in Runs : q # r => FanOut(q)' = FanOut(q)
                         /\ ChunkSets(r)' = ChunkSets(r)
<1>1. PICK r \in Runs : r = handler[e].msg.attempt.task.run
  BY HandlerFanOutDoes
<1>2. PICK c \in 1..MaxFanOut :
        /\ task[EmbedTask(r, c)] = Absent
        /\ \A u \in Task : task'[u] = IF u = EmbedTask(r, c) THEN "pending" ELSE task[u]
        /\ \A u \in Task : result'[u] = IF u = EmbedTask(r, c) THEN 0 ELSE result[u]
  BY <1>1, HandlerFanOutDoes
<1>3. \A q \in Runs, d \in 1..MaxFanOut : EmbedTask(q, d) = EmbedTask(r, c) => q = r /\ d = c
  BY DEF EmbedTask
<1>4. FanOut(r)' = FanOut(r) \cup {c} /\ c \notin FanOut(r)
  BY <1>1, <1>2, <1>3, NamedTasks DEF FanOut, Absent
<1>5. Cardinality(FanOut(r) \cup {c}) = Cardinality(FanOut(r)) + 1
  BY <1>4, FanOutType, FS_AddElement
<1>6. ASSUME NEW q \in Runs, q # r PROVE FanOut(q)' = FanOut(q)
  BY <1>2, <1>3, <1>6, NamedTasks DEF FanOut
<1>7. result'[Chunker(r)] = result[Chunker(r)]
  BY <1>2, NamedTasks
<1> QED
  BY <1>1, <1>4, <1>5, <1>6, <1>7 DEF ChunkSets, Chunker

LEMMA HandlerSteps ==
  ASSUME [Next]_vars
  PROVE  UNCHANGED handler \/ \E e \in Executors : Handler(e) \/ ExecutorCrash(e)
  BY LoopSteps, PumpLeavesHandler

\* The status loop enters and leaves the fan-out in two steps only, and decides
\* on a success in one.
LEMMA FanningSteps ==
  ASSUME OneExecutor, MaxCrashes = 0, IInv, Owned, [Next]_vars, NEW e \in Executors,
         ~HandlerSaveTask(e), ~HandlerFanOut(e)
  PROVE  /\ handler'[e].pc = "fan_out" <=> handler[e].pc = "fan_out"
         /\ handler[e].pc = "fan_out" => handler'[e] = handler[e]
         /\ handler'[e].pc = "save_task" /\ handler'[e].msg.ok =>
              handler'[e] = handler[e] \/ handler'[e].result = handler'[e].msg.sets
<1>1. CASE handler'[e] = handler[e]
  BY <1>1
<1>2. CASE handler'[e] # handler[e]
  <2>1. Handler(e)
    BY <1>2, HandlerSteps, ExecutorCrashDoes, BoundsAssumption DEF OneExecutor
  <2>2. CASE HandlerGetTask(e)
    BY <2>2, HandlerGetTaskDoes
  <2>3. CASE HandlerListAttempts(e)
    <3>1. HandlerOwns(handler[e])
      BY DEF Owned
    <3> QED
      BY <2>3, <3>1, HandlerListAttemptsDoes DEF HandlerOwns
  <2>4. CASE HandlerReceive(e) \/ HandlerSaveTaskRun(e) \/ HandlerGetDag(e)
    BY <1>2, <2>4, HandlerReceiveDoes, HandlerSaveTaskRunDoes, HandlerGetDagDoes
  <2>5. CASE HandlerListTasks(e) \/ HandlerSaveDag(e)
    BY <2>5, HandlerListTasksDoes, HandlerSaveDagDoes DEF HandlerIdle
  <2> QED
    BY <2>1, <2>2, <2>3, <2>4, <2>5 DEF Handler
<1> QED
  BY <1>1, <1>2

\* The embedder tasks of the run are as many as its chunker announced.
Counted(r) == Cardinality(FanOut(r)) = ChunkSets(r)

LEMMA NoFanOutYet ==
  ASSUME Staging, NEW r \in Runs, task[Chunker(r)] # "success"
  PROVE  FanOut(r) = {} /\ Cardinality(FanOut(r)) = 0
<1>1. FanOut(r) = {}
  BY DEF Staging, FanOutStaged, FanOut
<1> QED
  BY <1>1, FS_EmptySet

LEMMA SaveTaskCounts ==
  ASSUME OneExecutor, IInv, PlanSaved, Owned, Staging, FanOutCounted, [Next]_vars,
         NEW e \in Executors, HandlerSaveTask(e)
  PROVE  /\ \A r \in Runs : task'[Chunker(r)] = "success" /\ ~FanningOut(r)' => Counted(r)'
         /\ handler'[e].pc = "fan_out" =>
              Cardinality(FanOut(handler[e].msg.attempt.task.run))' + handler'[e].left
                = ChunkSets(handler[e].msg.attempt.task.run)'
<1>1. PICK m : m = handler[e].msg
  OBVIOUS
<1>2. PICK t : t = m.attempt.task
  OBVIOUS
<1>3. /\ handler[e].pc = "save_task" /\ t \in Task /\ t.run \in Runs /\ m.sets \in Nat
      /\ \A u \in Task : task'[u] = IF u = t THEN handler[e].next ELSE task[u]
      /\ \A u \in Task : result'[u] = IF u = t THEN handler[e].result ELSE result[u]
      /\ handler'[e].pc = IF m.sets > 0 THEN "fan_out" ELSE "get_dag"
      /\ handler'[e].left = m.sets /\ handler'[e].msg = m
  BY <1>1, <1>2, HandlerSaveTaskDoes, TaskFields
<1>4. HandlerOwns(handler[e]) /\ HandlerStaged(handler[e])
  BY DEF Owned, Staging
<1>5. task[t] = "running" /\ (handler[e].next = "success" <=> m.ok) /\ SetsFromChunker(m)
  BY <1>1, <1>2, <1>3, <1>4 DEF HandlerOwns, Current, HandlerStaged
<1>6. m.ok => handler[e].result = m.sets
  BY <1>1, <1>3 DEF FanOutCounted
<1>7. \A r \in Runs : FanOut(r)' = FanOut(r)
  <2>1. \A f \in Executors : ~HandlerFanOut(f)
    BY <1>3 DEF HandlerFanOut, OneExecutor
  <2> QED
    BY <2>1, FanOutKept
<1>8. ASSUME NEW r \in Runs, Chunker(r) = t, m.ok
      PROVE  Cardinality(FanOut(r))' = 0 /\ ChunkSets(r)' = m.sets
  <2>1. Cardinality(FanOut(r)) = 0
    BY <1>5, <1>8, NoFanOutYet
  <2>2. ChunkSets(r)' = result'[Chunker(r)]
    BY DEF ChunkSets, Chunker
  <2> QED
    BY <1>3, <1>6, <1>7, <1>8, <2>1, <2>2
<1>9. ASSUME NEW r \in Runs, task'[Chunker(r)] = "success", ~FanningOut(r)' PROVE Counted(r)'
  <2>1. CASE Chunker(r) = t
    <3>1. m.ok
      BY <1>3, <1>5, <1>9, <2>1
    <3>2. t.run = r
      BY <2>1, NamedTasks
    <3>3. ~(m.sets > 0)
      BY <1>2, <1>3, <1>9, <3>2 DEF FanningOut
    <3>4. m.sets = 0
      BY <1>3, <3>3
    <3> QED
      BY <1>8, <2>1, <3>1, <3>4 DEF Counted
  <2>2. CASE Chunker(r) # t
    <3>1. task[Chunker(r)] = "success" /\ result'[Chunker(r)] = result[Chunker(r)]
      BY <1>3, <1>9, <2>2, NamedTasks
    <3>2. ~FanningOut(r)
      BY <1>3 DEF FanningOut, OneExecutor
    <3>3. Counted(r)
      BY <3>1, <3>2 DEF FanOutCounted, Counted
    <3> QED
      BY <1>7, <3>1, <3>3 DEF Counted, ChunkSets, Chunker
  <2> QED
    BY <2>1, <2>2
<1>10. ASSUME handler'[e].pc = "fan_out"
       PROVE  /\ Cardinality(FanOut(t.run))' = 0 /\ handler'[e].left = m.sets
              /\ ChunkSets(t.run)' = m.sets
  <2>1. m.ok /\ t.kind = "chunker"
    BY <1>2, <1>3, <1>5, <1>10 DEF SetsFromChunker
  <2>2. Chunker(t.run) = t
    BY <1>3, <2>1, ChunkerOfRun
  <2> QED
    BY <1>3, <1>8, <2>1, <2>2
<1>11. ASSUME handler'[e].pc = "fan_out"
       PROVE  Cardinality(FanOut(t.run))' + handler'[e].left = ChunkSets(t.run)'
  BY <1>3, <1>10, <1>11
<1> QED
  BY <1>1, <1>2, <1>3, <1>9, <1>11 DEF Counted

LEMMA FanOutCounts ==
  ASSUME OneExecutor, IInv, PlanSaved, Owned, Staging, FanOutCounted, [Next]_vars,
         NEW e \in Executors, HandlerFanOut(e)
  PROVE  /\ \A r \in Runs : task'[Chunker(r)] = "success" /\ ~FanningOut(r)' => Counted(r)'
         /\ handler'[e].pc = "fan_out" =>
              Cardinality(FanOut(handler[e].msg.attempt.task.run))' + handler'[e].left
                = ChunkSets(handler[e].msg.attempt.task.run)'
<1>1. PICK q \in Runs : /\ q = handler[e].msg.attempt.task.run
                        /\ Cardinality(FanOut(q))' = Cardinality(FanOut(q)) + 1
                        /\ \A r \in Runs : r # q => FanOut(r)' = FanOut(r)
                        /\ ChunkSets(q)' = ChunkSets(q)
  BY FanOutGrows
<1>2. /\ handler[e].pc = "fan_out"
      /\ handler[e].left \in Nat \ {0} /\ handler'[e].left = handler[e].left - 1
      /\ handler'[e].pc = IF handler'[e].left > 0 THEN "fan_out" ELSE "get_dag"
      /\ handler'[e].msg = handler[e].msg
  BY HandlerFanOutDoes
<1>3. Cardinality(FanOut(q)) + handler[e].left = ChunkSets(q)
  BY <1>1, <1>2 DEF FanOutCounted
<1>4. Cardinality(FanOut(q)) \in Nat /\ ChunkSets(q) \in Nat
  BY FanOutType, ChunkSetsType
<1>5. Cardinality(FanOut(q))' + handler'[e].left = ChunkSets(q)'
  BY <1>1, <1>2, <1>3, <1>4
<1>6. ASSUME NEW r \in Runs, task'[Chunker(r)] = "success", ~FanningOut(r)' PROVE Counted(r)'
  <2>1. CASE r = q
    <3>1. ~(handler'[e].left > 0)
      BY <1>1, <1>2, <1>6, <2>1 DEF FanningOut
    <3>2. handler'[e].left = 0
      BY <1>2, <3>1
    <3> QED
      BY <1>1, <1>4, <1>5, <2>1, <3>2 DEF Counted
  <2>2. CASE r # q
    <3>1. PICK c \in 1..MaxFanOut :
            /\ \A u \in Task : task'[u] = IF u = EmbedTask(q, c) THEN "pending" ELSE task[u]
            /\ \A u \in Task : result'[u] = IF u = EmbedTask(q, c) THEN 0 ELSE result[u]
      BY <1>1, HandlerFanOutDoes
    <3>2. task[Chunker(r)] = "success" /\ result'[Chunker(r)] = result[Chunker(r)]
      BY <1>6, <3>1, NamedTasks
    <3>3. ~FanningOut(r)
      BY <1>1, <2>2 DEF FanningOut, OneExecutor
    <3>4. Counted(r)
      BY <3>2, <3>3 DEF FanOutCounted, Counted
    <3> QED
      BY <1>1, <2>2, <3>2, <3>4 DEF Counted, ChunkSets, Chunker
  <2> QED
    BY <2>1, <2>2
<1> QED
  BY <1>1, <1>2, <1>5, <1>6

LEMMA StepFanOut ==
  ASSUME OneExecutor, StagedProfile, MaxCrashes = 0
  PROVE  IInv /\ PlanSaved /\ Owned /\ Staging /\ FanOutCounted /\ [Next]_vars => FanOutCounted'
<1> SUFFICES ASSUME IInv, PlanSaved, Owned, Staging, FanOutCounted, [Next]_vars
             PROVE  FanOutCounted'
  OBVIOUS
<1>1. ASSUME NEW t \in Task, task'[t] = Absent PROVE result'[t] = 0
  <2>1. task[t] = Absent
    BY <1>1, TaskChange DEF Absent
  <2> QED
    BY <1>1, <2>1, ResultSteps DEF FanOutCounted, Absent
<1>2. ASSUME NEW e \in Executors, handler'[e].pc = "save_task", handler'[e].msg.ok
      PROVE  handler'[e].result = handler'[e].msg.sets
  <2>1. CASE HandlerSaveTask(e) \/ HandlerFanOut(e)
    BY <1>2, <2>1, HandlerSaveTaskDoes, HandlerFanOutDoes
  <2>2. CASE ~(HandlerSaveTask(e) \/ HandlerFanOut(e))
    BY <1>2, <2>2, FanningSteps DEF FanOutCounted
  <2> QED
    BY <2>1, <2>2
<1>3. /\ \A r \in Runs : task'[Chunker(r)] = "success" /\ ~FanningOut(r)' => Counted(r)'
      /\ \A e \in Executors : handler'[e].pc = "fan_out" =>
           Cardinality(FanOut(handler[e].msg.attempt.task.run))' + handler'[e].left
             = ChunkSets(handler[e].msg.attempt.task.run)'
  <2>1. CASE \E e \in Executors : HandlerSaveTask(e)
    BY <2>1, SaveTaskCounts DEF OneExecutor
  <2>2. CASE \E e \in Executors : HandlerFanOut(e)
    BY <2>2, FanOutCounts DEF OneExecutor
  <2>3. CASE \A e \in Executors : ~HandlerSaveTask(e) /\ ~HandlerFanOut(e)
    <3>1. \A r \in Runs : FanOut(r)' = FanOut(r)
      BY <2>3, FanOutKept
    <3>2. \A e \in Executors : /\ handler'[e].pc = "fan_out" <=> handler[e].pc = "fan_out"
                               /\ handler[e].pc = "fan_out" => handler'[e] = handler[e]
      BY <2>3, FanningSteps
    <3>3. \A r \in Runs : FanningOut(r)' <=> FanningOut(r)
      BY <3>2 DEF FanningOut
    <3>4. \A r \in Runs : task'[Chunker(r)] = "success" => task[Chunker(r)] = "success"
      BY <2>3, TaskChange, NamedTasks DEF Finished
    <3>5. \A r \in Runs : task[Chunker(r)] = "success" => ChunkSets(r)' = ChunkSets(r)
      BY ResultSteps, NamedTasks DEF ChunkSets, Chunker, Absent
    <3>6. ASSUME NEW r \in Runs, task'[Chunker(r)] = "success", ~FanningOut(r)'
          PROVE  Counted(r)'
      BY <3>1, <3>3, <3>4, <3>5, <3>6 DEF FanOutCounted, Counted
    <3>7. ASSUME NEW e \in Executors, handler'[e].pc = "fan_out"
          PROVE  \E r \in Runs : /\ r = handler'[e].msg.attempt.task.run
                                 /\ Cardinality(FanOut(r))' + handler'[e].left = ChunkSets(r)'
      <4>1. handler[e].pc = "fan_out" /\ handler'[e] = handler[e]
        BY <3>2, <3>7
      <4>2. PICK r \in Runs : r = handler[e].msg.attempt.task.run
        BY <4>1, CurrentMessage
      <4>3. handler[e].msg.attempt.task = Chunker(r) /\ task[Chunker(r)] = "success"
        <5>1. HandlerStaged(handler[e])
          BY DEF Staging
        <5> QED
          BY <4>1, <4>2, <5>1, CurrentMessage, ChunkerOfRun DEF HandlerStaged
      <4>4. ChunkSets(r)' = ChunkSets(r) /\ FanOut(r)' = FanOut(r)
        BY <3>1, <3>5, <4>3
      <4>5. Cardinality(FanOut(r)) + handler[e].left = ChunkSets(r)
        BY <4>1, <4>2 DEF FanOutCounted
      <4> QED
        BY <4>1, <4>2, <4>4, <4>5
    <3> QED
      BY <3>6, <3>7
  <2> QED
    BY <2>1, <2>2, <2>3
<1> QED
  BY <1>1, <1>2, <1>3 DEF FanOutCounted, Counted

\* Indexing starts only when the run has exactly one embedder task for every
\* chunk set its chunker announced, if the executor never crashes.
THEOREM FanOutIsExact ==
  ASSUME OneExecutor, StagedProfile, MaxCrashes = 0 PROVE Spec => []FanOutExact
<1>1. Init => FanOutCounted
  BY NamedTasks DEF Init, FanOutCounted, HandlerIdle, Absent
<1>2. IInv /\ PlanSaved /\ Owned /\ Staging /\ FanOutCounted /\ [Next]_vars => FanOutCounted'
  BY StepFanOut
<1>3. IInv /\ PlanSaved /\ Staging /\ FanOutCounted => FanOutExact
  <2> SUFFICES ASSUME IInv, PlanSaved, Staging, FanOutCounted,
                      NEW t \in Task, t.kind = "indexer", attempts[t] # <<>>
               PROVE  Counted(t.run)
    BY DEF FanOutExact, Counted
  <2> DEFINE r == t.run
  <2>1. r \in Runs /\ task[t] # Absent /\ Gate(t)
    BY TaskFields DEF IInv, DbOK, Staging
  <2>2. task[Embedder(r)] = "success"
    BY <2>1, EmbedderBeforeIndexer DEF Gate
  <2>3. Chunker(r) \in Lower(t)
    BY <2>1, NamedTasks, StageFacts DEF Lower
  <2> HIDE DEF r
  <2>4. CASE task[Chunker(r)] = "success"
    <3>1. ~FanningOut(r)
      <4> SUFFICES ASSUME NEW e \in Executors, handler[e].pc = "fan_out",
                          handler[e].msg.attempt.task.run = r
                   PROVE  FALSE
        BY DEF FanningOut
      <4>1. HandlerStaged(handler[e])
        BY DEF Staging
      <4> QED
        BY <2>2, <4>1 DEF HandlerStaged
    <3> QED
      BY <2>1, <2>4, <3>1 DEF FanOutCounted, Counted, r
  <2>5. CASE task[Chunker(r)] # "success"
    <3>1. task[Chunker(r)] = Absent
      BY <2>1, <2>3, <2>5 DEF Gate
    <3>2. ChunkSets(r) = 0
      BY <2>1, <3>1, NamedTasks DEF FanOutCounted, ChunkSets, Chunker
    <3> QED
      BY <2>1, <2>5, <3>2, NoFanOutYet DEF Counted, r
  <2> QED
    BY <2>4, <2>5
<1> QED
  BY <1>1, <1>2, <1>3, Invariance, PlanIsPrefix, Ownership, StagingInvariant, PTL DEF Spec

-----------------------------------------------------------------------------
(* The status of the runs.                                                 *)

\* The run has been saved, and is no longer as it was created.
Marked(r) == dagRun[r] \notin {Absent, "created"}

HasFailed(r) == \E t \in TasksOf(r) : task[t] = "failed"

DagRows ==
  \A r \in Runs :
    /\ planned[r] = 0 => dagRun[r] = Absent
    /\ dagRun[r] = "created" => \A t \in TasksOf(r) : task[t] \notin {"success", "failed"}
    /\ dagRun[r] = "failed" => HasFailed(r)

NetMarked ==
  /\ \A q \in requests : Marked(q.attempt.task.run)
  /\ \A e \in Executors : \A m \in statuses[e] : Marked(m.attempt.task.run)

\* No attempt leaves the scan before its run is marked.
PumpMarks(p) ==
  LET last == Len(p.ready) IN
  /\ p.pc \in {"get_dag", "save_dag"} =>
       /\ last > 0 /\ p.ready[last].task = p.cur
       /\ dagRun[p.cur.run] = "created" => task[p.cur] = "running"
  /\ p.pc = "save_dag" => dagRun[p.cur.run] = "created"
  /\ \A i \in DOMAIN p.ready :
       ~(p.pc \in {"save_task", "get_dag", "save_dag"} /\ i = last)
         => Marked(p.ready[i].task.run)

\* The status the loop is about to save still says whether a task has failed.
HandlerMarks(h) ==
  LET r == h.msg.attempt.task.run IN
  /\ h.pc # "idle" => Marked(r)
  /\ h.pc = "list_tasks" => h.dag = dagRun[r]
  /\ h.pc = "save_dag" => h.dag # "created" /\ (h.dag = "failed" <=> HasFailed(r))

RunsMarked ==
  /\ DagRows /\ NetMarked
  /\ \A e \in Executors : PumpMarks(pump[e]) /\ HandlerMarks(handler[e])

\* For the runs planned before the executor started: the planner is done with
\* them, and the status the loop is about to save is still the derived one.
ReportTrue ==
  /\ \A r \in PlannedAtStart : planned[r] = Len(Profile) + 1
  /\ \A e \in Executors : handler[e].pc = "save_dag" =>
       LET r == handler[e].msg.attempt.task.run
       IN  r \in PlannedAtStart => handler[e].dag = Derived(r)

\* If nothing crashes, a run is behind its tasks only while they are open, or a
\* status of it is being handled.
DagFollows ==
  \A r \in PlannedAtStart :
    ~Settling(r) => \/ dagRun[r] = Derived(r)
                    \/ dagRun[r] \in {"created", "running"} /\ Derived(r) = "running"

LEMMA DagSteps ==
  ASSUME [Next]_vars
  PROVE  \/ UNCHANGED dagRun
         \/ \E r \in Runs : PlannerSaveRun(r)
         \/ \E e \in Executors : PumpSaveDag(e) \/ HandlerSaveDag(e)
<1> USE DEF dbVars
<1>1. ASSUME NEW r \in Runs, PlannerSaveTask(r) \/ PlannerCrash(r) PROVE UNCHANGED dagRun
  BY <1>1 DEF PlannerSaveTask, PlannerCrash
<1>2. ASSUME NEW e \in Executors, Pump(e), ~PumpSaveDag(e) PROVE UNCHANGED dagRun
  BY <1>2 DEF Pump, PumpList, PumpConsider, PumpCountAttempts, PumpSaveTaskRun, PumpSaveTask,
              PumpGetDag, PumpPublish, PumpSleep
<1>3. ASSUME NEW e \in Executors, Handler(e), ~HandlerSaveDag(e) PROVE UNCHANGED dagRun
  BY <1>3 DEF Handler, HandlerReceive, HandlerSaveTaskRun, HandlerGetTask, HandlerListAttempts,
              HandlerSaveTask, HandlerFanOut, HandlerGetDag, HandlerListTasks
<1>4. ASSUME NEW e \in Executors, ExecutorCrash(e) \/ ExecutorStart(e) PROVE UNCHANGED dagRun
  BY <1>4 DEF ExecutorCrash, ExecutorStart
<1>5. ASSUME NEW q \in requests, WorkerAnswer(q) \/ WorkerLose(q) PROVE UNCHANGED dagRun
  BY <1>5 DEF WorkerAnswer, WorkerLose
<1>6. CASE UNCHANGED vars
  BY <1>6 DEF vars
<1> QED
  BY <1>1, <1>2, <1>3, <1>4, <1>5, <1>6 DEF Next, Planner

LEMMA DagChange ==
  ASSUME IInv, RunsMarked, [Next]_vars, NEW r \in Runs, dagRun'[r] # dagRun[r]
  PROVE  \/ /\ PlannerSaveRun(r) /\ planned[r] = 0
            /\ dagRun[r] = Absent /\ dagRun'[r] = "created"
         \/ \E e \in Executors : /\ PumpSaveDag(e) /\ r = pump[e].cur.run
                                 /\ dagRun[r] = "created" /\ dagRun'[r] = "running"
         \/ \E e \in Executors : /\ HandlerSaveDag(e) /\ r = handler[e].msg.attempt.task.run
                                 /\ Marked(r) /\ dagRun'[r] = handler[e].dag
                                 /\ dagRun'[r] \in DagRunStatus \ {"created"}
<1>1. ASSUME NEW q \in Runs, PlannerSaveRun(q)
      PROVE  /\ PlannerSaveRun(r) /\ planned[r] = 0
             /\ dagRun[r] = Absent /\ dagRun'[r] = "created"
  BY <1>1, PlannerSaveRunDoes DEF RunsMarked, DagRows
<1>2. ASSUME NEW e \in Executors, PumpSaveDag(e)
      PROVE  r = pump[e].cur.run /\ dagRun[r] = "created" /\ dagRun'[r] = "running"
  <2>1. PumpMarks(pump[e])
    BY DEF RunsMarked
  <2> QED
    BY <1>2, <2>1, PumpSaveDagDoes DEF PumpMarks
<1>3. ASSUME NEW e \in Executors, HandlerSaveDag(e)
      PROVE  /\ r = handler[e].msg.attempt.task.run /\ Marked(r) /\ dagRun'[r] = handler[e].dag
             /\ dagRun'[r] \in DagRunStatus \ {"created"}
  <2>1. HandlerMarks(handler[e]) /\ handler[e] \in HandlerState
    BY RecordOfLoop DEF RunsMarked
  <2>2. /\ handler[e].pc = "save_dag" /\ r = handler[e].msg.attempt.task.run
        /\ dagRun'[r] = handler[e].dag
    BY <1>3, HandlerSaveDagDoes
  <2> QED
    BY <2>1, <2>2 DEF HandlerMarks, HandlerState
<1> QED
  BY <1>1, <1>2, <1>3, DagSteps

LEMMA MarkedStays ==
  ASSUME IInv, RunsMarked, [Next]_vars, NEW r \in Runs
  PROVE  /\ Marked(r) => Marked(r)'
         /\ dagRun'[r] = "created" /\ dagRun[r] # Absent => dagRun[r] = "created"
<1>1. CASE dagRun'[r] = dagRun[r]
  BY <1>1 DEF Marked
<1>2. CASE dagRun'[r] # dagRun[r]
  BY <1>2, DagChange DEF Marked, DagRunStatus, Absent
<1> QED
  BY <1>1, <1>2

\* The run of a saved attempt is saved.
LEMMA RunOfAttempt ==
  ASSUME IInv, NEW a \in Attempt, Saved(a)
  PROVE  /\ a.task \in Task /\ a.task.run \in Runs /\ task[a.task] # Absent
         /\ dagRun[a.task.run] # Absent
<1>1. a.task \in Task /\ a.n \in Nat \ {0} /\ a.n <= Len(attempts[a.task])
  BY DEF Attempt, Saved
<1>2. attempts[a.task] # <<>>
  BY <1>1
<1> QED
  BY <1>1, <1>2, TaskFields DEF IInv, DbOK

LEMMA StepDagRows ==
  ASSUME OneExecutor, IInv, PlanSaved, Owned, RunsMarked, [Next]_vars
  PROVE  DagRows'
<1> SUFFICES ASSUME NEW r \in Runs
             PROVE  /\ planned'[r] = 0 => dagRun'[r] = Absent
                    /\ dagRun'[r] = "created"
                         => \A t \in TasksOf(r) : task'[t] \notin {"success", "failed"}
                    /\ dagRun'[r] = "failed" => HasFailed(r)'
  BY DEF DagRows
<1>1. /\ planned[r] = 0 => dagRun[r] = Absent
      /\ dagRun[r] = "created" => \A t \in TasksOf(r) : task[t] \notin {"success", "failed"}
      /\ dagRun[r] = "failed" => HasFailed(r)
  BY DEF RunsMarked, DagRows
<1>2. ASSUME planned'[r] = 0 PROVE dagRun'[r] = Absent
  <2>1. planned[r] = 0 /\ ~PlannerSaveRun(r)
    <3>1. ASSUME NEW q \in Runs, PlannerSaveRun(q) PROVE planned[r] = 0 /\ ~PlannerSaveRun(r)
      BY <1>2, <3>1, PlannerSaveRunDoes
    <3>2. ASSUME NEW q \in Runs, PlannerSaveTask(q) PROVE planned[r] = 0 /\ ~PlannerSaveRun(r)
      <4>1. /\ planned[q] \in 1..Len(Profile)
            /\ planned'[r] = IF r = q THEN planned[q] + 1 ELSE planned[r]
        BY <3>2, PlannerSaveTaskDoes
      <4>2. planned'[r] = planned[r]
        BY <1>2, <4>1
      <4> QED
        BY <1>2, <4>2, PlannerSaveRunDoes
    <3>3. ASSUME UNCHANGED planned PROVE planned[r] = 0 /\ ~PlannerSaveRun(r)
      BY <1>2, <3>3, PlannerSaveRunDoes
    <3>4. ASSUME NEW e \in Executors, PumpSaveTask(e) \/ HandlerSaveTask(e) \/ HandlerFanOut(e)
          PROVE  UNCHANGED planned
      BY <3>4 DEF PumpSaveTask, HandlerSaveTask, HandlerFanOut, planVars
    <3> QED
      BY <3>1, <3>2, <3>3, <3>4, TaskSteps
  <2> QED
    BY <1>1, <2>1, DagChange DEF Marked, Absent
<1>3. ASSUME dagRun'[r] = "created", NEW t \in TasksOf(r) PROVE task'[t] \notin {"success", "failed"}
  <2>1. t \in Task /\ t.run = r
    BY DEF TasksOf
  <2>2. task[t] \notin {"success", "failed"}
    <3>1. CASE dagRun[r] = Absent
      BY <2>1, <3>1 DEF IInv, DbOK, Absent
    <3>2. CASE dagRun[r] # Absent
      BY <1>1, <1>3, <3>2, MarkedStays
    <3> QED
      BY <3>1, <3>2
  <2>3. ~Finished(t)
    <3> SUFFICES ASSUME NEW e \in Executors, HandlerSaveTask(e),
                        t = handler[e].msg.attempt.task
                 PROVE  FALSE
      BY DEF Finished
    <3>1. HandlerMarks(handler[e]) /\ handler[e].pc = "save_task"
      BY HandlerSaveTaskDoes DEF RunsMarked
    <3>2. Marked(r)
      BY <2>1, <3>1 DEF HandlerMarks
    <3>3. Marked(r)'
      BY <3>2, MarkedStays
    <3> QED
      BY <1>3, <3>3 DEF Marked
  <2> QED
    BY <2>1, <2>2, <2>3, TaskChange
<1>4. ASSUME dagRun'[r] = "failed" PROVE HasFailed(r)'
  <2>1. HasFailed(r)
    <3>1. CASE dagRun[r] = "failed"
      BY <1>1, <3>1
    <3>2. CASE dagRun[r] # "failed"
      <4>1. PICK e \in Executors : /\ HandlerSaveDag(e) /\ r = handler[e].msg.attempt.task.run
                                   /\ dagRun'[r] = handler[e].dag
        BY <1>4, <3>2, DagChange
      <4>2. HandlerMarks(handler[e]) /\ handler[e].pc = "save_dag"
        BY <4>1, HandlerSaveDagDoes DEF RunsMarked
      <4> QED
        BY <1>4, <4>1, <4>2 DEF HandlerMarks
    <3> QED
      BY <3>1, <3>2
  <2> QED
    BY <2>1, StepTaskFinal DEF HasFailed, TasksOf, TaskFinal
<1> QED
  BY <1>2, <1>3, <1>4

LEMMA StepNetMarked ==
  ASSUME IInv, RunsMarked, [Next]_vars PROVE NetMarked'
<1>1. \A q \in requests : q.attempt.task.run \in Runs /\ Marked(q.attempt.task.run)'
  <2> SUFFICES ASSUME NEW q \in requests
               PROVE  q.attempt.task.run \in Runs /\ Marked(q.attempt.task.run)'
    OBVIOUS
  <2>1. q.attempt \in Attempt /\ Saved(q.attempt) /\ Marked(q.attempt.task.run)
    BY DEF IInv, TypeOK, NetOK, RunsMarked, NetMarked
  <2> QED
    BY <2>1, RunOfAttempt, MarkedStays
<1>2. ASSUME NEW e \in Executors, NEW m \in statuses[e] PROVE Marked(m.attempt.task.run)'
  <2>1. m \in StatusMsg /\ Saved(m.attempt) /\ Marked(m.attempt.task.run)
    BY DEF IInv, TypeOK, NetOK, RunsMarked, NetMarked
  <2>2. m.attempt \in Attempt
    BY <2>1 DEF StatusMsg
  <2> QED
    BY <2>1, <2>2, RunOfAttempt, MarkedStays
<1>3. ASSUME NEW q \in requests' PROVE Marked(q.attempt.task.run)'
  <2>1. CASE q \in requests
    BY <1>1, <2>1
  <2>2. CASE q \notin requests
    <3>1. PICK e \in Executors : PumpPublish(e)
      BY <2>2, NetSteps
    <3>2. /\ pump[e].pc = "scan" /\ Len(pump[e].ready) \in Nat \ {0}
          /\ q.attempt = pump[e].ready[1]
      BY <2>2, <3>1, PumpPublishDoes
    <3>3. pump[e].ready \in Seq(Attempt) /\ PumpOK(pump[e]) /\ PumpMarks(pump[e])
      BY RecordOfLoop DEF PumpState, RunsMarked
    <3>4. 1 \in DOMAIN pump[e].ready
      BY <3>2, <3>3
    <3>5. q.attempt \in Attempt /\ Saved(q.attempt) /\ Marked(q.attempt.task.run)
      BY <3>2, <3>3, <3>4 DEF PumpOK, PumpMarks
    <3> QED
      BY <3>5, RunOfAttempt, MarkedStays
  <2> QED
    BY <2>1, <2>2
<1>4. ASSUME NEW e \in Executors, NEW m \in statuses'[e] PROVE Marked(m.attempt.task.run)'
  <2>1. m \in statuses[e] \/ \E q \in requests : m.attempt = q.attempt
    BY NetSteps, WorkerAnswerDoes
  <2> QED
    BY <1>1, <1>2, <2>1
<1> QED
  BY <1>3, <1>4 DEF NetMarked, Marked

\* The marked attempts of a ready list stay marked.
LEMMA ReadyMarked ==
  ASSUME IInv, RunsMarked, [Next]_vars, NEW e \in Executors
  PROVE  /\ pump[e].ready \in Seq(Attempt) /\ Len(pump[e].ready) \in Nat
         /\ DOMAIN pump[e].ready = 1..Len(pump[e].ready)
         /\ \A i \in DOMAIN pump[e].ready :
              /\ pump[e].ready[i].task.run \in Runs
              /\ Marked(pump[e].ready[i].task.run) =>
                   dagRun'[pump[e].ready[i].task.run] \notin {Absent, "created"}
<1>1. pump[e].ready \in Seq(Attempt) /\ PumpOK(pump[e])
  BY RecordOfLoop DEF PumpState
<1>2. Len(pump[e].ready) \in Nat /\ DOMAIN pump[e].ready = 1..Len(pump[e].ready)
  BY <1>1
<1>3. ASSUME NEW i \in DOMAIN pump[e].ready
      PROVE  /\ pump[e].ready[i].task.run \in Runs
             /\ Marked(pump[e].ready[i].task.run) =>
                  dagRun'[pump[e].ready[i].task.run] \notin {Absent, "created"}
  <2>1. PICK a \in Attempt : a = pump[e].ready[i] /\ Saved(a)
    BY <1>1, <1>2 DEF PumpOK
  <2>2. PICK r \in Runs : r = a.task.run
    BY <2>1, RunOfAttempt
  <2>3. Marked(r) => Marked(r)'
    BY MarkedStays
  <2> QED
    BY <2>1, <2>2, <2>3 DEF Marked
<1> QED
  BY <1>1, <1>2, <1>3

LEMMA PumpMarksStays ==
  ASSUME OneExecutor, IInv, PlanSaved, Owned, RunsMarked, [Next]_vars, NEW e \in Executors,
         pump'[e] = pump[e]
  PROVE  PumpMarks(pump[e])'
<1> DEFINE p == pump[e]
           last == Len(p.ready)
<1>1. PumpMarks(p)
  BY DEF RunsMarked
<1>2. ASSUME p.pc \in {"get_dag", "save_dag"}
      PROVE  /\ last > 0 /\ p.ready[last].task = p.cur
             /\ dagRun'[p.cur.run] = "created" => task'[p.cur] = "running"
             /\ p.pc = "save_dag" => dagRun'[p.cur.run] = "created"
  <2>1. PICK t \in Task : t = p.cur /\ task[t] # Absent
    BY <1>2, CurrentRow
  <2>2. t.run \in Runs /\ dagRun[t.run] # Absent
    BY <2>1, TaskFields DEF IInv, DbOK
  <2>3. ASSUME dagRun'[t.run] = "created" PROVE task'[t] = "running"
    <3>1. dagRun[t.run] = "created"
      BY <2>2, <2>3, MarkedStays
    <3>2. task[t] = "running"
      BY <1>1, <1>2, <2>1, <3>1 DEF PumpMarks
    <3>3. ~Finished(t)
      <4> SUFFICES ASSUME NEW f \in Executors, HandlerSaveTask(f),
                          t = handler[f].msg.attempt.task
                   PROVE  FALSE
        BY DEF Finished
      <4>1. HandlerMarks(handler[f]) /\ handler[f].pc = "save_task"
        BY HandlerSaveTaskDoes DEF RunsMarked
      <4> QED
        BY <3>1, <4>1 DEF HandlerMarks, Marked
    <3> QED
      BY <2>1, <3>2, <3>3, TaskChange
  <2>4. ASSUME p.pc = "save_dag" PROVE dagRun'[t.run] = "created"
    <3>1. dagRun[t.run] = "created"
      BY <1>1, <2>1, <2>4 DEF PumpMarks
    <3>2. \A f \in Executors : ~PumpSaveDag(f)
      BY <2>4, PumpSaveDagDoes DEF OneExecutor
    <3> QED
      BY <2>2, <3>1, <3>2, DagChange DEF Marked, Absent
  <2> QED
    BY <1>1, <1>2, <2>1, <2>3, <2>4 DEF PumpMarks
<1>3. \A i \in DOMAIN p.ready :
        ~(p.pc \in {"save_task", "get_dag", "save_dag"} /\ i = last)
          => dagRun'[p.ready[i].task.run] \notin {Absent, "created"}
  BY <1>1, ReadyMarked DEF PumpMarks
<1> HIDE DEF p
<1>4. pump'[e] = p
  BY DEF p
<1> QED
  BY <1>2, <1>3, <1>4 DEF PumpMarks, Marked

LEMMA PumpStepMarks ==
  ASSUME OneExecutor, IInv, PlanSaved, Owned, RunsMarked, [Next]_vars, NEW e \in Executors, Pump(e)
  PROVE  PumpMarks(pump[e])'
<1> DEFINE p == pump[e]
           q == pump'[e]
           last == Len(p.ready)
           Busy == {"save_task", "get_dag", "save_dag"}
           Free(i) == dagRun'[p.ready[i].task.run] \notin {Absent, "created"}
<1>1. PumpMarks(p) /\ PumpOwns(p)
  BY DEF RunsMarked, Owned
<1>2. \A i \in DOMAIN p.ready : ~(p.pc \in Busy /\ i = last) => Free(i)
  BY <1>1, ReadyMarked DEF PumpMarks
<1>3. last \in Nat /\ DOMAIN p.ready = 1..last
  BY ReadyMarked
<1>4. CASE PumpSleep(e)
  <2>1. pump'[e] = PumpIdle
    BY <1>4, PumpSleepDoes
  <2> QED
    BY <2>1 DEF PumpMarks, PumpIdle
<1>5. CASE PumpList(e) \/ PumpConsider(e) \/ PumpCountAttempts(e)
  <2>1. p.pc \notin Busy /\ q.pc \in {"scan", "attempts", "save_run"} /\ q.ready = p.ready
    BY <1>5, PumpListDoes, PumpConsiderDoes, PumpCountAttemptsDoes
  <2> QED
    BY <1>2, <2>1 DEF PumpMarks, Marked
<1>6. CASE PumpSaveTaskRun(e)
  <2> DEFINE a == [task |-> p.cur, n |-> Len(attempts[p.cur]) + 1]
  <2>1. p.pc = "save_run" /\ q.pc = "save_task" /\ q.ready = Append(p.ready, a)
        /\ p.cur \in Task /\ a.n \in Nat \ {0} /\ p.ready \in Seq(Attempt)
    BY <1>6, PumpSaveTaskRunDoes, ReadyMarked
  <2>2. a \in Attempt
    BY <2>1 DEF Attempt
  <2> HIDE DEF a
  <2>3. /\ Len(q.ready) = last + 1 /\ DOMAIN q.ready = 1..last + 1
        /\ \A i \in 1..last : q.ready[i] = p.ready[i]
    BY <2>1, <2>2
  <2>4. \A i \in DOMAIN q.ready : i # Len(q.ready) => i \in 1..last /\ q.ready[i] = p.ready[i]
    BY <1>3, <2>3
  <2>5. \A i \in DOMAIN q.ready : i # Len(q.ready) =>
          dagRun'[q.ready[i].task.run] \notin {Absent, "created"}
    BY <1>2, <1>3, <2>1, <2>4
  <2> HIDE DEF q
  <2>6. pump'[e] = q
    BY DEF q
  <2> QED
    BY <2>1, <2>5, <2>6 DEF PumpMarks, Marked
<1>7. CASE PumpSaveTask(e)
  <2>1. p.pc = "save_task" /\ q.pc = "get_dag" /\ q.ready = p.ready /\ q.cur = p.cur
        /\ p.cur \in Task /\ task'[p.cur] = "running"
    BY <1>7, PumpSaveTaskDoes
  <2>2. p.ready # <<>> /\ p.ready[last].task = p.cur
    BY <1>1, <2>1 DEF PumpOwns
  <2>3. last > 0
    BY <1>3, <2>2, ReadyMarked
  <2> HIDE DEF p, q
  <2>4. pump'[e] = q
    BY DEF q
  <2> QED
    BY <1>2, <2>1, <2>2, <2>3, <2>4 DEF PumpMarks, Marked
<1>8. CASE PumpGetDag(e)
  <2>1. /\ p.pc = "get_dag" /\ q.ready = p.ready /\ q.cur = p.cur
        /\ p.cur \in Task /\ p.cur.run \in Runs
        /\ \/ q.pc = "save_dag" /\ dagRun[p.cur.run] = "created"
           \/ q.pc = "scan" /\ dagRun[p.cur.run] # "created"
    BY <1>8, PumpGetDagDoes
  <2>2. UNCHANGED <<task, dagRun>>
    BY <1>8 DEF PumpGetDag, dbVars
  <2>3. last > 0 /\ p.ready[last].task = p.cur
        /\ (dagRun[p.cur.run] = "created" => task[p.cur] = "running")
    BY <1>1, <2>1 DEF PumpMarks
  <2>4. dagRun[p.cur.run] # Absent
    BY <2>1, CurrentRow DEF IInv, DbOK
  <2> HIDE DEF p, q
  <2>5. pump'[e] = q
    BY DEF q
  <2> QED
    BY <1>2, <2>1, <2>2, <2>3, <2>4, <2>5 DEF PumpMarks, Marked
<1>9. CASE PumpSaveDag(e)
  <2>1. /\ p.pc = "save_dag" /\ q.pc = "scan" /\ q.ready = p.ready
        /\ p.cur.run \in Runs /\ dagRun'[p.cur.run] = "running"
    BY <1>9, PumpSaveDagDoes
  <2>2. p.ready[last].task = p.cur
    BY <1>1, <2>1 DEF PumpMarks
  <2>3. Free(last)
    BY <2>1, <2>2 DEF Absent
  <2> HIDE DEF p, q
  <2>4. pump'[e] = q
    BY DEF q
  <2> QED
    BY <1>2, <2>1, <2>3, <2>4 DEF PumpMarks, Marked
<1>10. CASE PumpPublish(e)
  <2>1. /\ p.pc = "scan" /\ q.pc = "scan" /\ Len(q.ready) = last - 1 /\ last # 0
        /\ \A i \in 1..Len(q.ready) : q.ready[i] = p.ready[i + 1]
    BY <1>10, PumpPublishDoes
  <2>2. DOMAIN q.ready = 1..Len(q.ready)
    <3>1. pump'[e] \in PumpState
      BY StepIInv DEF IInv, TypeOK
    <3>2. q.ready \in Seq(Attempt)
      BY <3>1 DEF PumpState
    <3> QED
      BY <3>2
  <2>3. \A i \in DOMAIN q.ready : i + 1 \in DOMAIN p.ready /\ q.ready[i] = p.ready[i + 1]
    BY <1>3, <2>1, <2>2
  <2>4. \A i \in DOMAIN q.ready : dagRun'[q.ready[i].task.run] \notin {Absent, "created"}
    BY <1>2, <2>1, <2>3
  <2> HIDE DEF q
  <2>5. pump'[e] = q
    BY DEF q
  <2> QED
    BY <2>1, <2>4, <2>5 DEF PumpMarks, Marked
<1> QED
  BY <1>4, <1>5, <1>6, <1>7, <1>8, <1>9, <1>10 DEF Pump

\* Whether a run has a failed task changes only when the status loop saves one.
LEMMA HasFailedStays ==
  ASSUME OneExecutor, IInv, PlanSaved, Owned, [Next]_vars, NEW r \in Runs,
         \A e \in Executors : ~HandlerSaveTask(e)
  PROVE  HasFailed(r)' <=> HasFailed(r)
<1>1. \A t \in Task : task'[t] = "failed" <=> task[t] = "failed"
  BY StepTaskFinal, TaskChange DEF TaskFinal, Finished
<1> QED
  BY <1>1 DEF HasFailed, TasksOf

LEMMA HandlerMarksStays ==
  ASSUME OneExecutor, IInv, PlanSaved, Owned, RunsMarked, [Next]_vars, NEW e \in Executors,
         handler'[e] = handler[e]
  PROVE  HandlerMarks(handler[e])'
<1> DEFINE h == handler[e]
<1>1. HandlerMarks(h)
  BY DEF RunsMarked
<1>2. CASE h.pc = "idle"
  BY <1>2 DEF HandlerMarks
<1>3. CASE h.pc # "idle"
  <2>1. PICK r \in Runs : r = h.msg.attempt.task.run
    BY <1>3, CurrentMessage
  <2>2. Marked(r) /\ dagRun'[r] \notin {Absent, "created"}
    BY <1>1, <1>3, <2>1, MarkedStays DEF HandlerMarks, Marked
  <2>3. ASSUME h.pc = "list_tasks" PROVE h.dag = dagRun'[r]
    <3>1. h.dag = dagRun[r]
      BY <1>1, <2>1, <2>3 DEF HandlerMarks
    <3>2. \A f \in Executors : ~HandlerSaveDag(f)
      BY <2>3, HandlerSaveDagDoes DEF OneExecutor
    <3> QED
      BY <2>2, <3>1, <3>2, DagChange DEF Marked
  <2>4. ASSUME h.pc = "save_dag"
        PROVE  h.dag # "created" /\ (h.dag = "failed" <=> HasFailed(r)')
    <3>1. h.dag # "created" /\ (h.dag = "failed" <=> HasFailed(r))
      BY <1>1, <2>1, <2>4 DEF HandlerMarks
    <3>2. \A f \in Executors : ~HandlerSaveTask(f)
      BY <2>4, HandlerSaveTaskDoes DEF OneExecutor
    <3> QED
      BY <3>1, <3>2, HasFailedStays
  <2> HIDE DEF h
  <2>5. handler'[e] = h
    BY DEF h
  <2> QED
    BY <2>1, <2>2, <2>3, <2>4, <2>5 DEF HandlerMarks, Marked, HasFailed
<1> QED
  BY <1>2, <1>3

LEMMA DerivedFailed ==
  ASSUME NEW r \in Runs
  PROVE  /\ Derived(r) \in {"failed", "success", "running"}
         /\ Derived(r) = "failed" <=> HasFailed(r)
<1>1. "failed" \in {task[t] : t \in TasksOf(r)} \ {Absent} <=> HasFailed(r)
  BY DEF HasFailed, Absent
<1> DEFINE S == {task[t] : t \in TasksOf(r)} \ {Absent}
<1> HIDE DEF S
<1>2. /\ DagStatusFromTasks(S) \in {"failed", "success", "running"}
      /\ DagStatusFromTasks(S) = "failed" <=> "failed" \in S
  BY DEF DagStatusFromTasks
<1> QED
  BY <1>1, <1>2 DEF Derived, S

LEMMA IdleMarks == PumpMarks(PumpIdle) /\ HandlerMarks(HandlerIdle)
  BY DEF PumpMarks, HandlerMarks, PumpIdle, HandlerIdle

LEMMA IdleMarksAfter ==
  ASSUME NEW e \in Executors
  PROVE  /\ pump'[e] = PumpIdle => PumpMarks(pump[e])'
         /\ handler'[e] = HandlerIdle => HandlerMarks(handler[e])'
  BY DEF PumpMarks, HandlerMarks, PumpIdle, HandlerIdle

LEMMA HandlerStepMarks ==
  ASSUME OneExecutor, IInv, PlanSaved, Owned, RunsMarked, [Next]_vars, NEW e \in Executors,
         Handler(e)
  PROVE  HandlerMarks(handler[e])'
<1> DEFINE h == handler[e]
           g == handler'[e]
<1>1. HandlerMarks(h)
  BY DEF RunsMarked
<1>2. ASSUME h.pc # "idle"
      PROVE  \E r \in Runs : /\ r = h.msg.attempt.task.run
                             /\ Marked(r) /\ dagRun'[r] \notin {Absent, "created"}
  <2>1. PICK r \in Runs : r = h.msg.attempt.task.run
    BY <1>2, CurrentMessage
  <2>2. Marked(r) /\ dagRun'[r] \notin {Absent, "created"}
    BY <1>1, <1>2, <2>1, MarkedStays DEF HandlerMarks, Marked
  <2> QED
    BY <2>1, <2>2
<1>3. CASE HandlerReceive(e)
  <2>1. CASE g = h
    BY <2>1, HandlerMarksStays
  <2>2. CASE g # h
    <3>1. PICK m \in statuses[e] : g.pc = "save_run" /\ g.msg = m
      BY <1>3, <2>2, HandlerReceiveDoes
    <3>2. m \in StatusMsg /\ Saved(m.attempt) /\ Marked(m.attempt.task.run)
      BY DEF IInv, TypeOK, NetOK, RunsMarked, NetMarked
    <3>3. m.attempt \in Attempt
      BY <3>2 DEF StatusMsg
    <3>4. PICK r \in Runs : r = m.attempt.task.run
      BY <3>2, <3>3, RunOfAttempt
    <3>5. dagRun'[r] \notin {Absent, "created"}
      BY <3>2, <3>4, MarkedStays DEF Marked
    <3> QED
      BY <3>1, <3>4, <3>5 DEF HandlerMarks, Marked
  <2> QED
    BY <2>1, <2>2
<1>4. CASE \/ HandlerSaveTaskRun(e) \/ HandlerGetTask(e) \/ HandlerListAttempts(e)
           \/ HandlerSaveTask(e) \/ HandlerFanOut(e)
  <2>1. /\ g.msg = h.msg /\ h.pc # "idle"
        /\ g.pc \in {"get_task", "list_attempts", "save_task", "fan_out", "get_dag"}
    BY <1>4, HandlerSaveTaskRunDoes, HandlerGetTaskDoes, HandlerListAttemptsDoes,
       HandlerSaveTaskDoes, HandlerFanOutDoes
  <2> QED
    BY <1>2, <2>1 DEF HandlerMarks, Marked
<1>5. CASE HandlerGetDag(e)
  <2>1. /\ h.pc = "get_dag" /\ g.pc = "list_tasks" /\ g.msg = h.msg
        /\ g.dag = dagRun[h.msg.attempt.task.run]
    BY <1>5, HandlerGetDagDoes
  <2>2. UNCHANGED dagRun
    BY <1>5 DEF HandlerGetDag, dbVars
  <2> QED
    BY <1>2, <2>1, <2>2 DEF HandlerMarks, Marked
<1>6. CASE HandlerListTasks(e)
  <2>1. PICK r \in Runs : r = h.msg.attempt.task.run /\ dagRun'[r] \notin {Absent, "created"}
    BY <1>2, <1>6, HandlerListTasksDoes
  <2>2. \/ g = HandlerIdle
        \/ g.pc = "save_dag" /\ g.dag = Derived(r) /\ g.msg = h.msg
    BY <1>6, <2>1, HandlerListTasksDoes
  <2>3. HasFailed(r)' <=> HasFailed(r)
    BY <1>6 DEF HandlerListTasks, dbVars, HasFailed
  <2>4. CASE g = HandlerIdle
    BY <2>4, IdleMarksAfter
  <2>5. CASE g.pc = "save_dag" /\ g.dag = Derived(r) /\ g.msg = h.msg
    <3>1. g.dag # "created" /\ (g.dag = "failed" <=> HasFailed(r)')
      BY <2>3, <2>5, DerivedFailed
    <3>2. g.msg.attempt.task.run = r
      BY <2>1, <2>5
    <3> HIDE DEF g
    <3>3. handler'[e] = g
      BY DEF g
    <3> QED
      BY <2>1, <2>5, <3>1, <3>2, <3>3 DEF HandlerMarks, Marked, HasFailed
  <2> QED
    BY <2>2, <2>4, <2>5
<1>7. CASE HandlerSaveDag(e)
  BY <1>7, HandlerSaveDagDoes, IdleMarksAfter
<1> QED
  BY <1>3, <1>4, <1>5, <1>6, <1>7 DEF Handler

LEMMA StepRunsMarked ==
  ASSUME OneExecutor, IInv, PlanSaved, Owned, RunsMarked, [Next]_vars
  PROVE  RunsMarked'
<1>1. DagRows' /\ NetMarked'
  BY StepDagRows, StepNetMarked
<1>2. ASSUME NEW e \in Executors PROVE PumpMarks(pump[e])' /\ HandlerMarks(handler[e])'
  <2>1. CASE Pump(e)
    <3>1. UNCHANGED handler
      BY <2>1, PumpLeavesHandler
    <3> QED
      BY <2>1, <3>1, PumpStepMarks, HandlerMarksStays
  <2>2. CASE Handler(e)
    <3>1. UNCHANGED pump
      BY <2>2, HandlerLeavesPump
    <3> QED
      BY <2>2, <3>1, PumpMarksStays, HandlerStepMarks
  <2>3. CASE ExecutorCrash(e)
    BY <2>3, ExecutorCrashDoes, IdleMarksAfter
  <2>4. CASE UNCHANGED <<pump, handler>>
    BY <2>4, PumpMarksStays, HandlerMarksStays
  <2> QED
    BY <2>1, <2>2, <2>3, <2>4, LoopSteps DEF OneExecutor
<1> QED
  BY <1>1, <1>2 DEF RunsMarked

LEMMA InitRunsMarked == Init => RunsMarked
<1> SUFFICES ASSUME Init PROVE RunsMarked
  OBVIOUS
<1>1. DagRows
  <2>1. \A t \in Task : task[t] \in {Absent, "pending"}
    BY DEF Init
  <2>2. \A r \in Runs : /\ planned[r] = 0 => r \notin PlannedAtStart
                        /\ dagRun[r] = IF r \in PlannedAtStart THEN "created" ELSE Absent
    BY ProfileAssumption DEF Init
  <2> QED
    BY <2>1, <2>2 DEF DagRows, TasksOf, Absent
<1> QED
  BY <1>1, IdleMarks DEF Init, RunsMarked, NetMarked

\* A run is marked as running before any of its attempts is published, so by
\* the time a status of it is handled its row no longer says it is new.
THEOREM RunsAreMarked == ASSUME OneExecutor PROVE Spec => []RunsMarked
<1>1. Init => RunsMarked
  BY InitRunsMarked
<1>2. IInv /\ PlanSaved /\ Owned /\ RunsMarked /\ [Next]_vars => RunsMarked'
  BY StepRunsMarked
<1> QED
  BY <1>1, <1>2, Invariance, PlanIsPrefix, Ownership, PTL DEF Spec

\* A failed run stays failed, although siblings go on finishing.
THEOREM RunFailureIsFinal == ASSUME OneExecutor PROVE Spec => DagFailureFinal
<1>1. IInv /\ RunsMarked /\ [Next]_vars =>
        [\A r \in Runs : dagRun[r] = "failed" => dagRun'[r] = "failed"]_vars
  <2> SUFFICES ASSUME IInv, RunsMarked, [Next]_vars, NEW r \in Runs, dagRun[r] = "failed",
                      dagRun'[r] # dagRun[r]
               PROVE  FALSE
    OBVIOUS
  <2>1. PICK e \in Executors : /\ HandlerSaveDag(e) /\ r = handler[e].msg.attempt.task.run
                               /\ dagRun'[r] = handler[e].dag
    BY DagChange DEF Absent
  <2>2. HandlerMarks(handler[e]) /\ DagRows /\ handler[e].pc = "save_dag"
    BY <2>1, HandlerSaveDagDoes DEF RunsMarked
  <2>3. HasFailed(r)
    BY <2>2 DEF DagRows
  <2> QED
    BY <2>1, <2>2, <2>3 DEF HandlerMarks
<1> QED
  BY <1>1, Invariance, RunsAreMarked, PTL DEF Spec, DagFailureFinal

\* Only the listing of a run's tasks leads to a save of the run.
LEMMA ToSaveDag ==
  ASSUME OneExecutor, IInv, [Next]_vars, NEW e \in Executors,
         handler'[e].pc = "save_dag", handler'[e] # handler[e]
  PROVE  HandlerListTasks(e)
<1>1. ~ExecutorCrash(e) /\ ~HandlerSaveDag(e)
  BY ExecutorCrashDoes, HandlerSaveDagDoes DEF HandlerIdle
<1>2. ~HandlerReceive(e) /\ ~HandlerSaveTaskRun(e) /\ ~HandlerGetTask(e) /\ ~HandlerListAttempts(e)
  BY HandlerReceiveDoes, HandlerSaveTaskRunDoes, HandlerGetTaskDoes, HandlerListAttemptsDoes
<1>3. ~HandlerSaveTask(e) /\ ~HandlerFanOut(e) /\ ~HandlerGetDag(e)
  BY HandlerSaveTaskDoes, HandlerFanOutDoes, HandlerGetDagDoes
<1> QED
  BY <1>1, <1>2, <1>3, LoopSteps, PumpLeavesHandler DEF OneExecutor, Handler

-----------------------------------------------------------------------------
(* The status of a run follows its tasks.                                  *)

LEMMA DerivedSuccess ==
  ASSUME NEW r \in Runs
  PROVE  Derived(r) = "success"
           <=> ~HasFailed(r) /\ \A t \in TasksOf(r) : task[t] = Absent \/ Unblocks(task[t])
<1> DEFINE S == {task[t] : t \in TasksOf(r)} \ {Absent}
<1>1. /\ "failed" \in S <=> HasFailed(r)
      /\ (\A s \in S : Unblocks(s))
           <=> \A t \in TasksOf(r) : task[t] = Absent \/ Unblocks(task[t])
  BY DEF HasFailed, Absent
<1> HIDE DEF S
<1>2. DagStatusFromTasks(S) = "success" <=> "failed" \notin S /\ \A s \in S : Unblocks(s)
  BY DEF DagStatusFromTasks
<1> QED
  BY <1>1, <1>2 DEF Derived, S

\* What the derived status of a run says of its tasks.
DerivedSays(r) ==
  /\ Derived(r) \in {"failed", "success", "running"}
  /\ Derived(r) = "failed" <=> HasFailed(r)
  /\ Derived(r) = "success"
       <=> ~HasFailed(r) /\ \A t \in TasksOf(r) : task[t] = Absent \/ Unblocks(task[t])

LEMMA DerivedCases == \A r \in Runs : DerivedSays(r)
  BY DerivedFailed, DerivedSuccess DEF DerivedSays

LEMMA DerivedCasesNext == (\A r \in Runs : DerivedSays(r))'
  BY DerivedCases, PTL

\* The planner is done with these runs, so only the status loop changes what
\* their tasks derive.
LEMMA DerivedKept ==
  ASSUME OneExecutor, IInv, PlanSaved, Owned, [Next]_vars, NEW r \in Runs,
         planned[r] = Len(Profile) + 1,
         \A e \in Executors : HandlerSaveTask(e) \/ HandlerFanOut(e)
                                => handler[e].msg.attempt.task.run # r
  PROVE  Derived(r)' = Derived(r)
<1>1. ASSUME NEW t \in TasksOf(r), task'[t] # task[t]
      PROVE  task[t] = "pending" /\ task'[t] = "running"
  <2>1. t \in Task /\ t.run = r
    BY DEF TasksOf
  <2>2. ~Finished(t)
    BY <2>1 DEF Finished
  <2>3. ~Inserted(t)
    <3>1. ASSUME NEW q \in Runs, PlannerSaveTask(q), t = PlannedTask(q, planned[q]) PROVE FALSE
      <4>1. planned[q] \in 1..Len(Profile) /\ q = r
        BY <2>1, <3>1, PlannerSaveTaskDoes DEF PlannedTask
      <4> QED
        BY <4>1, ProfileAssumption
    <3> QED
      BY <2>1, <3>1 DEF Inserted
  <2> QED
    BY <1>1, <2>1, <2>2, <2>3, TaskChange
<1>2. TasksOf(r)' = TasksOf(r)
  BY DEF TasksOf
<1>3. HasFailed(r)' <=> HasFailed(r)
  BY <1>1 DEF HasFailed, TasksOf
<1>4. (\A t \in TasksOf(r) : task'[t] = Absent \/ Unblocks(task'[t]))
        <=> \A t \in TasksOf(r) : task[t] = Absent \/ Unblocks(task[t])
  BY <1>1 DEF Unblocks, Absent
<1>5. DerivedSays(r)
  BY DerivedCases
<1>6. /\ Derived(r)' \in {"failed", "success", "running"}
      /\ Derived(r)' = "failed" <=> HasFailed(r)'
      /\ Derived(r)' = "success"
           <=> ~HasFailed(r)' /\ \A t \in TasksOf(r) : task'[t] = Absent \/ Unblocks(task'[t])
  BY <1>2, DerivedCasesNext DEF DerivedSays
<1> QED
  BY <1>3, <1>4, <1>5, <1>6 DEF DerivedSays

LEMMA BacklogRuns == PlannedAtStart \subseteq Runs
  BY BacklogAssumption DEF PlannedAtStart

LEMMA PlannedStays ==
  ASSUME IInv, [Next]_vars, NEW r \in Runs, planned[r] = Len(Profile) + 1
  PROVE  planned'[r] = Len(Profile) + 1
<1>1. Len(Profile) \in Nat
  BY ProfileAssumption
<1>2. ASSUME NEW q \in Runs, PlannerSaveRun(q) \/ PlannerSaveTask(q)
      PROVE  planned[q] \in 0..Len(Profile) /\ (q # r => planned'[r] = planned[r])
  BY <1>1, <1>2, PlannerSaveRunDoes, PlannerSaveTaskDoes
<1>3. ASSUME NEW e \in Executors, PumpSaveTask(e) \/ HandlerSaveTask(e) \/ HandlerFanOut(e)
      PROVE  UNCHANGED planned
  BY <1>3 DEF PumpSaveTask, HandlerSaveTask, HandlerFanOut, planVars
<1> QED
  BY <1>1, <1>2, <1>3, TaskSteps

LEMMA StepReportTrue ==
  ASSUME OneExecutor, IInv, PlanSaved, Owned, ReportTrue, [Next]_vars
  PROVE  ReportTrue'
<1>1. \A r \in PlannedAtStart : planned'[r] = Len(Profile) + 1
  BY BacklogRuns, PlannedStays DEF ReportTrue
<1>2. ASSUME NEW e \in Executors, handler'[e].pc = "save_dag",
             handler'[e].msg.attempt.task.run \in PlannedAtStart
      PROVE  \E r \in PlannedAtStart : /\ r = handler'[e].msg.attempt.task.run
                                       /\ handler'[e].dag = Derived(r)'
  <2>1. CASE handler'[e] = handler[e]
    <3>1. PICK r \in PlannedAtStart : r = handler[e].msg.attempt.task.run
      BY <1>2, <2>1
    <3>2. r \in Runs /\ planned[r] = Len(Profile) + 1 /\ handler[e].dag = Derived(r)
      BY <1>2, <2>1, <3>1, BacklogRuns DEF ReportTrue
    <3>3. \A f \in Executors : ~HandlerSaveTask(f) /\ ~HandlerFanOut(f)
      BY <1>2, <2>1, HandlerSaveTaskDoes, HandlerFanOutDoes DEF OneExecutor
    <3>4. Derived(r)' = Derived(r)
      BY <3>2, <3>3, DerivedKept
    <3> QED
      BY <2>1, <3>1, <3>2, <3>4
  <2>2. CASE handler'[e] # handler[e]
    <3>1. HandlerListTasks(e)
      BY <1>2, <2>2, ToSaveDag
    <3>2. PICK r \in PlannedAtStart : r = handler[e].msg.attempt.task.run
                                      /\ handler'[e].dag = Derived(r)
                                      /\ r = handler'[e].msg.attempt.task.run
      BY <1>2, <3>1, HandlerListTasksDoes DEF HandlerIdle
    <3>3. Derived(r)' = Derived(r)
      BY <3>1 DEF HandlerListTasks, dbVars, Derived
    <3> QED
      BY <3>2, <3>3
  <2> QED
    BY <2>1, <2>2
<1> QED
  BY <1>1, <1>2 DEF ReportTrue

LEMMA StepDagFollows ==
  ASSUME OneExecutor, MaxCrashes = 0, IInv, PlanSaved, Owned, RunsMarked, ReportTrue,
         DagFollows, [Next]_vars
  PROVE  DagFollows'
<1> SUFFICES ASSUME NEW r \in PlannedAtStart, ~Settling(r)'
             PROVE  \/ dagRun'[r] = Derived(r)'
                    \/ dagRun'[r] \in {"created", "running"} /\ Derived(r)' = "running"
  BY DEF DagFollows
<1>1. r \in Runs /\ planned[r] = Len(Profile) + 1 /\ DerivedSays(r)
  BY BacklogRuns, DerivedCases DEF ReportTrue
<1>2. ~PlannerSaveRun(r)
  BY <1>1, ProfileAssumption DEF PlannerSaveRun
<1>3. CASE ~Settling(r)
  <2>1. \A e \in Executors : HandlerSaveTask(e) \/ HandlerFanOut(e) \/ HandlerSaveDag(e)
                               => handler[e].msg.attempt.task.run # r
    BY <1>3, HandlerSaveTaskDoes, HandlerFanOutDoes, HandlerSaveDagDoes DEF Settling
  <2>2. Derived(r)' = Derived(r)
    BY <1>1, <2>1, DerivedKept
  <2>3. CASE dagRun'[r] = dagRun[r]
    BY <1>3, <2>2, <2>3 DEF DagFollows
  <2>4. CASE dagRun'[r] # dagRun[r]
    <3>1. dagRun[r] = "created" /\ dagRun'[r] = "running"
      BY <1>1, <1>2, <2>1, <2>4, DagChange
    <3>2. Derived(r) = "running"
      BY <1>1, <1>3, <3>1 DEF DagFollows, DerivedSays
    <3> QED
      BY <2>2, <3>1, <3>2
  <2> QED
    BY <2>3, <2>4
<1>4. CASE Settling(r)
  <2>1. PICK e \in Executors : handler[e].pc # "idle" /\ handler[e].msg.attempt.task.run = r
    BY <1>4 DEF Settling
  <2>2. Handler(e) /\ (handler'[e].pc = "idle" \/ handler'[e].msg # handler[e].msg)
    <3>1. ~(handler'[e].pc # "idle" /\ handler'[e].msg = handler[e].msg)
      BY <2>1 DEF Settling
    <3>2. handler'[e] # handler[e]
      BY <2>1, <3>1
    <3>3. ~ExecutorCrash(e)
      BY ExecutorCrashDoes
    <3> QED
      BY <3>1, <3>2, <3>3, LoopSteps, PumpLeavesHandler DEF OneExecutor
  <2>3. CASE HandlerListTasks(e)
    <3>1. handler[e].pc = "list_tasks" /\ handler[e].dag = Derived(r)
      BY <2>1, <2>2, <2>3, HandlerListTasksDoes
    <3>2. HandlerMarks(handler[e])
      BY DEF RunsMarked
    <3>3. dagRun[r] = Derived(r)
      BY <2>1, <3>1, <3>2 DEF HandlerMarks
    <3>4. UNCHANGED <<task, dagRun>>
      BY <2>3 DEF HandlerListTasks, dbVars
    <3> QED
      BY <3>3, <3>4 DEF Derived
  <2>4. CASE HandlerSaveDag(e)
    <3>1. handler[e].pc = "save_dag" /\ dagRun'[r] = handler[e].dag
      BY <1>1, <2>1, <2>4, HandlerSaveDagDoes
    <3>2. handler[e].dag = Derived(r)
      BY <2>1, <3>1 DEF ReportTrue
    <3>3. Derived(r)' = Derived(r)
      BY <2>4 DEF HandlerSaveDag, Derived
    <3> QED
      BY <3>1, <3>2, <3>3
  <2>5. ~HandlerReceive(e) /\ ~HandlerSaveTaskRun(e) /\ ~HandlerGetTask(e)
        /\ ~HandlerListAttempts(e)
    BY <2>1, <2>2, HandlerReceiveDoes, HandlerSaveTaskRunDoes, HandlerGetTaskDoes,
       HandlerListAttemptsDoes
  <2>6. ~HandlerSaveTask(e) /\ ~HandlerFanOut(e) /\ ~HandlerGetDag(e)
    BY <2>2, HandlerSaveTaskDoes, HandlerFanOutDoes, HandlerGetDagDoes
  <2> QED
    BY <2>2, <2>3, <2>4, <2>5, <2>6 DEF Handler
<1> QED
  BY <1>3, <1>4

LEMMA InitReport == Init => ReportTrue /\ DagFollows
<1> SUFFICES ASSUME Init PROVE ReportTrue /\ DagFollows
  OBVIOUS
<1>1. ReportTrue
  BY BacklogRuns DEF Init, ReportTrue, HandlerIdle
<1>2. ASSUME NEW r \in PlannedAtStart PROVE dagRun[r] = "created" /\ Derived(r) = "running"
  <2>1. r \in Runs /\ DerivedSays(r)
    BY BacklogRuns, DerivedCases
  <2>2. 1 \in DOMAIN Profile /\ 1 \in 1..Len(Profile)
    BY ProfileAssumption
  <2>3. /\ PlannedTask(r, 1) \in Task /\ PlannedTask(r, 1).run = r
        /\ PlannedTask(r, 1) \in PlannedTasks
    BY <2>1, <2>2, PlannedTaskType DEF PlannedTasks
  <2>4. \A t \in Task : task[t] = IF t \in PlannedTasks THEN "pending" ELSE Absent
    BY DEF Init
  <2>5. ~HasFailed(r)
    BY <2>4 DEF HasFailed, TasksOf, Absent
  <2>6. PlannedTask(r, 1) \in TasksOf(r) /\ task[PlannedTask(r, 1)] = "pending"
    BY <2>3, <2>4 DEF TasksOf
  <2>7. Derived(r) # "success"
    BY <2>1, <2>6 DEF DerivedSays, Unblocks, Absent
  <2> QED
    BY <2>1, <2>5, <2>7 DEF DerivedSays, Init
<1> QED
  BY <1>1, <1>2 DEF DagFollows

\* For the runs planned before the executor started, the status the loop saves
\* is still the one their tasks derive at the moment of the save.
THEOREM ReportsAreTrue == ASSUME OneExecutor PROVE Spec => []ReportTrue
<1>1. Init => ReportTrue
  BY InitReport
<1>2. IInv /\ PlanSaved /\ Owned /\ ReportTrue /\ [Next]_vars => ReportTrue'
  BY StepReportTrue
<1> QED
  BY <1>1, <1>2, Invariance, PlanIsPrefix, Ownership, PTL DEF Spec

\* Outside the handling of a status, a run planned before the executor started
\* is finished exactly when its tasks say so, if the executor never crashes.
THEOREM DagStatusAlwaysAgrees ==
  ASSUME OneExecutor, MaxCrashes = 0 PROVE Spec => []DagStatusAgrees
<1>1. Init => DagFollows
  BY InitReport
<1>2. IInv /\ PlanSaved /\ Owned /\ RunsMarked /\ ReportTrue /\ DagFollows /\ [Next]_vars
        => DagFollows'
  BY StepDagFollows
<1>3. DagFollows => DagStatusAgrees
  BY DEF DagFollows, DagStatusAgrees, TerminalDag
<1> QED
  BY <1>1, <1>2, <1>3, Invariance, PlanIsPrefix, Ownership, RunsAreMarked, ReportsAreTrue, PTL
     DEF Spec

-----------------------------------------------------------------------------
(* The executor implements StagedTasks.                                    *)

LEMMA StagedEarlier ==
  ASSUME NEW t \in Task
  PROVE  /\ Staged!Earlier(t) = Lower(t)
         /\ \A s \in Staged!Later(t) : s \in Task /\ t \in Lower(s)
  BY DEF Staged!Earlier, Staged!Later, RunOfTask, StageOfTask, Lower, Stage

LEMMA StagedReport ==
  ASSUME NEW r \in Runs, NEW t \in TasksOf(r), task[t] # Absent, dagRun[r] # Absent,
         dagRun' = [dagRun EXCEPT ![r] = Derived(r)], UNCHANGED task
  PROVE  Staged!Report(r)
<1>1. /\ t \in Staged!TasksIn(r)
      /\ {task[s] : s \in Staged!TasksIn(r)} = {task[s] : s \in TasksOf(r)} \ {Absent}
  BY DEF Staged!TasksIn, RunOfTask, TasksOf, Staged!Absent, Absent
<1>2. \A S : Staged!DagStatusFromTasks(S) = DagStatusFromTasks(S)
  BY DEF Staged!DagStatusFromTasks, DagStatusFromTasks, Staged!Unblocks, Unblocks
<1> QED
  BY <1>1, <1>2 DEF Staged!Report, Derived, Staged!Absent, Absent

\* The insertion of an embedder task comes before any later task has begun.
LEMMA FanOutAdds ==
  ASSUME OneExecutor, StagedProfile, IInv, PlanSaved, Owned, Staging,
         NEW e \in Executors, HandlerFanOut(e)
  PROVE  \E t \in Task : Staged!Add(t)
<1> DEFINE r == handler[e].msg.attempt.task.run
<1>1. PICK c \in 1..MaxFanOut : IsFreshEmbed(r, c) /\ InsertTask(EmbedTask(r, c))
  BY DEF HandlerFanOut
<1>2. r \in Runs /\ task[Embedder(r)] # "success"
  BY FanOutStep
<1> DEFINE t == EmbedTask(r, c)
<1> HIDE DEF r
<1>3. t \in Task /\ t.run = r /\ t.kind = "embedder"
  BY <1>2, NamedTasks
<1>4. task[t] = Absent /\ task' = [task EXCEPT ![t] = "pending"]
  BY <1>1 DEF IsFreshEmbed, InsertTask
<1> HIDE DEF t
<1>5. ASSUME NEW s \in Staged!Later(t), task[s] \in {"running", "success", "failed"} PROVE FALSE
  <2>1. s \in Task /\ s.run = r /\ Stage(t) < Stage(s)
    BY <1>3, StagedEarlier DEF Lower
  <2>2. s.kind = "indexer"
    BY <1>3, <2>1, StageFacts
  <2>3. task[Embedder(r)] # Absent /\ Embedder(r) \in Lower(s)
    BY <1>5, <2>1, <2>2, EmbedderBeforeIndexer DEF Absent
  <2>4. Gate(s)
    BY <1>5, <2>1 DEF Owned, RowsOwned, Staging
  <2> QED
    BY <1>2, <2>3, <2>4 DEF Gate
<1>6. UNCHANGED dagRun
  BY DEF HandlerFanOut
<1>7. Staged!Add(t)
  BY <1>4, <1>5, <1>6 DEF Staged!Add, Staged!Begun, Staged!Absent, Absent
<1> QED
  BY <1>3, <1>7

LEMMA PumpStarts ==
  ASSUME IInv, Owned, Staging, NEW e \in Executors, PumpSaveTask(e)
  PROVE  Staged!Start(pump[e].cur)
<1> DEFINE p == pump[e]
           t == p.cur
<1>1. p.pc = "save_task" /\ t \in Task /\ PumpOwns(p) /\ p \in PumpState
  BY PumpSaveTaskDoes, RecordOfLoop DEF Owned
<1>2. /\ task[t] = "pending" /\ p.ready # <<>>
      /\ p.ready[Len(p.ready)] = [task |-> t, n |-> Len(attempts[t])]
  BY <1>1 DEF PumpOwns
<1>3. p.ready \in Seq(Attempt)
  BY <1>1 DEF PumpState
<1>4. p.ready[Len(p.ready)] \in Attempt
  BY <1>2, <1>3
<1>5. attempts[t] # <<>>
  BY <1>2, <1>4 DEF Attempt
<1>6. Gate(t)
  BY <1>1, <1>5 DEF Staging
<1>7. task' = [task EXCEPT ![t] = "running"] /\ UNCHANGED dagRun
  BY DEF PumpSaveTask
<1> HIDE DEF t
<1> QED
  BY <1>1, <1>2, <1>6, <1>7, StagedEarlier DEF Staged!Start, Gate, Staged!Absent, Absent, t

LEMMA HandlerFinishes ==
  ASSUME IInv, Owned, NEW e \in Executors, HandlerSaveTask(e)
  PROVE  \E t \in Task : Staged!Finish(t)
<1> DEFINE t == handler[e].msg.attempt.task
           next == handler[e].next
<1>1. t \in Task /\ handler[e].pc = "save_task" /\ next \in {"success", "pending", "failed"}
  BY HandlerSaveTaskDoes
<1>2. HandlerOwns(handler[e])
  BY DEF Owned
<1>3. task[t] = "running"
  BY <1>1, <1>2 DEF HandlerOwns, Current
<1>4. task' = [task EXCEPT ![t] = next] /\ UNCHANGED dagRun
  BY DEF HandlerSaveTask
<1> HIDE DEF t, next
<1>5. Staged!Finish(t)
  BY <1>1, <1>3, <1>4 DEF Staged!Finish
<1> QED
  BY <1>1, <1>5

LEMMA PumpReports ==
  ASSUME IInv, RunsMarked, NEW e \in Executors, PumpSaveDag(e)
  PROVE  \E r \in Runs : Staged!Report(r)
<1> DEFINE t == pump[e].cur
           r == t.run
<1>1. /\ pump[e].pc = "save_dag" /\ t \in Task /\ r \in Runs /\ task[t] # Absent
      /\ PumpMarks(pump[e]) /\ DagRows
  BY PumpSaveDagDoes, CurrentRow DEF RunsMarked
<1>2. dagRun' = [dagRun EXCEPT ![r] = "running"] /\ UNCHANGED task
  BY DEF PumpSaveDag
<1>3. dagRun[r] = "created" /\ task[t] = "running"
  BY <1>1 DEF PumpMarks
<1> HIDE DEF t
<1>4. t \in TasksOf(r)
  BY <1>1 DEF TasksOf
<1> HIDE DEF r
<1>5. ~HasFailed(r)
  BY <1>1, <1>3 DEF DagRows, HasFailed
<1>6. Derived(r) # "success"
  BY <1>1, <1>3, <1>4, DerivedSuccess DEF Absent, Unblocks
<1>7. Derived(r) = "running"
  BY <1>1, <1>5, <1>6, DerivedFailed
<1>8. Staged!Report(r)
  BY <1>1, <1>2, <1>3, <1>4, <1>7, StagedReport DEF Absent
<1> QED
  BY <1>1, <1>8

LEMMA HandlerReports ==
  ASSUME PlannedAtStart = Runs, IInv, ReportTrue, NEW e \in Executors, HandlerSaveDag(e)
  PROVE  \E r \in Runs : Staged!Report(r)
<1> DEFINE t == handler[e].msg.attempt.task
           r == t.run
<1>1. handler[e].pc = "save_dag"
  BY HandlerSaveDagDoes
<1>2. t \in Task /\ r \in Runs /\ task[t] # Absent
  BY <1>1, CurrentMessage
<1>3. dagRun' = [dagRun EXCEPT ![r] = handler[e].dag] /\ UNCHANGED task
  BY DEF HandlerSaveDag
<1>4. handler[e].dag = Derived(r)
  BY <1>1, <1>2 DEF ReportTrue
<1> HIDE DEF t
<1>5. t \in TasksOf(r) /\ dagRun[r] # Absent
  BY <1>2 DEF TasksOf, IInv, DbOK
<1> HIDE DEF r
<1>6. Staged!Report(r)
  BY <1>2, <1>3, <1>4, <1>5, StagedReport
<1> QED
  BY <1>2, <1>6

\* Every step of the executor is a step of StagedTasks, or changes neither the
\* tasks nor the runs.
LEMMA StepIsStaged ==
  ASSUME OneExecutor, StagedProfile, PlannedAtStart = Runs,
         IInv, PlanSaved, Owned, Staging, RunsMarked, ReportTrue, [Next]_vars
  PROVE  [Staged!Next]_Staged!vars
<1>1. ASSUME NEW r \in Runs PROVE ~PlannerSaveRun(r) /\ ~PlannerSaveTask(r)
  BY ProfileAssumption DEF ReportTrue, PlannerSaveRun, PlannerSaveTask
<1>2. ASSUME NEW e \in Executors, HandlerFanOut(e) PROVE Staged!Next
  BY <1>2, FanOutAdds DEF Staged!Next
<1>3. ASSUME NEW e \in Executors, PumpSaveTask(e) PROVE Staged!Next
  BY <1>3, PumpStarts, PumpSaveTaskDoes DEF Staged!Next
<1>4. ASSUME NEW e \in Executors, HandlerSaveTask(e) PROVE Staged!Next
  BY <1>4, HandlerFinishes DEF Staged!Next
<1>5. ASSUME NEW e \in Executors, PumpSaveDag(e) PROVE Staged!Next
  BY <1>5, PumpReports DEF Staged!Next
<1>6. ASSUME NEW e \in Executors, HandlerSaveDag(e) PROVE Staged!Next
  BY <1>6, HandlerReports DEF Staged!Next
<1>7. CASE UNCHANGED <<task, dagRun>>
  BY <1>7 DEF Staged!vars
<1> QED
  BY <1>1, <1>2, <1>3, <1>4, <1>5, <1>6, <1>7, TaskSteps, DagSteps

\* One executor, whatever it crashes into and whatever requests are lost: for
\* runs planned before it started, the writes to tasks and dag_runs, taken
\* together over all the loops and restarts, are those of StagedTasks.
THEOREM ExecutorImplementsStagedTasks ==
  ASSUME OneExecutor, StagedProfile, PlannedAtStart = Runs
  PROVE  Spec => ImplementsStagedTasks
<1>1. Init => Staged!Init
  BY DEF Init, Staged!Init, Staged!Absent, Absent
<1>2. IInv /\ PlanSaved /\ Owned /\ Staging /\ RunsMarked /\ ReportTrue /\ [Next]_vars
        => [Staged!Next]_Staged!vars
  BY StepIsStaged
<1> QED
  BY <1>1, <1>2, Invariance, PlanIsPrefix, Ownership, StagingInvariant, RunsAreMarked,
     ReportsAreTrue, PTL DEF Spec, ImplementsStagedTasks, Staged!Spec
=============================================================================
