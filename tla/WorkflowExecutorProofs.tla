----------------------- MODULE WorkflowExecutorProofs -----------------------
(***************************************************************************)
(* Proofs about WorkflowExecutor that hold for any number of executors,    *)
(* workers, runs, crashes and losses.  They rest on one inductive          *)
(* invariant, IInv: the types, what the rows say of each other, what the   *)
(* messages name, and what the locals of each loop may rely on.            *)
(***************************************************************************)
EXTENDS WorkflowExecutor, TLAPS

\* Rows refer to rows that were saved before them, and no task is given up
\* before its retry budget is spent.
DbOK ==
  /\ \A r \in Runs : planned[r] > 0 => dagRun[r] # Absent
  /\ \A t \in Task : /\ task[t] # Absent => dagRun[t.run] # Absent
                     /\ attempts[t] # <<>> => task[t] # Absent
  /\ FailedBudgetSpent

NetOK ==
  /\ \A q \in requests : Saved(q.attempt)
  /\ \A e \in Executors : \A m \in statuses[e] : Saved(m.attempt)

\* A scan past the step that chooses its row has one.
PumpOK(p) ==
  /\ p.pc \notin {"idle", "scan"} => p.cur # None
  /\ p.cur # None => task[p.cur] # Absent
  /\ \A t \in p.todo : task[t] # Absent
  /\ \A i \in DOMAIN p.ready : Saved(p.ready[i])

\* A status loop that has taken a message works on a saved attempt, saves an
\* embedder task only while some are left, and has counted enough attempts when
\* it is about to give the task up.
HandlerOK(h) ==
  /\ h.pc # "idle" => h.msg # None
  /\ h.msg # None => Saved(h.msg.attempt)
  /\ h.pc = "fan_out" => h.left > 0
  /\ h.pc = "save_task" /\ h.next = "failed"
       => Len(attempts[h.msg.attempt.task]) >= MaxAttempts

IInv ==
  /\ TypeOK /\ DbOK /\ NetOK
  /\ \A e \in Executors : PumpOK(pump[e]) /\ HandlerOK(handler[e])

\* Rows are never deleted.
RowsStay ==
  /\ \A r \in Runs : dagRun[r] # Absent => dagRun'[r] # Absent
  /\ \A t \in Task : task[t] # Absent => task'[t] # Absent
  /\ \A t \in Task : Len(attempts[t]) <= Len(attempts'[t])

-----------------------------------------------------------------------------
(* Facts about the operators.                                              *)

LEMMA TaskFields == ASSUME NEW t \in Task PROVE t.run \in Runs /\ t.kind \in Kinds
  BY DEF Task, Kinds, StageOrder

LEMMA EmbedTaskType ==
  ASSUME NEW r \in Runs, NEW c \in 1..MaxFanOut
  PROVE  EmbedTask(r, c) \in Task /\ EmbedTask(r, c).run = r
  BY DEF Task, EmbedTask

LEMMA PlannedTaskType ==
  ASSUME NEW r \in Runs, NEW i \in 1..Len(Profile)
  PROVE  PlannedTask(r, i) \in Task /\ PlannedTask(r, i).run = r
<1>1. Profile[i] \in Kinds
  BY ProfileAssumption
<1> QED
  BY <1>1 DEF Task, PlannedTask

LEMMA DerivedType == ASSUME NEW S PROVE DagStatusFromTasks(S) \in DagRunStatus
  BY DEF DagStatusFromTasks, DagRunStatus

\* Saving an attempt's outcome keeps the list of attempts a list of attempts.
LEMMA UpdateRow ==
  ASSUME NEW S, NEW s \in Seq(S), NEW n \in DOMAIN s, NEW v \in S
  PROVE  [s EXCEPT ![n] = v] \in Seq(S) /\ Len([s EXCEPT ![n] = v]) = Len(s)
  OBVIOUS

\* The rank of a row planned at the start is a number.
LEMMA PlannedRankType == ASSUME NEW t \in PlannedTasks PROVE PlannedRank(t) \in Nat
<1>1. PICK i \in DOMAIN Backlog, j \in DOMAIN Profile : t = PlannedTask(Backlog[i], j)
  BY DEF PlannedTasks, PlannedAtStart
<1>2. t.run = Backlog[i] /\ t.kind = Profile[j]
  BY <1>1 DEF PlannedTask
<1>3. Position(Backlog, t.run) \in DOMAIN Backlog
  BY <1>2 DEF Position
<1>4. Position(Profile, t.kind) \in DOMAIN Profile
  BY <1>2 DEF Position
<1> DEFINE a == Position(Backlog, t.run) - 1
           b == Position(Profile, t.kind)
<1>5. a \in Nat /\ b \in Nat /\ Len(Profile) \in Nat
  BY <1>3, <1>4, ProfileAssumption, BacklogAssumption
<1>6. a * Len(Profile) + b \in Nat
  <2> HIDE DEF a, b
  <2> QED BY <1>5
<1> QED
  BY <1>6 DEF PlannedRank

LEMMA IdleTypes == PumpIdle \in PumpState /\ HandlerIdle \in HandlerState
<1> USE DEF Absent
<1>1. PumpIdle \in PumpState
  BY DEF PumpIdle, PumpState, PumpPc
<1>2. HandlerIdle \in HandlerState
  BY DEF HandlerIdle, HandlerState, HandlerPc, DagRunStatus
<1> QED
  BY <1>1, <1>2

\* The locals of a loop that has just started are sound.
LEMMA IdleOK == PumpOK(PumpIdle) /\ HandlerOK(HandlerIdle)
  BY DEF PumpOK, HandlerOK, PumpIdle, HandlerIdle

-----------------------------------------------------------------------------
(* The initial state.                                                      *)

LEMMA InitIInv == Init => IInv
<1> SUFFICES ASSUME Init PROVE IInv
  OBVIOUS
<1> USE DEF Init, Absent
<1>1. TypeOK
  <2>1. clock \in Nat
    BY ProfileAssumption, BacklogAssumption
  <2>2. created \in [Task -> Nat]
    BY PlannedRankType
  <2>3. planned \in [Runs -> 0..Len(Profile) + 1]
    BY ProfileAssumption
  <2>4. dagRun \in [Runs -> DagRunStatus \cup {Absent}]
    BY DEF DagRunStatus
  <2>5. task \in [Task -> TaskStatus \cup {Absent}]
    BY DEF TaskStatus
  <2>6. attempts \in [Task -> Seq([status : TaskRunStatus, no : Nat])]
    OBVIOUS
  <2>7. crashes \in 0..MaxCrashes /\ losses \in 0..MaxLosses
    BY BoundsAssumption
  <2> QED
    BY <2>1, <2>2, <2>3, <2>4, <2>5, <2>6, <2>7, IdleTypes DEF TypeOK
<1>2. DbOK
  <2>1. \A t \in Task : task[t] # Absent => dagRun[t.run] # Absent
    <3> SUFFICES ASSUME NEW t \in PlannedTasks, t \in Task PROVE dagRun[t.run] # Absent
      OBVIOUS
    <3>1. t.run \in PlannedAtStart
      BY DEF PlannedTasks, PlannedTask
    <3> QED
      BY <3>1, TaskFields
  <2> QED
    BY <2>1 DEF DbOK, FailedBudgetSpent
<1>3. NetOK
  BY DEF NetOK
<1> QED
  BY <1>1, <1>2, <1>3, IdleOK DEF IInv

-----------------------------------------------------------------------------
(* What stays true while rows are only added or updated.                   *)

LEMMA SavedStays ==
  ASSUME TypeOK, RowsStay, NEW a \in Attempt, Saved(a) PROVE a.n <= Len(attempts'[a.task])
<1>1. a.task \in Task /\ a.n \in Nat
  BY DEF Attempt
<1>2. Len(attempts[a.task]) \in Nat
  BY <1>1 DEF TypeOK
<1> QED
  BY <1>1, <1>2 DEF Saved, RowsStay

LEMMA PumpOKStays ==
  ASSUME TypeOK, RowsStay, NEW e \in Executors, PumpOK(pump[e]), pump'[e] = pump[e]
  PROVE  PumpOK(pump[e])'
<1>1. pump[e] \in PumpState
  BY DEF TypeOK
<1>2. ASSUME NEW i \in DOMAIN pump[e].ready PROVE Saved(pump[e].ready[i])'
  <2>1. pump[e].ready[i] \in Attempt /\ Saved(pump[e].ready[i])
    BY <1>1 DEF PumpState, PumpOK
  <2> QED
    BY <2>1, SavedStays DEF Saved
<1> QED
  BY <1>1, <1>2 DEF RowsStay, PumpOK, PumpState

LEMMA HandlerOKStays ==
  ASSUME TypeOK, TypeOK', RowsStay,
         NEW e \in Executors, HandlerOK(handler[e]), handler'[e] = handler[e]
  PROVE  HandlerOK(handler[e])'
<1> DEFINE h == handler[e]
<1>1. h \in HandlerState
  BY DEF TypeOK
<1>2. CASE h.msg # None
  <2>1. h.msg \in StatusMsg /\ h.msg.attempt \in Attempt /\ h.msg.attempt.task \in Task
    BY <1>1, <1>2 DEF HandlerState, StatusMsg, Attempt
  <2>2. Len(attempts[h.msg.attempt.task]) \in Nat /\ Len(attempts'[h.msg.attempt.task]) \in Nat
    <3>1. attempts \in [Task -> Seq([status : TaskRunStatus, no : Nat])]
      BY DEF TypeOK
    <3>2. attempts' \in [Task -> Seq([status : TaskRunStatus, no : Nat])]
      BY DEF TypeOK
    <3> HIDE DEF h
    <3> QED BY <2>1, <3>1, <3>2
  <2>3. Saved(h.msg.attempt)'
    BY <1>2, <2>1, SavedStays DEF HandlerOK, Saved
  <2>4. Len(attempts[h.msg.attempt.task]) <= Len(attempts'[h.msg.attempt.task])
    BY <2>1 DEF RowsStay
  <2> QED
    BY <1>2, <2>2, <2>3, <2>4, BoundsAssumption DEF HandlerOK
<1>3. CASE h.msg = None
  BY <1>3 DEF HandlerOK
<1> QED
  BY <1>2, <1>3

LEMMA NetOKStays ==
  ASSUME TypeOK, RowsStay, NetOK, requests' \subseteq requests,
         \A e \in Executors : statuses'[e] \subseteq statuses[e]
  PROVE  NetOK'
<1>1. ASSUME NEW q \in requests' PROVE Saved(q.attempt)'
  BY <1>1, SavedStays DEF NetOK, TypeOK, Saved
<1>2. ASSUME NEW e \in Executors, NEW m \in statuses'[e] PROVE Saved(m.attempt)'
  <2>1. m \in statuses[e] /\ m \in StatusMsg
    BY <1>2 DEF TypeOK
  <2>2. m.attempt \in Attempt /\ Saved(m.attempt)
    BY <2>1 DEF NetOK, StatusMsg
  <2> QED
    BY <2>2, SavedStays DEF Saved
<1> QED
  BY <1>1, <1>2 DEF NetOK
-----------------------------------------------------------------------------
(* One step of a pump: new locals p, and what it writes.                   *)

LEMMA PumpToValue ==
  ASSUME TypeOK, NEW e \in Executors, NEW p \in PumpState, PumpTo(e, p)
  PROVE  /\ pump' \in [Executors -> PumpState] /\ pump'[e] = p
         /\ \A f \in Executors : f # e => pump'[f] = pump[f]
  BY DEF TypeOK, PumpTo

LEMMA HandlerToValue ==
  ASSUME TypeOK, NEW e \in Executors, NEW h \in HandlerState, HandlerTo(e, h)
  PROVE  /\ handler' \in [Executors -> HandlerState] /\ handler'[e] = h
         /\ \A f \in Executors : f # e => handler'[f] = handler[f]
  BY DEF TypeOK, HandlerTo

\* A pump step that writes no row and no message keeps the invariant if its new
\* locals are sound.
LEMMA PumpLocalStep ==
  ASSUME IInv, NEW e \in Executors, NEW p \in PumpState, PumpTo(e, p), PumpOK(p),
         UNCHANGED <<dbVars, planVars, handler, netVars, envVars>>
  PROVE  IInv'
<1> USE DEF dbVars, planVars, netVars, envVars
<1>1. TypeOK'
  BY PumpToValue DEF IInv, TypeOK
<1>2. DbOK'
  BY DEF IInv, DbOK, FailedBudgetSpent
<1>3. NetOK'
  BY DEF IInv, NetOK, Saved
<1>4. ASSUME NEW f \in Executors PROVE PumpOK(pump[f])'
  <2>1. PumpOK(pump'[f])
    BY PumpToValue DEF IInv
  <2> QED
    BY <2>1 DEF PumpOK, Saved
<1>5. ASSUME NEW f \in Executors PROVE HandlerOK(handler[f])'
  BY DEF IInv, HandlerOK, Saved
<1> QED
  BY <1>1, <1>2, <1>3, <1>4, <1>5 DEF IInv

LEMMA HandlerLocalStep ==
  ASSUME IInv, NEW e \in Executors, NEW h \in HandlerState, HandlerTo(e, h), HandlerOK(h),
         statuses' \in [Executors -> SUBSET StatusMsg],
         \A f \in Executors : statuses'[f] \subseteq statuses[f],
         UNCHANGED <<dbVars, planVars, pump, requests, envVars>>
  PROVE  IInv'
<1> USE DEF dbVars, planVars, envVars
<1>1. TypeOK'
  BY HandlerToValue DEF IInv, TypeOK
<1>2. DbOK'
  BY DEF IInv, DbOK, FailedBudgetSpent
<1>3. NetOK'
  BY DEF IInv, NetOK, Saved
<1>4. ASSUME NEW f \in Executors PROVE PumpOK(pump[f])'
  BY DEF IInv, PumpOK, Saved
<1>5. ASSUME NEW f \in Executors PROVE HandlerOK(handler[f])'
  <2>1. HandlerOK(handler'[f])
    BY HandlerToValue DEF IInv
  <2> QED
    BY <2>1 DEF HandlerOK, Saved
<1> QED
  BY <1>1, <1>2, <1>3, <1>4, <1>5 DEF IInv

-----------------------------------------------------------------------------
(* The actions of the pump.                                                *)

LEMMA PumpListInv == ASSUME IInv, NEW e \in Executors, PumpList(e) PROVE IInv'
<1> DEFINE p == [pump[e] EXCEPT !.pc = "scan", !.todo = ListPending, !.row = result]
<1>1. pump[e] \in PumpState /\ PumpOK(pump[e])
  BY DEF IInv, TypeOK
<1>2. p \in PumpState
  BY <1>1 DEF PumpState, PumpPc, ListPending, IInv, TypeOK
<1>3. PumpOK(p)
  <2>1. \A t \in ListPending : t \in Task /\ task[t] # Absent
    BY DEF ListPending, Absent
  <2> QED
    BY <1>1, <2>1 DEF PumpOK, PumpState
<1>4. PumpTo(e, p)
  BY DEF PumpList
<1> HIDE DEF p
<1> QED
  BY <1>2, <1>3, <1>4, PumpLocalStep DEF PumpList

LEMMA PumpConsiderInv == ASSUME IInv, NEW e \in Executors, PumpConsider(e) PROVE IInv'
<1>1. pump[e] \in PumpState /\ PumpOK(pump[e])
  BY DEF IInv, TypeOK
<1>2. PICK t \in pump[e].todo :
        LET ready == IsReady(t.kind, "pending", TasksOf(t.run), Siblings(e, t.run))
        IN  PumpTo(e, [pump[e] EXCEPT !.pc     = IF ready THEN "attempts" ELSE "scan",
                                      !.todo   = @ \ {t},
                                      !.seen   = Siblings(e, t.run),
                                      !.listed = @ \cup {t.run},
                                      !.cur    = IF ready THEN t ELSE None])
  BY DEF PumpConsider
<1> DEFINE ready == IsReady(t.kind, "pending", TasksOf(t.run), Siblings(e, t.run))
<1>3. t \in Task /\ t.run \in Runs /\ task[t] # Absent
  BY <1>1, TaskFields DEF PumpState, PumpOK
<1>4. t # None
  BY <1>3, NoneAssumption
<1>5. Siblings(e, t.run) \in [Task -> TaskStatus \cup {Absent}]
  <2>1. pump[e].seen \in [Task -> TaskStatus \cup {Absent}]
    BY <1>1 DEF PumpState
  <2>2. task \in [Task -> TaskStatus \cup {Absent}]
    BY DEF IInv, TypeOK
  <2> QED
    BY <2>1, <2>2 DEF Siblings
<1> DEFINE seen == Siblings(e, t.run)
           p == [pump[e] EXCEPT !.pc     = IF ready THEN "attempts" ELSE "scan",
                                !.todo   = @ \ {t},
                                !.seen   = seen,
                                !.listed = @ \cup {t.run},
                                !.cur    = IF ready THEN t ELSE None]
<1>6. PumpTo(e, p)
  BY <1>2
<1> HIDE DEF ready, seen
<1>7. p \in PumpState
  BY <1>1, <1>3, <1>5 DEF PumpState, PumpPc, seen
<1>8. PumpOK(p)
  BY <1>1, <1>3, <1>4 DEF PumpOK, PumpState
<1> HIDE DEF p
<1> QED
  BY <1>6, <1>7, <1>8, PumpLocalStep DEF PumpConsider

\* The row that a pump past the scan works on.
LEMMA CurrentRow ==
  ASSUME IInv, NEW e \in Executors, pump[e].pc \notin {"idle", "scan"}
  PROVE  /\ pump[e].cur \in Task /\ pump[e].cur.run \in Runs
         /\ task[pump[e].cur] # Absent /\ dagRun[pump[e].cur.run] # Absent
<1>1. pump[e] \in PumpState /\ PumpOK(pump[e])
  BY DEF IInv, TypeOK
<1>2. pump[e].cur \in Task /\ task[pump[e].cur] # Absent
  BY <1>1 DEF PumpState, PumpOK
<1> QED
  BY <1>2, TaskFields DEF IInv, DbOK

LEMMA PumpCountAttemptsInv ==
  ASSUME IInv, NEW e \in Executors, PumpCountAttempts(e) PROVE IInv'
<1> DEFINE n == Len(attempts[pump[e].cur])
           p == [pump[e] EXCEPT !.pc = "save_run", !.count = n]
<1>1. pump[e] \in PumpState /\ PumpOK(pump[e]) /\ pump[e].pc = "attempts"
  BY DEF IInv, TypeOK, PumpCountAttempts
<1>2. n \in Nat
  BY <1>1, CurrentRow DEF IInv, TypeOK
<1>3. PumpTo(e, p)
  BY DEF PumpCountAttempts
<1> HIDE DEF n
<1>4. p \in PumpState
  BY <1>1, <1>2 DEF PumpState, PumpPc
<1>5. PumpOK(p)
  BY <1>1 DEF PumpOK, PumpState
<1> HIDE DEF p
<1> QED
  BY <1>3, <1>4, <1>5, PumpLocalStep DEF PumpCountAttempts

LEMMA PumpGetDagInv == ASSUME IInv, NEW e \in Executors, PumpGetDag(e) PROVE IInv'
<1> DEFINE next == IF dagRun[pump[e].cur.run] = "created" THEN "save_dag" ELSE "scan"
           p == [pump[e] EXCEPT !.pc = next, !.count = 0]
<1>1. pump[e] \in PumpState /\ PumpOK(pump[e]) /\ pump[e].pc = "get_dag"
  BY DEF IInv, TypeOK, PumpGetDag
<1>2. next \in {"save_dag", "scan"}
  OBVIOUS
<1>3. PumpTo(e, p)
  BY DEF PumpGetDag
<1> HIDE DEF next
<1>4. p \in PumpState
  BY <1>1, <1>2 DEF PumpState, PumpPc
<1>5. PumpOK(p)
  BY <1>1, <1>2 DEF PumpOK, PumpState
<1> HIDE DEF p
<1> QED
  BY <1>3, <1>4, <1>5, PumpLocalStep DEF PumpGetDag

LEMMA PumpSleepInv == ASSUME IInv, NEW e \in Executors, PumpSleep(e) PROVE IInv'
  BY IdleTypes, IdleOK, PumpLocalStep DEF PumpSleep

\* A pump step that writes keeps the invariant if the rows, the messages and its
\* own locals are sound afterwards.
LEMMA PumpWriteStep ==
  ASSUME IInv, TypeOK', DbOK', NetOK', RowsStay, NEW e \in Executors,
         \A f \in Executors : f # e => pump'[f] = pump[f],
         PumpOK(pump[e])', UNCHANGED handler
  PROVE  IInv'
<1>1. ASSUME NEW f \in Executors PROVE PumpOK(pump[f])'
  BY PumpOKStays DEF IInv
<1>2. ASSUME NEW f \in Executors PROVE HandlerOK(handler[f])'
  BY HandlerOKStays DEF IInv
<1> QED
  BY <1>1, <1>2 DEF IInv

LEMMA PumpSaveTaskRunInv ==
  ASSUME IInv, NEW e \in Executors, PumpSaveTaskRun(e) PROVE IInv'
<1> USE DEF planVars, netVars, envVars
<1> DEFINE t == pump[e].cur
           row == [status |-> "running", no |-> pump[e].count]
           a == NextAttempt(t)
           p == [pump[e] EXCEPT !.pc = "save_task", !.ready = Append(@, a)]
<1>1. pump[e] \in PumpState /\ PumpOK(pump[e]) /\ pump[e].pc = "save_run"
  BY DEF IInv, TypeOK, PumpSaveTaskRun
<1>2. t \in Task /\ task[t] # Absent
  BY <1>1, CurrentRow
<1>3. attempts \in [Task -> Seq([status : TaskRunStatus, no : Nat])]
  BY DEF IInv, TypeOK
<1>4. row \in [status : TaskRunStatus, no : Nat]
  BY <1>1 DEF TaskRunStatus, PumpState
<1>5. attempts' = [attempts EXCEPT ![t] = Append(@, row)] /\ PumpTo(e, p)
  BY DEF PumpSaveTaskRun
<1>6. a \in Attempt /\ a.task = t /\ a.n = Len(attempts[t]) + 1
  BY <1>2, <1>3 DEF Attempt, NextAttempt
<1> HIDE DEF row, a, t
<1>7. attempts' \in [Task -> Seq([status : TaskRunStatus, no : Nat])]
  <2> DEFINE Row == [status : TaskRunStatus, no : Nat]
             more == Append(attempts[t], row)
  <2>1. attempts \in [Task -> Seq(Row)] /\ row \in Row
    BY <1>3, <1>4
  <2> HIDE DEF Row
  <2>2. more \in Seq(Row)
    BY <1>2, <2>1
  <2>3. attempts' = [attempts EXCEPT ![t] = more]
    BY <1>5
  <2> HIDE DEF more
  <2>4. attempts' \in [Task -> Seq(Row)]
    BY <2>1, <2>2, <2>3
  <2> QED
    BY <2>4 DEF Row
<1>8. Len(attempts'[t]) = Len(attempts[t]) + 1
  BY <1>2, <1>3, <1>4, <1>5
<1>9. \A u \in Task : u # t => attempts'[u] = attempts[u]
  BY <1>3, <1>5
<1>10. p \in PumpState
  <2> DEFINE ready == Append(pump[e].ready, a)
  <2>1. ready \in Seq(Attempt)
    BY <1>1, <1>6 DEF PumpState
  <2>2. p = [pump[e] EXCEPT !.pc = "save_task", !.ready = ready]
    BY <1>1 DEF PumpState
  <2> HIDE DEF ready, p
  <2> QED
    BY <1>1, <2>1, <2>2 DEF PumpState, PumpPc
<1>11. p.cur = pump[e].cur /\ p.todo = pump[e].todo /\ p.ready = Append(pump[e].ready, a)
       /\ p.pc = "save_task"
  BY <1>1 DEF PumpState
<1> HIDE DEF p
<1>12. pump' \in [Executors -> PumpState] /\ pump'[e] = p
       /\ \A f \in Executors : f # e => pump'[f] = pump[f]
  BY <1>5, <1>10, PumpToValue DEF IInv
<1>13. TypeOK'
  BY <1>7, <1>12 DEF PumpSaveTaskRun, IInv, TypeOK
<1>14. RowsStay
  BY <1>3, <1>8, <1>9 DEF RowsStay, PumpSaveTaskRun
<1>15. DbOK'
  <2>1. FailedBudgetSpent'
    <3> SUFFICES ASSUME NEW u \in Task, task[u] = "failed" PROVE Len(attempts'[u]) >= MaxAttempts
      BY DEF FailedBudgetSpent, PumpSaveTaskRun
    <3>1. Len(attempts[u]) \in Nat /\ Len(attempts[u]) >= MaxAttempts
      BY <1>3 DEF IInv, DbOK, FailedBudgetSpent
    <3> QED
      BY <1>8, <1>9, <3>1, BoundsAssumption
  <2> QED
    BY <1>2, <1>9, <2>1 DEF IInv, DbOK, PumpSaveTaskRun
<1>16. NetOK'
  BY <1>14, NetOKStays DEF IInv, PumpSaveTaskRun
<1>17. PumpOK(pump[e])'
  <2>1. ASSUME NEW i \in DOMAIN p.ready PROVE p.ready[i].n <= Len(attempts'[p.ready[i].task])
    <3>1. CASE i \in DOMAIN pump[e].ready
      <4>1. p.ready[i] = pump[e].ready[i] /\ p.ready[i] \in Attempt /\ Saved(p.ready[i])
        BY <1>1, <1>6, <1>11, <3>1 DEF PumpState, PumpOK
      <4> QED
        BY <1>14, <4>1, SavedStays DEF IInv
    <3>2. CASE i \notin DOMAIN pump[e].ready
      <4>1. p.ready[i] = a
        BY <1>1, <1>6, <1>11, <3>2 DEF PumpState
      <4> QED
        BY <1>2, <1>3, <1>6, <1>8, <4>1
    <3> QED
      BY <3>1, <3>2
  <2>2. p.cur # None
    BY <1>1, <1>11 DEF PumpOK
  <2> QED
    BY <1>1, <1>11, <1>12, <2>1, <2>2 DEF PumpOK, Saved, PumpSaveTaskRun
<1> QED
  BY <1>12, <1>13, <1>14, <1>15, <1>16, <1>17, PumpWriteStep DEF PumpSaveTaskRun

LEMMA PumpSaveTaskInv ==
  ASSUME IInv, NEW e \in Executors, PumpSaveTask(e) PROVE IInv'
<1> USE DEF planVars, netVars, envVars
<1> DEFINE t == pump[e].cur
           p == [pump[e] EXCEPT !.pc = "get_dag"]
<1>1. pump[e] \in PumpState /\ PumpOK(pump[e]) /\ pump[e].pc = "save_task"
  BY DEF IInv, TypeOK, PumpSaveTask
<1>2. t \in Task /\ task[t] # Absent /\ dagRun[t.run] # Absent
  BY <1>1, CurrentRow
<1>3. pump[e].row[t] \in Nat
  BY <1>1, <1>2 DEF PumpState
<1>4. PumpTo(e, p) /\ p \in PumpState
  BY <1>1 DEF PumpSaveTask, PumpState, PumpPc
<1>5. p.cur = pump[e].cur /\ p.todo = pump[e].todo /\ p.ready = pump[e].ready
  BY <1>1 DEF PumpState
<1> HIDE DEF p, t
<1>6. pump' \in [Executors -> PumpState] /\ pump'[e] = p
      /\ \A f \in Executors : f # e => pump'[f] = pump[f]
  BY <1>4, PumpToValue DEF IInv
<1>7. task' = [task EXCEPT ![t] = "running"] /\ result' = [result EXCEPT ![t] = pump[e].row[t]]
  BY DEF PumpSaveTask, t
<1>8. TypeOK'
  BY <1>2, <1>3, <1>6, <1>7 DEF PumpSaveTask, IInv, TypeOK, TaskStatus
<1>9. \A u \in Task : task'[u] = IF u = t THEN "running" ELSE task[u]
  BY <1>7 DEF IInv, TypeOK
<1>10. RowsStay
  BY <1>9 DEF RowsStay, PumpSaveTask, Absent, IInv, TypeOK
<1>11. DbOK'
  BY <1>2, <1>9 DEF IInv, DbOK, FailedBudgetSpent, PumpSaveTask, Absent
<1>12. NetOK'
  BY DEF IInv, NetOK, Saved, PumpSaveTask
<1>13. PumpOK(pump[e])'
  BY <1>1, <1>2, <1>5, <1>6, <1>9 DEF PumpOK, Saved, PumpSaveTask, PumpState, Absent, t
<1> QED
  BY <1>6, <1>8, <1>10, <1>11, <1>12, <1>13, PumpWriteStep DEF PumpSaveTask

LEMMA PumpSaveDagInv ==
  ASSUME IInv, NEW e \in Executors, PumpSaveDag(e) PROVE IInv'
<1> USE DEF planVars, netVars, envVars
<1> DEFINE r == pump[e].cur.run
           p == [pump[e] EXCEPT !.pc = "scan"]
<1>1. pump[e] \in PumpState /\ PumpOK(pump[e]) /\ pump[e].pc = "save_dag"
  BY DEF IInv, TypeOK, PumpSaveDag
<1>2. r \in Runs
  BY <1>1, CurrentRow
<1>3. PumpTo(e, p) /\ p \in PumpState
  BY <1>1 DEF PumpSaveDag, PumpState, PumpPc
<1>4. p.pc = "scan" /\ p.cur = pump[e].cur /\ p.todo = pump[e].todo /\ p.ready = pump[e].ready
  BY <1>1 DEF PumpState
<1> HIDE DEF p, r
<1>5. pump' \in [Executors -> PumpState] /\ pump'[e] = p
      /\ \A f \in Executors : f # e => pump'[f] = pump[f]
  BY <1>3, PumpToValue DEF IInv
<1>6. dagRun' = [dagRun EXCEPT ![r] = "running"]
  BY DEF PumpSaveDag, r
<1>7. TypeOK'
  BY <1>2, <1>5, <1>6 DEF PumpSaveDag, IInv, TypeOK, DagRunStatus
<1>8. \A q \in Runs : dagRun'[q] = IF q = r THEN "running" ELSE dagRun[q]
  BY <1>6 DEF IInv, TypeOK
<1>9. RowsStay
  BY <1>8 DEF RowsStay, PumpSaveDag, Absent, IInv, TypeOK
<1>10. DbOK'
  BY <1>8, TaskFields DEF IInv, DbOK, FailedBudgetSpent, PumpSaveDag, Absent
<1>11. NetOK'
  BY DEF IInv, NetOK, Saved, PumpSaveDag
<1>12. PumpOK(pump[e])'
  BY <1>1, <1>4, <1>5 DEF PumpOK, Saved, PumpSaveDag
<1> QED
  BY <1>5, <1>7, <1>9, <1>10, <1>11, <1>12, PumpWriteStep DEF PumpSaveDag

LEMMA PumpPublishInv ==
  ASSUME IInv, NEW e \in Executors, PumpPublish(e) PROVE IInv'
<1> USE DEF dbVars, planVars, envVars
<1> DEFINE a == Head(pump[e].ready)
           rest == Tail(pump[e].ready)
           p == [pump[e] EXCEPT !.ready = rest]
<1>1. pump[e] \in PumpState /\ PumpOK(pump[e]) /\ pump[e].pc = "scan"
  BY DEF IInv, TypeOK, PumpPublish
<1>2. pump[e].ready \in Seq(Attempt) /\ pump[e].ready # <<>>
  BY <1>1 DEF PumpState, PumpPublish
<1>3. a = pump[e].ready[1] /\ 1 \in DOMAIN pump[e].ready /\ a \in Attempt
  BY <1>2
<1>4. rest \in Seq(Attempt)
      /\ \A i \in DOMAIN rest : i + 1 \in DOMAIN pump[e].ready /\ rest[i] = pump[e].ready[i + 1]
  BY <1>2
<1>5. PumpTo(e, p)
  BY <1>1 DEF PumpPublish, PumpState
<1>6. requests' = requests \cup [worker : Workers, attempt : {a}]
  BY DEF PumpPublish
<1> HIDE DEF a, rest
<1>7. p \in PumpState /\ p.pc = "scan" /\ p.cur = pump[e].cur /\ p.todo = pump[e].todo
      /\ p.ready = rest
  BY <1>1, <1>4 DEF PumpState
<1> HIDE DEF p
<1>8. pump' \in [Executors -> PumpState] /\ pump'[e] = p
      /\ \A f \in Executors : f # e => pump'[f] = pump[f]
  BY <1>5, <1>7, PumpToValue DEF IInv
<1>9. requests' \subseteq [worker : Workers, attempt : Attempt]
  BY <1>3, <1>6 DEF IInv, TypeOK
<1>10. TypeOK'
  BY <1>8, <1>9 DEF PumpPublish, IInv, TypeOK
<1>11. RowsStay
  BY DEF RowsStay, PumpPublish, IInv, TypeOK
<1>12. DbOK'
  BY DEF IInv, DbOK, FailedBudgetSpent, PumpPublish
<1>13. NetOK'
  <2>1. Saved(a)
    BY <1>1, <1>3 DEF PumpOK
  <2>2. \A q \in requests' : Saved(q.attempt)
    BY <1>6, <2>1 DEF IInv, NetOK
  <2> QED
    BY <2>2 DEF IInv, NetOK, Saved, PumpPublish
<1>14. PumpOK(pump[e])'
  <2>1. PumpOK(p)
    BY <1>1, <1>4, <1>7 DEF PumpOK
  <2> QED
    BY <1>8, <2>1 DEF PumpOK, Saved, PumpPublish
<1> QED
  BY <1>8, <1>10, <1>11, <1>12, <1>13, <1>14, PumpWriteStep DEF PumpPublish

LEMMA PumpInv == ASSUME IInv, NEW e \in Executors, Pump(e) PROVE IInv'
  BY PumpListInv, PumpConsiderInv, PumpCountAttemptsInv, PumpSaveTaskRunInv, PumpSaveTaskInv,
     PumpGetDagInv, PumpSaveDagInv, PumpPublishInv, PumpSleepInv DEF Pump

-----------------------------------------------------------------------------
(* The actions of the status loop.                                         *)

\* What the status loop works on once it has taken a message.
LEMMA CurrentMessage ==
  ASSUME IInv, NEW e \in Executors, handler[e].pc # "idle"
  PROVE  LET m == handler[e].msg
             a == m.attempt
         IN  /\ m \in StatusMsg /\ m # None
             /\ a.task \in Task /\ a.task.run \in Runs
             /\ a.n \in DOMAIN attempts[a.task]
             /\ task[a.task] # Absent /\ dagRun[a.task.run] \in DagRunStatus
<1> DEFINE m == handler[e].msg
           t == m.attempt.task
<1>1. handler[e] \in HandlerState /\ HandlerOK(handler[e])
  BY DEF IInv, TypeOK
<1>2. m \in StatusMsg /\ m # None /\ Saved(m.attempt)
  BY <1>1 DEF HandlerState, HandlerOK
<1>3. t \in Task /\ m.attempt.n \in Nat \ {0}
  BY <1>2 DEF StatusMsg, Attempt
<1>4. attempts[t] \in Seq([status : TaskRunStatus, no : Nat])
  BY <1>3 DEF IInv, TypeOK
<1> HIDE DEF m
<1>5. m.attempt.n \in DOMAIN attempts[t]
  BY <1>2, <1>3, <1>4 DEF Saved
<1>6. t.run \in Runs
  BY <1>3, TaskFields
<1>7. task[t] # Absent
  BY <1>3, <1>4, <1>5 DEF IInv, DbOK
<1>8. dagRun[t.run] \in DagRunStatus
  BY <1>3, <1>6, <1>7 DEF IInv, DbOK, TypeOK
<1> QED
  BY <1>2, <1>3, <1>5, <1>6, <1>7, <1>8 DEF m

LEMMA HandlerReceiveInv ==
  ASSUME IInv, NEW e \in Executors, HandlerReceive(e) PROVE IInv'
<1> USE DEF netVars
<1>1. handler[e] \in HandlerState /\ HandlerOK(handler[e]) /\ handler[e].pc = "idle"
  BY DEF IInv, TypeOK, HandlerReceive
<1>2. PICK m \in statuses[e] :
        /\ statuses' = [statuses EXCEPT ![e] = @ \ {m}]
        /\ HandlerTo(e, IF attempts[m.attempt.task][m.attempt.n].status \in TerminalRun
                        THEN handler[e]
                        ELSE [handler[e] EXCEPT !.pc = "save_run", !.msg = m])
  BY DEF HandlerReceive
<1>3. m \in StatusMsg /\ Saved(m.attempt)
  BY DEF IInv, TypeOK, NetOK
<1> DEFINE busy == [handler[e] EXCEPT !.pc = "save_run", !.msg = m]
           h == IF attempts[m.attempt.task][m.attempt.n].status \in TerminalRun
                THEN handler[e] ELSE busy
<1>4. busy \in HandlerState
  BY <1>1, <1>3 DEF HandlerState, HandlerPc
<1>5. m # None => HandlerOK(busy)
  BY <1>1, <1>3 DEF HandlerOK, HandlerState
<1>6. m # None
  BY <1>3, NoneAssumption
<1>7. HandlerTo(e, h)
  BY <1>2
<1> HIDE DEF busy
<1>8. h \in HandlerState /\ HandlerOK(h)
  BY <1>1, <1>4, <1>5, <1>6
<1>9. /\ statuses' \in [Executors -> SUBSET StatusMsg]
      /\ \A f \in Executors : statuses'[f] \subseteq statuses[f]
  BY <1>2 DEF IInv, TypeOK
<1> HIDE DEF h
<1> QED
  BY <1>7, <1>8, <1>9, HandlerLocalStep DEF HandlerReceive

LEMMA HandlerGetTaskInv ==
  ASSUME IInv, NEW e \in Executors, HandlerGetTask(e) PROVE IInv'
<1> USE DEF netVars
<1> DEFINE m == handler[e].msg
           h == IF m.ok
                THEN [handler[e] EXCEPT !.pc = "save_task", !.next = "success",
                                        !.result = m.sets]
                ELSE [handler[e] EXCEPT !.pc = "list_attempts",
                                        !.result = result[m.attempt.task]]
<1>1. handler[e] \in HandlerState /\ HandlerOK(handler[e]) /\ handler[e].pc = "get_task"
  BY DEF IInv, TypeOK, HandlerGetTask
<1>2. m.sets \in Nat /\ result[m.attempt.task] \in Nat
  BY <1>1, CurrentMessage DEF IInv, TypeOK, StatusMsg
<1>3. h \in HandlerState
  BY <1>1, <1>2 DEF HandlerState, HandlerPc
<1>4. HandlerOK(h)
  BY <1>1 DEF HandlerOK, HandlerState
<1>5. HandlerTo(e, h)
  BY DEF HandlerGetTask
<1> HIDE DEF h
<1>6. statuses' = statuses
  BY DEF HandlerGetTask
<1> QED
  BY <1>3, <1>4, <1>5, <1>6, HandlerLocalStep DEF HandlerGetTask, IInv, TypeOK

LEMMA HandlerListAttemptsInv ==
  ASSUME IInv, NEW e \in Executors, HandlerListAttempts(e) PROVE IInv'
<1> USE DEF netVars
<1> DEFINE made == Len(attempts[handler[e].msg.attempt.task])
           h == IF ShouldRetry(made, MaxAttempts)
                THEN [handler[e] EXCEPT !.pc = "save_task", !.next = "pending"]
                ELSE [handler[e] EXCEPT !.pc = "save_task", !.next = "failed", !.result = 0]
<1>1. handler[e] \in HandlerState /\ HandlerOK(handler[e]) /\ handler[e].pc = "list_attempts"
  BY DEF IInv, TypeOK, HandlerListAttempts
<1>2. made \in Nat
  BY <1>1, CurrentMessage DEF IInv, TypeOK
<1>3. h \in HandlerState
  BY <1>1 DEF HandlerState, HandlerPc
<1>4. ~ShouldRetry(made, MaxAttempts) => made >= MaxAttempts
  BY <1>2, BoundsAssumption DEF ShouldRetry
<1>5. HandlerOK(h)
  BY <1>1, <1>4 DEF HandlerOK, HandlerState
<1>6. HandlerTo(e, h)
  BY DEF HandlerListAttempts
<1> HIDE DEF h
<1>7. statuses' = statuses
  BY DEF HandlerListAttempts
<1> QED
  BY <1>3, <1>5, <1>6, <1>7, HandlerLocalStep DEF HandlerListAttempts, IInv, TypeOK

LEMMA HandlerGetDagInv ==
  ASSUME IInv, NEW e \in Executors, HandlerGetDag(e) PROVE IInv'
<1> USE DEF netVars
<1> DEFINE d == dagRun[handler[e].msg.attempt.task.run]
           h == [handler[e] EXCEPT !.pc = "list_tasks", !.dag = d]
<1>1. handler[e] \in HandlerState /\ HandlerOK(handler[e]) /\ handler[e].pc = "get_dag"
  BY DEF IInv, TypeOK, HandlerGetDag
<1>2. d \in DagRunStatus
  BY <1>1, CurrentMessage
<1>3. HandlerTo(e, h)
  BY DEF HandlerGetDag
<1> HIDE DEF d
<1>4. h \in HandlerState
  BY <1>1, <1>2 DEF HandlerState, HandlerPc
<1>5. HandlerOK(h)
  BY <1>1 DEF HandlerOK, HandlerState
<1> HIDE DEF h
<1>6. statuses' = statuses
  BY DEF HandlerGetDag
<1> QED
  BY <1>3, <1>4, <1>5, <1>6, HandlerLocalStep DEF HandlerGetDag, IInv, TypeOK

LEMMA HandlerListTasksInv ==
  ASSUME IInv, NEW e \in Executors, HandlerListTasks(e) PROVE IInv'
<1> USE DEF netVars
<1> DEFINE tasks == {task[t] : t \in TasksOf(handler[e].msg.attempt.task.run)} \ {Absent}
           final == DagStatusFromTasks(tasks)
           h == IF final = handler[e].dag THEN HandlerIdle
                ELSE [handler[e] EXCEPT !.pc = "save_dag", !.dag = final]
<1>1. handler[e] \in HandlerState /\ HandlerOK(handler[e]) /\ handler[e].pc = "list_tasks"
  BY DEF IInv, TypeOK, HandlerListTasks
<1>2. final \in DagRunStatus
  BY DerivedType
<1>3. HandlerTo(e, h)
  BY DEF HandlerListTasks
<1> HIDE DEF final
<1>4. h \in HandlerState
  BY <1>1, <1>2, IdleTypes DEF HandlerState, HandlerPc
<1>5. HandlerOK(h)
  <2>1. HandlerOK([handler[e] EXCEPT !.pc = "save_dag", !.dag = final])
    BY <1>1 DEF HandlerOK, HandlerState
  <2> QED
    BY <2>1, IdleOK
<1> HIDE DEF h
<1>6. statuses' = statuses
  BY DEF HandlerListTasks
<1> QED
  BY <1>3, <1>4, <1>5, <1>6, HandlerLocalStep DEF HandlerListTasks, IInv, TypeOK

\* A status-loop step that writes keeps the invariant if the rows and its own
\* locals are sound afterwards.
LEMMA HandlerWriteStep ==
  ASSUME IInv, TypeOK', DbOK', RowsStay, NEW e \in Executors,
         \A f \in Executors : f # e => handler'[f] = handler[f],
         HandlerOK(handler[e])', UNCHANGED <<pump, netVars>>
  PROVE  IInv'
<1>1. ASSUME NEW f \in Executors PROVE HandlerOK(handler[f])'
  BY HandlerOKStays DEF IInv
<1>2. ASSUME NEW f \in Executors PROVE PumpOK(pump[f])'
  BY PumpOKStays DEF IInv
<1>3. NetOK'
  BY NetOKStays DEF IInv, netVars
<1> QED
  BY <1>1, <1>2, <1>3 DEF IInv

LEMMA HandlerSaveTaskRunInv ==
  ASSUME IInv, NEW e \in Executors, HandlerSaveTaskRun(e) PROVE IInv'
<1> USE DEF planVars, netVars, envVars
<1> DEFINE m == handler[e].msg
           t == m.attempt.task
           n == m.attempt.n
           Row == [status : TaskRunStatus, no : Nat]
           row == [status |-> IF m.ok THEN "success" ELSE "failed", no |-> attempts[t][n].no]
           rows == [attempts[t] EXCEPT ![n] = row]
           h == [handler[e] EXCEPT !.pc = "get_task"]
<1>1. handler[e] \in HandlerState /\ HandlerOK(handler[e]) /\ handler[e].pc = "save_run"
  BY DEF IInv, TypeOK, HandlerSaveTaskRun
<1>2. t \in Task /\ n \in DOMAIN attempts[t]
  BY <1>1, CurrentMessage
<1>3. attempts \in [Task -> Seq(Row)]
  BY DEF IInv, TypeOK
<1>4. row \in Row
  <2> HIDE DEF Row
  <2>1. attempts[t][n] \in Row
    BY <1>2, <1>3
  <2> QED
    BY <2>1 DEF Row, TaskRunStatus
<1>5. attempts' = [attempts EXCEPT ![t] = rows]
  BY DEF HandlerSaveTaskRun
<1>6. HandlerTo(e, h) /\ h \in HandlerState
  BY <1>1 DEF HandlerSaveTaskRun, HandlerState, HandlerPc
<1>7. h.pc = "get_task" /\ h.msg = m
  BY <1>1 DEF HandlerState
<1> HIDE DEF row, Row, h, m
<1>8. rows \in Seq(Row) /\ Len(rows) = Len(attempts[t])
  BY <1>2, <1>3, <1>4, UpdateRow
<1> HIDE DEF rows
<1>9. attempts' \in [Task -> Seq(Row)] /\ \A u \in Task : Len(attempts'[u]) = Len(attempts[u])
  BY <1>2, <1>3, <1>5, <1>8
<1>10. handler' \in [Executors -> HandlerState] /\ handler'[e] = h
       /\ \A f \in Executors : f # e => handler'[f] = handler[f]
  BY <1>6, HandlerToValue DEF IInv
<1>11. TypeOK'
  BY <1>9, <1>10 DEF HandlerSaveTaskRun, IInv, TypeOK, Row
<1>12. \A u \in Task : Len(attempts[u]) \in Nat /\ (attempts'[u] = <<>> <=> attempts[u] = <<>>)
  BY <1>3, <1>9
<1>13. RowsStay
  <2>1. dagRun' = dagRun /\ task' = task
    BY DEF HandlerSaveTaskRun
  <2> QED
    BY <1>9, <1>12, <2>1 DEF RowsStay
<1>14. DbOK'
  BY <1>9, <1>12 DEF IInv, DbOK, FailedBudgetSpent, HandlerSaveTaskRun
<1>15. HandlerOK(handler[e])'
  <2>1. Saved(m.attempt) /\ m # None
    BY <1>1 DEF HandlerOK, m
  <2> QED
    BY <1>2, <1>7, <1>9, <1>10, <2>1 DEF HandlerOK, Saved
<1> QED
  BY <1>10, <1>11, <1>13, <1>14, <1>15, HandlerWriteStep DEF HandlerSaveTaskRun

LEMMA HandlerSaveTaskInv ==
  ASSUME IInv, NEW e \in Executors, HandlerSaveTask(e) PROVE IInv'
<1> USE DEF planVars, envVars
<1> DEFINE m == handler[e].msg
           t == m.attempt.task
           next == handler[e].next
           h == [handler[e] EXCEPT !.pc = IF m.sets > 0 THEN "fan_out" ELSE "get_dag",
                                   !.left = m.sets]
<1>1. handler[e] \in HandlerState /\ HandlerOK(handler[e]) /\ handler[e].pc = "save_task"
  BY DEF IInv, TypeOK, HandlerSaveTask
<1>2. t \in Task /\ task[t] # Absent /\ dagRun[t.run] # Absent /\ m.sets \in Nat
  BY <1>1, CurrentMessage DEF StatusMsg, DagRunStatus, Absent
<1>3. next \in {"success", "pending", "failed"} /\ handler[e].result \in Nat
  BY <1>1 DEF HandlerState
<1>4. task' = [task EXCEPT ![t] = next] /\ result' = [result EXCEPT ![t] = handler[e].result]
  BY DEF HandlerSaveTask
<1>5. HandlerTo(e, h) /\ h \in HandlerState
  BY <1>1, <1>2 DEF HandlerSaveTask, HandlerState, HandlerPc
<1>6. h.msg = m /\ h.left = m.sets /\ h.pc = IF m.sets > 0 THEN "fan_out" ELSE "get_dag"
  BY <1>1 DEF HandlerState
<1>7. next = "failed" => Len(attempts[t]) >= MaxAttempts
  BY <1>1 DEF HandlerOK
<1>8. Saved(m.attempt) /\ m # None
  BY <1>1 DEF HandlerOK
<1> HIDE DEF h, m, next
<1>9. handler' \in [Executors -> HandlerState] /\ handler'[e] = h
      /\ \A f \in Executors : f # e => handler'[f] = handler[f]
  BY <1>5, HandlerToValue DEF IInv
<1>10. TypeOK'
  <2>1. next \in TaskStatus \cup {Absent}
    BY <1>3 DEF TaskStatus
  <2>2. task' \in [Task -> TaskStatus \cup {Absent}]
    BY <1>4, <2>1 DEF IInv, TypeOK
  <2>3. result' \in [Task -> Nat]
    BY <1>3, <1>4 DEF IInv, TypeOK
  <2>4. handler' \in [Executors -> HandlerState]
    BY <1>9
  <2>5. UNCHANGED <<dagRun, created, clock, attempts, planVars, pump, netVars, envVars>>
    BY DEF HandlerSaveTask
  <2> QED
    BY <2>2, <2>3, <2>4, <2>5 DEF IInv, TypeOK, netVars
<1>11. \A u \in Task : task'[u] = IF u = t THEN next ELSE task[u]
  BY <1>4 DEF IInv, TypeOK
<1>12. RowsStay
  BY <1>3, <1>11 DEF RowsStay, HandlerSaveTask, Absent, IInv, TypeOK
<1>13. DbOK'
  BY <1>2, <1>3, <1>7, <1>11 DEF IInv, DbOK, FailedBudgetSpent, HandlerSaveTask, Absent
<1>14. HandlerOK(handler[e])'
  BY <1>2, <1>6, <1>8, <1>9 DEF HandlerOK, Saved, HandlerSaveTask
<1> QED
  BY <1>9, <1>10, <1>12, <1>13, <1>14, HandlerWriteStep DEF HandlerSaveTask

\* The insertion of a row whose run is saved.
LEMMA InsertTaskOK ==
  ASSUME TypeOK, DbOK, NEW t \in Task, InsertTask(t), dagRun[t.run] # Absent,
         UNCHANGED <<dagRun, attempts>>,
         \A r \in Runs : planned'[r] > 0 => planned[r] > 0
  PROVE  /\ task' \in [Task -> TaskStatus \cup {Absent}]
         /\ result' \in [Task -> Nat]
         /\ created' \in [Task -> Nat]
         /\ clock' \in Nat
         /\ DbOK' /\ RowsStay
<1>1. \A u \in Task : task'[u] = IF u = t THEN "pending" ELSE task[u]
  BY DEF InsertTask, TypeOK
<1>2. task' \in [Task -> TaskStatus \cup {Absent}]
  BY DEF InsertTask, TypeOK, TaskStatus
<1>3. result' \in [Task -> Nat] /\ created' \in [Task -> Nat] /\ clock' \in Nat
  BY DEF InsertTask, TypeOK
<1>4. DbOK'
  BY <1>1 DEF DbOK, FailedBudgetSpent, Absent
<1>5. RowsStay
  BY <1>1 DEF RowsStay, Absent, TypeOK
<1> QED
  BY <1>2, <1>3, <1>4, <1>5

LEMMA HandlerFanOutInv ==
  ASSUME IInv, NEW e \in Executors, HandlerFanOut(e) PROVE IInv'
<1> USE DEF planVars, envVars
<1> DEFINE m == handler[e].msg
           left == handler[e].left - 1
           h == [handler[e] EXCEPT !.pc = IF left > 0 THEN "fan_out" ELSE "get_dag",
                                   !.left = left]
<1>1. handler[e] \in HandlerState /\ HandlerOK(handler[e]) /\ handler[e].pc = "fan_out"
  BY DEF IInv, TypeOK, HandlerFanOut
<1>2. m.attempt.task.run \in Runs /\ dagRun[m.attempt.task.run] # Absent
  BY <1>1, CurrentMessage DEF DagRunStatus, Absent
<1>3. PICK c \in 1..MaxFanOut : InsertTask(EmbedTask(m.attempt.task.run, c))
  BY DEF HandlerFanOut
<1>4. left \in Nat
  BY <1>1 DEF HandlerState, HandlerOK
<1>5. HandlerTo(e, h)
  BY DEF HandlerFanOut
<1>6. Saved(m.attempt) /\ m # None
  BY <1>1 DEF HandlerOK
<1> HIDE DEF left
<1>7. h \in HandlerState
  BY <1>1, <1>4 DEF HandlerState, HandlerPc
<1>8. h.msg = m /\ h.left = left /\ h.pc = IF left > 0 THEN "fan_out" ELSE "get_dag"
  BY <1>1 DEF HandlerState
<1> HIDE DEF h, m
<1>9. handler' \in [Executors -> HandlerState] /\ handler'[e] = h
      /\ \A f \in Executors : f # e => handler'[f] = handler[f]
  BY <1>5, <1>7, HandlerToValue DEF IInv
<1> DEFINE t == EmbedTask(m.attempt.task.run, c)
<1>10. t \in Task /\ dagRun[t.run] # Absent
  BY <1>2, EmbedTaskType
<1> HIDE DEF t
<1>11. /\ task' \in [Task -> TaskStatus \cup {Absent}] /\ result' \in [Task -> Nat]
       /\ created' \in [Task -> Nat] /\ clock' \in Nat
       /\ DbOK' /\ RowsStay
  BY <1>3, <1>10, InsertTaskOK DEF IInv, HandlerFanOut, t
<1>12. TypeOK'
  BY <1>9, <1>11 DEF HandlerFanOut, IInv, TypeOK, netVars
<1>13. HandlerOK(handler[e])'
  BY <1>6, <1>8, <1>9 DEF HandlerOK, Saved, HandlerFanOut
<1> QED
  BY <1>9, <1>11, <1>12, <1>13, HandlerWriteStep DEF HandlerFanOut

LEMMA HandlerSaveDagInv ==
  ASSUME IInv, NEW e \in Executors, HandlerSaveDag(e) PROVE IInv'
<1> USE DEF planVars, envVars
<1> DEFINE r == handler[e].msg.attempt.task.run
           d == handler[e].dag
<1>1. handler[e] \in HandlerState /\ handler[e].pc = "save_dag"
  BY DEF IInv, TypeOK, HandlerSaveDag
<1>2. r \in Runs /\ d \in DagRunStatus
  BY <1>1, CurrentMessage DEF HandlerState
<1>3. dagRun' = [dagRun EXCEPT ![r] = d] /\ HandlerTo(e, HandlerIdle)
  BY DEF HandlerSaveDag
<1> HIDE DEF r, d
<1>4. handler' \in [Executors -> HandlerState] /\ handler'[e] = HandlerIdle
      /\ \A f \in Executors : f # e => handler'[f] = handler[f]
  BY <1>3, IdleTypes, HandlerToValue DEF IInv
<1>5. TypeOK'
  BY <1>2, <1>3, <1>4 DEF HandlerSaveDag, IInv, TypeOK, netVars
<1>6. \A q \in Runs : dagRun'[q] = IF q = r THEN d ELSE dagRun[q]
  BY <1>3 DEF IInv, TypeOK
<1>7. d # Absent
  BY <1>2 DEF DagRunStatus, Absent
<1>8. RowsStay
  BY <1>6, <1>7 DEF RowsStay, HandlerSaveDag, IInv, TypeOK
<1>9. DbOK'
  BY <1>6, <1>7, TaskFields DEF IInv, DbOK, FailedBudgetSpent, HandlerSaveDag
<1>10. HandlerOK(handler[e])'
  BY <1>4 DEF HandlerOK, HandlerIdle
<1> QED
  BY <1>4, <1>5, <1>8, <1>9, <1>10, HandlerWriteStep DEF HandlerSaveDag

LEMMA HandlerInv == ASSUME IInv, NEW e \in Executors, Handler(e) PROVE IInv'
  BY HandlerReceiveInv, HandlerSaveTaskRunInv, HandlerGetTaskInv, HandlerListAttemptsInv,
     HandlerSaveTaskInv, HandlerFanOutInv, HandlerGetDagInv, HandlerListTasksInv,
     HandlerSaveDagInv DEF Handler

-----------------------------------------------------------------------------
(* The planner, the workers and the failures.                              *)

\* A step that leaves the loops alone keeps the invariant if the rows and the
\* messages are sound afterwards.
LEMMA OutsideStep ==
  ASSUME IInv, TypeOK', DbOK', NetOK', RowsStay, UNCHANGED <<pump, handler>>
  PROVE  IInv'
<1>1. ASSUME NEW f \in Executors PROVE PumpOK(pump[f])' /\ HandlerOK(handler[f])'
  BY PumpOKStays, HandlerOKStays DEF IInv
<1> QED
  BY <1>1 DEF IInv

LEMMA PlannerSaveRunInv ==
  ASSUME IInv, NEW r \in Runs, PlannerSaveRun(r) PROVE IInv'
<1>1. /\ dagRun' = [dagRun EXCEPT ![r] = "created"] /\ planned' = [planned EXCEPT ![r] = 1]
      /\ UNCHANGED <<task, result, created, clock, attempts, abandoned,
                     pump, handler, netVars, envVars>>
  BY DEF PlannerSaveRun
<1> USE DEF netVars, envVars
<1>2. planned' \in [Runs -> 0..Len(Profile) + 1]
  BY <1>1, ProfileAssumption DEF IInv, TypeOK
<1>3. TypeOK'
  BY <1>1, <1>2 DEF IInv, TypeOK, DagRunStatus
<1>4. \A q \in Runs : /\ dagRun'[q] = IF q = r THEN "created" ELSE dagRun[q]
                      /\ planned'[q] = IF q = r THEN 1 ELSE planned[q]
  BY <1>1 DEF IInv, TypeOK
<1>5. RowsStay
  BY <1>1, <1>4 DEF RowsStay, Absent, IInv, TypeOK
<1>6. DbOK'
  BY <1>1, <1>4, TaskFields DEF IInv, DbOK, FailedBudgetSpent, Absent
<1>7. NetOK'
  BY <1>1, <1>5, NetOKStays DEF IInv
<1> QED
  BY <1>1, <1>3, <1>5, <1>6, <1>7, OutsideStep

LEMMA PlannerSaveTaskInv ==
  ASSUME IInv, NEW r \in Runs, PlannerSaveTask(r) PROVE IInv'
<1> DEFINE t == PlannedTask(r, planned[r])
<1>1. /\ planned[r] \in 1..Len(Profile) /\ InsertTask(t)
      /\ planned' = [planned EXCEPT ![r] = @ + 1]
      /\ UNCHANGED <<dagRun, attempts, abandoned, pump, handler, netVars, envVars>>
  BY DEF PlannerSaveTask
<1> USE DEF netVars, envVars
<1>2. t \in Task /\ t.run = r
  BY <1>1, PlannedTaskType
<1> HIDE DEF t
<1>3. planned' \in [Runs -> 0..Len(Profile) + 1]
  BY <1>1, ProfileAssumption DEF IInv, TypeOK
<1>4. \A q \in Runs : planned'[q] > 0 => planned[q] > 0
  BY <1>1 DEF IInv, TypeOK
<1>5. dagRun[t.run] # Absent
  BY <1>1, <1>2 DEF IInv, DbOK
<1>6. /\ task' \in [Task -> TaskStatus \cup {Absent}] /\ result' \in [Task -> Nat]
      /\ created' \in [Task -> Nat] /\ clock' \in Nat
      /\ DbOK' /\ RowsStay
  BY <1>1, <1>2, <1>4, <1>5, InsertTaskOK DEF IInv
<1>7. TypeOK'
  BY <1>1, <1>3, <1>6 DEF IInv, TypeOK
<1>8. NetOK'
  BY <1>1, <1>6, NetOKStays DEF IInv
<1> QED
  BY <1>1, <1>6, <1>7, <1>8, OutsideStep

LEMMA PlannerCrashInv ==
  ASSUME IInv, NEW r \in Runs, PlannerCrash(r) PROVE IInv'
<1> USE DEF dbVars, netVars, envVars, IInv
<1>1. TypeOK'
  BY DEF PlannerCrash, TypeOK
<1>2. RowsStay /\ DbOK' /\ NetOK'
  BY DEF PlannerCrash, RowsStay, TypeOK, DbOK, NetOK, Saved, FailedBudgetSpent
<1> QED
  BY <1>1, <1>2, OutsideStep DEF PlannerCrash

LEMMA WorkerAnswerInv ==
  ASSUME IInv, NEW q \in requests, WorkerAnswer(q) PROVE IInv'
<1> USE DEF dbVars, planVars, envVars
<1>1. PICK a \in Answers(q.attempt.task.kind) :
        statuses' = [e \in Executors |->
                       IF e \notin up THEN statuses[e]
                       ELSE statuses[e] \cup {[attempt |-> q.attempt, worker |-> q.worker,
                                               ok |-> a.ok, sets |-> a.sets]}]
  BY DEF WorkerAnswer
<1> DEFINE m == [attempt |-> q.attempt, worker |-> q.worker, ok |-> a.ok, sets |-> a.sets]
<1>2. a.ok \in BOOLEAN /\ a.sets \in Nat
  <2> DEFINE kind == q.attempt.task.kind
             counts == IF kind = "chunker" THEN ChunkSetCounts ELSE {0}
  <2>1. counts \subseteq Nat
    BY CountsAssumption
  <2>2. \/ \E n \in counts : a = [ok |-> TRUE, sets |-> n]
        \/ a = [ok |-> FALSE, sets |-> 0]
    BY DEF Answers
  <2> HIDE DEF counts
  <2>3. CASE \E n \in counts : a = [ok |-> TRUE, sets |-> n]
    BY <2>1, <2>3
  <2>4. CASE a = [ok |-> FALSE, sets |-> 0]
    BY <2>4
  <2> QED
    BY <2>2, <2>3, <2>4
<1>3. m \in StatusMsg /\ m.attempt = q.attempt
  BY <1>2 DEF IInv, TypeOK, StatusMsg
<1> HIDE DEF m
<1>4. statuses' = [e \in Executors |-> IF e \notin up THEN statuses[e] ELSE statuses[e] \cup {m}]
  BY <1>1 DEF m
<1>5. requests' \subseteq requests
  BY DEF WorkerAnswer
<1>6. TypeOK'
  BY <1>3, <1>4, <1>5 DEF WorkerAnswer, IInv, TypeOK
<1>7. RowsStay /\ DbOK'
  BY DEF WorkerAnswer, RowsStay, IInv, TypeOK, DbOK, FailedBudgetSpent
<1>8. NetOK'
  BY <1>3, <1>4, <1>5 DEF WorkerAnswer, IInv, NetOK, Saved
<1> QED
  BY <1>6, <1>7, <1>8, OutsideStep DEF WorkerAnswer

LEMMA WorkerLoseInv ==
  ASSUME IInv, NEW q \in requests, WorkerLose(q) PROVE IInv'
<1> USE DEF dbVars, planVars, IInv
<1>1. TypeOK'
  <2>1. losses' \in 0..MaxLosses
    BY BoundsAssumption DEF WorkerLose, TypeOK
  <2> QED
    BY <2>1 DEF WorkerLose, TypeOK
<1>2. RowsStay /\ DbOK' /\ NetOK'
  BY DEF WorkerLose, RowsStay, TypeOK, DbOK, NetOK, Saved, FailedBudgetSpent
<1> QED
  BY <1>1, <1>2, OutsideStep DEF WorkerLose

LEMMA ExecutorCrashInv ==
  ASSUME IInv, NEW e \in Executors, ExecutorCrash(e) PROVE IInv'
<1> USE DEF dbVars, planVars
<1>1. /\ PumpTo(e, PumpIdle) /\ HandlerTo(e, HandlerIdle)
      /\ statuses' = [statuses EXCEPT ![e] = {}]
      /\ UNCHANGED <<dbVars, planVars, requests, losses>>
  BY DEF ExecutorCrash
<1>2. /\ pump' \in [Executors -> PumpState] /\ pump'[e] = PumpIdle
      /\ handler' \in [Executors -> HandlerState] /\ handler'[e] = HandlerIdle
      /\ \A f \in Executors : f # e => pump'[f] = pump[f] /\ handler'[f] = handler[f]
  BY <1>1, IdleTypes, PumpToValue, HandlerToValue DEF IInv
<1>3. TypeOK'
  <2>1. crashes' \in 0..MaxCrashes
    BY BoundsAssumption DEF ExecutorCrash, IInv, TypeOK
  <2>2. statuses' \in [Executors -> SUBSET StatusMsg] /\ up' \subseteq Executors
    BY <1>1 DEF ExecutorCrash, IInv, TypeOK
  <2> QED
    BY <1>1, <1>2, <2>1, <2>2 DEF IInv, TypeOK
<1>4. RowsStay /\ DbOK' /\ NetOK'
  BY <1>1 DEF RowsStay, IInv, TypeOK, DbOK, NetOK, Saved, FailedBudgetSpent
<1>5. ASSUME NEW f \in Executors PROVE PumpOK(pump[f])' /\ HandlerOK(handler[f])'
  <2>1. PumpOK(pump'[f]) /\ HandlerOK(handler'[f])
    BY <1>2, IdleOK DEF IInv
  <2> QED
    BY <1>1, <2>1 DEF PumpOK, HandlerOK, Saved
<1> QED
  BY <1>3, <1>4, <1>5 DEF IInv

LEMMA ExecutorStartInv ==
  ASSUME IInv, NEW e \in Executors, ExecutorStart(e) PROVE IInv'
<1> USE DEF dbVars, planVars, netVars, IInv
<1>1. TypeOK'
  BY DEF ExecutorStart, TypeOK
<1>2. RowsStay /\ DbOK' /\ NetOK'
  BY DEF ExecutorStart, RowsStay, TypeOK, DbOK, NetOK, Saved, FailedBudgetSpent
<1> QED
  BY <1>1, <1>2, OutsideStep DEF ExecutorStart

-----------------------------------------------------------------------------
(* The theorems.                                                           *)

LEMMA StepIInv == IInv /\ [Next]_vars => IInv'
<1> SUFFICES ASSUME IInv, [Next]_vars PROVE IInv'
  OBVIOUS
<1>1. ASSUME NEW r \in Runs, Planner(r) \/ PlannerCrash(r) PROVE IInv'
  BY <1>1, PlannerSaveRunInv, PlannerSaveTaskInv, PlannerCrashInv DEF Planner
<1>2. ASSUME NEW e \in Executors, Pump(e) PROVE IInv'
  BY <1>2, PumpInv
<1>3. ASSUME NEW e \in Executors, Handler(e) PROVE IInv'
  BY <1>3, HandlerInv
<1>4. ASSUME NEW e \in Executors, ExecutorCrash(e) \/ ExecutorStart(e) PROVE IInv'
  BY <1>4, ExecutorCrashInv, ExecutorStartInv
<1>5. ASSUME NEW q \in requests, WorkerAnswer(q) \/ WorkerLose(q) PROVE IInv'
  BY <1>5, WorkerAnswerInv, WorkerLoseInv
<1>6. CASE UNCHANGED vars
  BY <1>6 DEF vars, dbVars, planVars, netVars, envVars, IInv, TypeOK, DbOK, NetOK,
              PumpOK, HandlerOK, Saved, FailedBudgetSpent
<1> QED
  BY <1>1, <1>2, <1>3, <1>4, <1>5, <1>6 DEF Next

\* The inductive invariant holds in every reachable state.
THEOREM Invariance == Spec => []IInv
  BY InitIInv, StepIInv, PTL DEF Spec

\* Every variable and every local of a loop keeps its type.
THEOREM TypeCorrect == Spec => []TypeOK
<1>1. IInv => TypeOK
  BY DEF IInv
<1> QED
  BY <1>1, Invariance, PTL

\* With any number of executors, crashes and lost requests, every reference from
\* a row, a message or a local resolves: the scheduler never meets a status for
\* a TaskRun, a task or a run that is not stored.
THEOREM ReferencesAlwaysHold == Spec => []ReferencesHold
<1>1. IInv => ReferencesHold
  <2> SUFFICES ASSUME IInv PROVE ReferencesHold
    OBVIOUS
  <2>1. ASSUME NEW e \in Executors
        PROVE  /\ \A t \in pump[e].todo : task[t] # Absent
               /\ pump[e].cur # None => task[pump[e].cur] # Absent
               /\ \A i \in DOMAIN pump[e].ready : Saved(pump[e].ready[i])
               /\ \A m \in statuses[e] : Saved(m.attempt)
               /\ handler[e].msg # None => Saved(handler[e].msg.attempt)
    BY DEF IInv, PumpOK, HandlerOK, NetOK
  <2> QED
    BY <2>1 DEF IInv, DbOK, NetOK, ReferencesHold
<1> QED
  BY <1>1, Invariance, PTL

\* With any number of executors, crashes and lost requests, a task is given up
\* only when at least MaxAttempts attempts of it are stored.
THEOREM FailedBudgetIsSpent == Spec => []FailedBudgetSpent
<1>1. IInv => FailedBudgetSpent
  BY DEF IInv, DbOK
<1> QED
  BY <1>1, Invariance, PTL
=============================================================================
