-------------------------- MODULE OneExecutorProofs --------------------------
(***************************************************************************)
(* Proofs about WorkflowExecutor with one executor: what its two loops may *)
(* rely on when no other process schedules tasks or applies statuses.  The *)
(* number of runs, worker replicas, attempts, crashes and lost requests is *)
(* arbitrary.  The invariants come in layers; each is proved inductive     *)
(* with the help of those before it.  The last section is about any number *)
(* of executors with one worker replica.                                   *)
(***************************************************************************)
EXTENDS WorkflowExecutorProofs, FiniteSetTheorems

OneExecutor == \A e, f \in Executors : e = f

-----------------------------------------------------------------------------
(* Who may write what: the pump writes only to pending tasks, the status   *)
(* loop only to the last attempt of a running one.                         *)

\* The attempt has its outcome.
Done(a) == attempts[a.task][a.n].status \in TerminalRun

\* The attempt its task is running.
Current(a) == a.n = Len(attempts[a.task]) /\ task[a.task] = "running"

\* What a request, a status or a ready task may name: an attempt whose outcome
\* is either known or the one its task waits for.
Answerable(a) == Done(a) \/ Current(a)

RowsOwned ==
  \A t \in Task :
    /\ task[t] \in {Absent, "pending", "running", "success", "failed"}
    /\ task[t] \in {"running", "success", "failed"} => attempts[t] # <<>>
    /\ \A n \in DOMAIN attempts[t] : attempts[t][n].status \in {"running", "success", "failed"}

NetOwned ==
  /\ \A q \in requests : Answerable(q.attempt)
  /\ \A e \in Executors : \A m \in statuses[e] : Answerable(m.attempt)

\* The rows of a scan are pending until the scan itself marks them, the number
\* counted for an attempt is still right when it is saved, and every attempt in
\* the ready list but the one whose task is about to be marked is answerable.
PumpOwns(p) ==
  /\ \A t \in p.todo : task[t] = "pending"
  /\ p.pc \in {"attempts", "save_run", "save_task"}
       => task[p.cur] = "pending" /\ p.cur \notin p.todo
  /\ p.pc = "save_run" => p.count = Len(attempts[p.cur])
  /\ p.pc = "save_task"
       => /\ p.ready # <<>>
          /\ p.ready[Len(p.ready)] = [task |-> p.cur, n |-> Len(attempts[p.cur])]
  /\ \A i \in DOMAIN p.ready :
       ~(p.pc = "save_task" /\ i = Len(p.ready)) => Answerable(p.ready[i])

\* From the message it took to the save of the task, the status loop works on
\* the attempt its task is running, and decides as the message says.
HandlerOwns(h) ==
  LET a == h.msg.attempt IN
  /\ h.pc = "save_run" => Current(a) /\ ~Done(a)
  /\ h.pc \in {"get_task", "list_attempts", "save_task"}
       => Current(a) /\ attempts[a.task][a.n].status = IF h.msg.ok THEN "success" ELSE "failed"
  /\ h.pc = "list_attempts" => ~h.msg.ok
  /\ h.pc = "save_task" => (h.next = "success" <=> h.msg.ok)
  /\ h.pc = "save_task" /\ h.next = "pending" => Len(attempts[a.task]) < MaxAttempts

Owned ==
  /\ RowsOwned /\ NetOwned
  /\ \A e \in Executors : PumpOwns(pump[e]) /\ HandlerOwns(handler[e])

-----------------------------------------------------------------------------
(* How many attempts a task has, and how many of them are open.            *)

Budget == (IF MaxAttempts = 0 THEN 1 ELSE MaxAttempts) + crashes

\* Some scan has saved an attempt of the task and is about to mark it running.
Marking(t) == \E e \in Executors : pump[e].pc = "save_task" /\ pump[e].cur = t

\* The status loop has saved the outcome of the task's last attempt, and not
\* yet the task.
Deciding(t) ==
  \E e \in Executors : /\ handler[e].pc \in {"get_task", "list_attempts", "save_task"}
                       /\ handler[e].msg.attempt.task = t

WithinBudget ==
  \A t \in Task :
    /\ Len(attempts[t]) <= Budget
    /\ task[t] = "pending" /\ ~Marking(t) => Len(attempts[t]) < Budget

Live(t) == {n \in DOMAIN attempts[t] : attempts[t][n].status = "running"}

FewLive ==
  \A t \in Task :
    /\ Cardinality(Live(t)) <= 1 + crashes
    /\ (task[t] = "pending" /\ ~Marking(t)) \/ Deciding(t) => Cardinality(Live(t)) <= crashes

\* The planner has saved a prefix of the profile.
PlanSaved ==
  /\ \A r \in Runs : \A i \in 1..Len(Profile) :
       task[PlannedTask(r, i)] # Absent <=> i < planned[r]
  /\ \A t \in Task : t.copy = 0 /\ task[t] # Absent => \E i \in 1..Len(Profile) : Profile[i] = t.kind

\* Only a chunker's success announces chunk sets.
SetsFromChunker(m) == m.sets > 0 => m.ok /\ m.attempt.task.kind = "chunker"


-----------------------------------------------------------------------------
(* What the steps do, local by local and row by row.                       *)

LEMMA RecordOfLoop ==
  ASSUME IInv, NEW e \in Executors
  PROVE  /\ pump[e] \in PumpState /\ PumpOK(pump[e])
         /\ handler[e] \in HandlerState /\ HandlerOK(handler[e])
  BY DEF IInv, TypeOK

LEMMA PumpListDoes ==
  ASSUME IInv, NEW e \in Executors, PumpList(e)
  PROVE  /\ pump[e].pc = "idle" /\ pump'[e].pc = "scan"
         /\ pump'[e].todo = ListPending
         /\ pump'[e].ready = pump[e].ready /\ pump'[e].listed = pump[e].listed
         /\ pump'[e].seen = pump[e].seen /\ pump'[e].cur = pump[e].cur
  BY RecordOfLoop DEF PumpList, PumpTo, PumpState, IInv, TypeOK

LEMMA PumpConsiderDoes ==
  ASSUME IInv, NEW e \in Executors, PumpConsider(e)
  PROVE  \E t \in pump[e].todo :
           /\ pump[e].pc = "scan"
           /\ pump'[e].todo = pump[e].todo \ {t}
           /\ pump'[e].seen = Siblings(e, t.run)
           /\ pump'[e].listed = pump[e].listed \cup {t.run}
           /\ pump'[e].ready = pump[e].ready
           /\ \/ /\ pump'[e].pc = "attempts" /\ pump'[e].cur = t
                 /\ IsReady(t.kind, "pending", TasksOf(t.run), Siblings(e, t.run))
              \/ pump'[e].pc = "scan" /\ pump'[e].cur = None
<1>1. pump[e] \in PumpState /\ pump[e].pc = "scan" /\ pump \in [Executors -> PumpState]
  BY DEF IInv, TypeOK, PumpConsider
<1>2. PICK t \in pump[e].todo :
        LET ready == IsReady(t.kind, "pending", TasksOf(t.run), Siblings(e, t.run))
        IN  PumpTo(e, [pump[e] EXCEPT !.pc     = IF ready THEN "attempts" ELSE "scan",
                                      !.todo   = @ \ {t},
                                      !.seen   = Siblings(e, t.run),
                                      !.listed = @ \cup {t.run},
                                      !.cur    = IF ready THEN t ELSE None])
  BY DEF PumpConsider
<1> DEFINE ready == IsReady(t.kind, "pending", TasksOf(t.run), Siblings(e, t.run))
           seen == Siblings(e, t.run)
<1>3. pump'[e] = [pump[e] EXCEPT !.pc     = IF ready THEN "attempts" ELSE "scan",
                                 !.todo   = @ \ {t},
                                 !.seen   = seen,
                                 !.listed = @ \cup {t.run},
                                 !.cur    = IF ready THEN t ELSE None]
  BY <1>1, <1>2 DEF PumpTo
<1> HIDE DEF ready, seen
<1>4. /\ pump'[e].todo = pump[e].todo \ {t} /\ pump'[e].seen = seen
      /\ pump'[e].listed = pump[e].listed \cup {t.run} /\ pump'[e].ready = pump[e].ready
      /\ \/ pump'[e].pc = "attempts" /\ pump'[e].cur = t /\ ready
         \/ pump'[e].pc = "scan" /\ pump'[e].cur = None
  BY <1>1, <1>3 DEF PumpState
<1> QED
  BY <1>1, <1>4 DEF ready, seen

LEMMA PumpCountAttemptsDoes ==
  ASSUME IInv, NEW e \in Executors, PumpCountAttempts(e)
  PROVE  /\ pump[e].pc = "attempts" /\ pump'[e].pc = "save_run"
         /\ pump'[e].count = Len(attempts[pump[e].cur])
         /\ pump'[e].ready = pump[e].ready /\ pump'[e].listed = pump[e].listed
         /\ pump'[e].seen = pump[e].seen /\ pump'[e].cur = pump[e].cur
         /\ pump'[e].todo = pump[e].todo
<1> DEFINE n == Len(attempts[pump[e].cur])
<1>1. pump[e] \in PumpState /\ pump \in [Executors -> PumpState]
  BY DEF IInv, TypeOK
<1>2. pump'[e] = [pump[e] EXCEPT !.pc = "save_run", !.count = n]
  BY <1>1 DEF PumpCountAttempts, PumpTo
<1> HIDE DEF n
<1>3. /\ pump'[e].pc = "save_run" /\ pump'[e].count = n
      /\ pump'[e].ready = pump[e].ready /\ pump'[e].listed = pump[e].listed
      /\ pump'[e].seen = pump[e].seen /\ pump'[e].cur = pump[e].cur
      /\ pump'[e].todo = pump[e].todo
  BY <1>1, <1>2 DEF PumpState
<1> QED
  BY <1>3 DEF n, PumpCountAttempts

\* The new attempt is the last one of its task and of the ready list.
LEMMA PumpSaveTaskRunDoes ==
  ASSUME IInv, NEW e \in Executors, PumpSaveTaskRun(e)
  PROVE  LET t == pump[e].cur
             k == Len(attempts[t]) + 1
         IN  /\ pump[e].pc = "save_run" /\ pump'[e].pc = "save_task"
             /\ t \in Task /\ k \in Nat \ {0}
             /\ DOMAIN attempts[t] = 1..k-1
             /\ Len(attempts'[t]) = k /\ DOMAIN attempts'[t] = 1..k
             /\ attempts'[t][k].status = "running" /\ attempts'[t][k].no = pump[e].count
             /\ \A n \in 1..k-1 : attempts'[t][n] = attempts[t][n]
             /\ \A u \in Task : u # t => attempts'[u] = attempts[u]
             /\ pump'[e].ready = Append(pump[e].ready, [task |-> t, n |-> k])
             /\ pump'[e].listed = pump[e].listed /\ pump'[e].seen = pump[e].seen
             /\ pump'[e].cur = t /\ pump'[e].todo = pump[e].todo
<1> DEFINE t == pump[e].cur
           row == [status |-> "running", no |-> pump[e].count]
           Row == [status : TaskRunStatus, no : Nat]
           more == Append(attempts[t], row)
           a == NextAttempt(t)
           ready == Append(pump[e].ready, a)
<1>1. pump[e] \in PumpState /\ pump[e].pc = "save_run" /\ pump \in [Executors -> PumpState]
  BY DEF IInv, TypeOK, PumpSaveTaskRun
<1>2. t \in Task
  BY <1>1, CurrentRow
<1>3. attempts \in [Task -> Seq(Row)]
  BY DEF IInv, TypeOK
<1>4. row \in Row
  BY <1>1 DEF TaskRunStatus, PumpState
<1>5. attempts' = [attempts EXCEPT ![t] = more]
  BY DEF PumpSaveTaskRun
<1>6. pump'[e] = [pump[e] EXCEPT !.pc = "save_task", !.ready = ready]
  BY <1>1 DEF PumpSaveTaskRun, PumpTo, PumpState
<1>7. a = [task |-> t, n |-> Len(attempts[t]) + 1]
      /\ row.status = "running" /\ row.no = pump[e].count
  BY DEF NextAttempt
<1> HIDE DEF ready, a, row, Row
<1>8. attempts[t] \in Seq(Row)
  BY <1>2, <1>3
<1>9. /\ Len(attempts[t]) \in Nat
      /\ DOMAIN attempts[t] = 1..Len(attempts[t])
      /\ Len(more) = Len(attempts[t]) + 1 /\ DOMAIN more = 1..Len(attempts[t]) + 1
      /\ more[Len(attempts[t]) + 1] = row
      /\ \A n \in 1..Len(attempts[t]) : more[n] = attempts[t][n]
  <2> HIDE DEF t
  <2> QED BY <1>4, <1>8
<1> HIDE DEF more
<1>10. attempts'[t] = more /\ \A u \in Task : u # t => attempts'[u] = attempts[u]
  BY <1>2, <1>3, <1>5
<1>11. /\ pump'[e].pc = "save_task" /\ pump'[e].ready = ready
       /\ pump'[e].listed = pump[e].listed /\ pump'[e].seen = pump[e].seen
       /\ pump'[e].cur = t /\ pump'[e].todo = pump[e].todo
  BY <1>1, <1>6 DEF PumpState
<1>12. DOMAIN attempts[t] = 1..(Len(attempts[t]) + 1) - 1
       /\ Len(attempts[t]) + 1 \in Nat \ {0} /\ (Len(attempts[t]) + 1) - 1 = Len(attempts[t])
  BY <1>9
<1> HIDE DEF t
<1> QED
  BY <1>1, <1>2, <1>7, <1>9, <1>10, <1>11, <1>12 DEF ready, t

LEMMA PumpSaveTaskDoes ==
  ASSUME IInv, NEW e \in Executors, PumpSaveTask(e)
  PROVE  /\ pump[e].pc = "save_task" /\ pump'[e].pc = "get_dag"
         /\ pump[e].cur \in Task
         /\ \A u \in Task : task'[u] = IF u = pump[e].cur THEN "running" ELSE task[u]
         /\ \A u \in Task : u # pump[e].cur => result'[u] = result[u]
         /\ pump'[e].ready = pump[e].ready /\ pump'[e].listed = pump[e].listed
         /\ pump'[e].seen = pump[e].seen /\ pump'[e].cur = pump[e].cur
         /\ pump'[e].todo = pump[e].todo
<1>1. pump[e] \in PumpState /\ pump[e].pc = "save_task" /\ pump \in [Executors -> PumpState]
  BY DEF IInv, TypeOK, PumpSaveTask
<1>2. pump[e].cur \in Task
  BY <1>1, CurrentRow
<1>3. pump'[e] = [pump[e] EXCEPT !.pc = "get_dag"]
  BY <1>1 DEF PumpSaveTask, PumpTo
<1>4. /\ pump'[e].pc = "get_dag"
      /\ pump'[e].ready = pump[e].ready /\ pump'[e].listed = pump[e].listed
      /\ pump'[e].seen = pump[e].seen /\ pump'[e].cur = pump[e].cur
      /\ pump'[e].todo = pump[e].todo
  BY <1>1, <1>3 DEF PumpState
<1>5. \A u \in Task : /\ task'[u] = IF u = pump[e].cur THEN "running" ELSE task[u]
                      /\ u # pump[e].cur => result'[u] = result[u]
  BY <1>2 DEF PumpSaveTask, IInv, TypeOK
<1> QED
  BY <1>1, <1>2, <1>4, <1>5

LEMMA PumpGetDagDoes ==
  ASSUME IInv, NEW e \in Executors, PumpGetDag(e)
  PROVE  /\ pump[e].pc = "get_dag" /\ pump[e].cur \in Task /\ pump[e].cur.run \in Runs
         /\ \/ pump'[e].pc = "save_dag" /\ dagRun[pump[e].cur.run] = "created"
            \/ pump'[e].pc = "scan" /\ dagRun[pump[e].cur.run] # "created"
         /\ pump'[e].ready = pump[e].ready /\ pump'[e].listed = pump[e].listed
         /\ pump'[e].seen = pump[e].seen /\ pump'[e].cur = pump[e].cur
         /\ pump'[e].todo = pump[e].todo
<1> DEFINE new == dagRun[pump[e].cur.run] = "created"
<1>1. pump[e] \in PumpState /\ pump[e].pc = "get_dag" /\ pump \in [Executors -> PumpState]
  BY DEF IInv, TypeOK, PumpGetDag
<1>2. pump'[e] = [pump[e] EXCEPT !.pc = IF new THEN "save_dag" ELSE "scan", !.count = 0]
  BY <1>1 DEF PumpGetDag, PumpTo
<1> HIDE DEF new
<1>3. /\ pump'[e].pc = IF new THEN "save_dag" ELSE "scan"
      /\ pump'[e].ready = pump[e].ready /\ pump'[e].listed = pump[e].listed
      /\ pump'[e].seen = pump[e].seen /\ pump'[e].cur = pump[e].cur
      /\ pump'[e].todo = pump[e].todo
  BY <1>1, <1>2 DEF PumpState
<1> QED
  BY <1>1, <1>3, CurrentRow DEF new

LEMMA PumpSaveDagDoes ==
  ASSUME IInv, NEW e \in Executors, PumpSaveDag(e)
  PROVE  /\ pump[e].pc = "save_dag" /\ pump'[e].pc = "scan"
         /\ pump[e].cur \in Task /\ pump[e].cur.run \in Runs
         /\ \A r \in Runs : dagRun'[r] = IF r = pump[e].cur.run THEN "running" ELSE dagRun[r]
         /\ pump'[e].ready = pump[e].ready /\ pump'[e].listed = pump[e].listed
         /\ pump'[e].seen = pump[e].seen /\ pump'[e].cur = pump[e].cur
         /\ pump'[e].todo = pump[e].todo
<1>1. pump[e] \in PumpState /\ pump[e].pc = "save_dag" /\ pump \in [Executors -> PumpState]
  BY DEF IInv, TypeOK, PumpSaveDag
<1>2. pump[e].cur \in Task /\ pump[e].cur.run \in Runs
  BY <1>1, CurrentRow
<1>3. pump'[e] = [pump[e] EXCEPT !.pc = "scan"]
  BY <1>1 DEF PumpSaveDag, PumpTo
<1>4. /\ pump'[e].pc = "scan"
      /\ pump'[e].ready = pump[e].ready /\ pump'[e].listed = pump[e].listed
      /\ pump'[e].seen = pump[e].seen /\ pump'[e].cur = pump[e].cur
      /\ pump'[e].todo = pump[e].todo
  BY <1>1, <1>3 DEF PumpState
<1>5. \A r \in Runs : dagRun'[r] = IF r = pump[e].cur.run THEN "running" ELSE dagRun[r]
  BY <1>2 DEF PumpSaveDag, IInv, TypeOK
<1> QED
  BY <1>1, <1>2, <1>4, <1>5

LEMMA PumpPublishDoes ==
  ASSUME IInv, NEW e \in Executors, PumpPublish(e)
  PROVE  /\ pump[e].pc = "scan" /\ pump'[e].pc = "scan"
         /\ Len(pump[e].ready) \in Nat \ {0}
         /\ \A q \in requests' : q \in requests \/ q.attempt = pump[e].ready[1]
         /\ Len(pump'[e].ready) = Len(pump[e].ready) - 1
         /\ \A i \in 1..Len(pump'[e].ready) : pump'[e].ready[i] = pump[e].ready[i + 1]
         /\ pump'[e].listed = pump[e].listed
         /\ pump'[e].seen = pump[e].seen /\ pump'[e].cur = pump[e].cur
         /\ pump'[e].todo = pump[e].todo
<1> DEFINE rest == Tail(pump[e].ready)
<1>1. pump[e] \in PumpState /\ pump[e].pc = "scan" /\ pump \in [Executors -> PumpState]
  BY DEF IInv, TypeOK, PumpPublish
<1>2. pump[e].ready \in Seq(Attempt) /\ pump[e].ready # <<>>
  BY <1>1 DEF PumpState, PumpPublish
<1>3. /\ Len(pump[e].ready) \in Nat \ {0} /\ Len(rest) = Len(pump[e].ready) - 1
      /\ \A i \in 1..Len(rest) : rest[i] = pump[e].ready[i + 1]
      /\ Head(pump[e].ready) = pump[e].ready[1]
  BY <1>2
<1>4. pump'[e] = [pump[e] EXCEPT !.ready = rest]
  BY <1>1 DEF PumpPublish, PumpTo, PumpState
<1>5. \A q \in requests' : q \in requests \/ q.attempt = pump[e].ready[1]
  BY <1>3 DEF PumpPublish
<1> HIDE DEF rest
<1>6. /\ pump'[e].pc = "scan" /\ pump'[e].ready = rest
      /\ pump'[e].listed = pump[e].listed
      /\ pump'[e].seen = pump[e].seen /\ pump'[e].cur = pump[e].cur
      /\ pump'[e].todo = pump[e].todo
  BY <1>1, <1>4 DEF PumpState
<1> QED
  BY <1>1, <1>3, <1>5, <1>6

LEMMA PumpSleepDoes ==
  ASSUME IInv, NEW e \in Executors, PumpSleep(e)
  PROVE  pump'[e] = PumpIdle
  BY DEF PumpSleep, PumpTo, IInv, TypeOK

\* The message is dropped, or its attempt is the one the loop now works on.
LEMMA HandlerReceiveDoes ==
  ASSUME IInv, NEW e \in Executors, HandlerReceive(e)
  PROVE  /\ handler[e].pc = "idle"
         /\ \A f \in Executors : statuses'[f] \subseteq statuses[f]
         /\ \/ handler'[e] = handler[e]
            \/ \E m \in statuses[e] :
                 /\ attempts[m.attempt.task][m.attempt.n].status \notin TerminalRun
                 /\ handler'[e].pc = "save_run" /\ handler'[e].msg = m
<1>1. handler[e] \in HandlerState /\ handler \in [Executors -> HandlerState]
      /\ statuses \in [Executors -> SUBSET StatusMsg]
  BY DEF IInv, TypeOK
<1>2. PICK m \in statuses[e] :
        /\ statuses' = [statuses EXCEPT ![e] = @ \ {m}]
        /\ HandlerTo(e, IF attempts[m.attempt.task][m.attempt.n].status \in TerminalRun
                        THEN handler[e]
                        ELSE [handler[e] EXCEPT !.pc = "save_run", !.msg = m])
  BY DEF HandlerReceive
<1> DEFINE done == attempts[m.attempt.task][m.attempt.n].status \in TerminalRun
<1>3. handler'[e] = IF done THEN handler[e]
                    ELSE [handler[e] EXCEPT !.pc = "save_run", !.msg = m]
  BY <1>1, <1>2 DEF HandlerTo
<1> HIDE DEF done
<1>4. done => handler'[e] = handler[e]
  BY <1>3
<1>5. ~done => handler'[e].pc = "save_run" /\ handler'[e].msg = m
  BY <1>1, <1>3 DEF HandlerState
<1>6. \A f \in Executors : statuses'[f] \subseteq statuses[f]
  BY <1>1, <1>2
<1> QED
  BY <1>4, <1>5, <1>6 DEF done, HandlerReceive

LEMMA HandlerSaveTaskRunDoes ==
  ASSUME IInv, NEW e \in Executors, HandlerSaveTaskRun(e)
  PROVE  LET m == handler[e].msg
             t == m.attempt.task
             n == m.attempt.n
         IN  /\ handler[e].pc = "save_run" /\ handler'[e].pc = "get_task"
             /\ handler'[e].msg = m
             /\ t \in Task /\ n \in DOMAIN attempts[t]
             /\ \A u \in Task : Len(attempts'[u]) = Len(attempts[u])
             /\ DOMAIN attempts'[t] = DOMAIN attempts[t]
             /\ attempts'[t][n].status = IF m.ok THEN "success" ELSE "failed"
             /\ attempts'[t][n].no = attempts[t][n].no
             /\ \A k \in DOMAIN attempts[t] : k # n => attempts'[t][k] = attempts[t][k]
             /\ \A u \in Task : u # t => attempts'[u] = attempts[u]
<1> DEFINE m == handler[e].msg
           t == m.attempt.task
           n == m.attempt.n
           Row == [status : TaskRunStatus, no : Nat]
           row == [status |-> IF m.ok THEN "success" ELSE "failed", no |-> attempts[t][n].no]
           rows == [attempts[t] EXCEPT ![n] = row]
<1>1. handler[e] \in HandlerState /\ handler[e].pc = "save_run"
      /\ handler \in [Executors -> HandlerState]
  BY DEF IInv, TypeOK, HandlerSaveTaskRun
<1>2. t \in Task /\ n \in DOMAIN attempts[t]
  BY <1>1, CurrentMessage
<1>3. attempts \in [Task -> Seq(Row)]
  BY DEF IInv, TypeOK
<1>4. attempts' = [attempts EXCEPT ![t] = rows]
  BY DEF HandlerSaveTaskRun
<1>5. handler'[e] = [handler[e] EXCEPT !.pc = "get_task"]
  BY <1>1 DEF HandlerSaveTaskRun, HandlerTo
<1>6. handler'[e].pc = "get_task" /\ handler'[e].msg = m
  BY <1>1, <1>5 DEF HandlerState
<1>7. row.status = (IF m.ok THEN "success" ELSE "failed") /\ row.no = attempts[t][n].no
  OBVIOUS
<1>8. row \in Row
  <2> HIDE DEF Row
  <2>1. attempts[t][n] \in Row
    BY <1>2, <1>3
  <2> QED
    BY <2>1 DEF Row, TaskRunStatus
<1> HIDE DEF row, Row, m
<1>9. /\ Len(rows) = Len(attempts[t]) /\ DOMAIN rows = DOMAIN attempts[t]
      /\ rows[n] = row
      /\ \A k \in DOMAIN attempts[t] : k # n => rows[k] = attempts[t][k]
  BY <1>2, <1>3, <1>8, UpdateRow
<1> HIDE DEF rows
<1>10. attempts'[t] = rows /\ \A u \in Task : u # t => attempts'[u] = attempts[u]
  BY <1>2, <1>3, <1>4
<1> QED
  BY <1>1, <1>2, <1>6, <1>7, <1>9, <1>10 DEF m

LEMMA HandlerGetTaskDoes ==
  ASSUME IInv, NEW e \in Executors, HandlerGetTask(e)
  PROVE  LET m == handler[e].msg
         IN  /\ handler[e].pc = "get_task" /\ handler'[e].msg = m
             /\ m.ok => /\ handler'[e].pc = "save_task" /\ handler'[e].next = "success"
                        /\ handler'[e].result = m.sets
             /\ ~m.ok => handler'[e].pc = "list_attempts"
<1> DEFINE m == handler[e].msg
           old == result[m.attempt.task]
<1>1. handler[e] \in HandlerState /\ handler[e].pc = "get_task"
      /\ handler \in [Executors -> HandlerState]
  BY DEF IInv, TypeOK, HandlerGetTask
<1>2. handler'[e] = IF m.ok
                    THEN [handler[e] EXCEPT !.pc = "save_task", !.next = "success",
                                            !.result = m.sets]
                    ELSE [handler[e] EXCEPT !.pc = "list_attempts", !.result = old]
  BY <1>1 DEF HandlerGetTask, HandlerTo
<1> HIDE DEF old
<1> QED
  BY <1>1, <1>2 DEF HandlerState

LEMMA HandlerListAttemptsDoes ==
  ASSUME IInv, NEW e \in Executors, HandlerListAttempts(e)
  PROVE  LET made == Len(attempts[handler[e].msg.attempt.task])
         IN  /\ handler[e].pc = "list_attempts" /\ handler'[e].pc = "save_task"
             /\ handler'[e].msg = handler[e].msg
             /\ \/ handler'[e].next = "pending" /\ made < MaxAttempts
                \/ handler'[e].next = "failed"
<1> DEFINE made == Len(attempts[handler[e].msg.attempt.task])
           again == ShouldRetry(made, MaxAttempts)
<1>1. handler[e] \in HandlerState /\ handler[e].pc = "list_attempts"
      /\ handler \in [Executors -> HandlerState]
  BY DEF IInv, TypeOK, HandlerListAttempts
<1>2. handler'[e] = IF again THEN [handler[e] EXCEPT !.pc = "save_task", !.next = "pending"]
                    ELSE [handler[e] EXCEPT !.pc = "save_task", !.next = "failed", !.result = 0]
  BY <1>1 DEF HandlerListAttempts, HandlerTo
<1>3. again => made < MaxAttempts
  BY DEF ShouldRetry
<1> HIDE DEF again, made
<1> QED
  BY <1>1, <1>2, <1>3 DEF HandlerState, made

LEMMA HandlerSaveTaskDoes ==
  ASSUME IInv, NEW e \in Executors, HandlerSaveTask(e)
  PROVE  LET m == handler[e].msg
             t == m.attempt.task
         IN  /\ handler[e].pc = "save_task" /\ t \in Task /\ m.sets \in Nat
             /\ handler[e].next \in {"success", "pending", "failed"}
             /\ \A u \in Task : task'[u] = IF u = t THEN handler[e].next ELSE task[u]
             /\ \A u \in Task : result'[u] = IF u = t THEN handler[e].result ELSE result[u]
             /\ handler'[e].pc = IF m.sets > 0 THEN "fan_out" ELSE "get_dag"
             /\ handler'[e].left = m.sets /\ handler'[e].msg = m
<1> DEFINE m == handler[e].msg
           t == m.attempt.task
           pc == IF m.sets > 0 THEN "fan_out" ELSE "get_dag"
<1>1. handler[e] \in HandlerState /\ handler[e].pc = "save_task"
      /\ handler \in [Executors -> HandlerState]
  BY DEF IInv, TypeOK, HandlerSaveTask
<1>2. t \in Task /\ m.sets \in Nat
  BY <1>1, CurrentMessage DEF StatusMsg
<1>3. handler'[e] = [handler[e] EXCEPT !.pc = pc, !.left = m.sets]
  BY <1>1 DEF HandlerSaveTask, HandlerTo
<1>4. \A u \in Task : /\ task'[u] = IF u = t THEN handler[e].next ELSE task[u]
                      /\ result'[u] = IF u = t THEN handler[e].result ELSE result[u]
  BY <1>2 DEF HandlerSaveTask, IInv, TypeOK
<1>5. handler[e].next \in {"success", "pending", "failed"}
  BY <1>1 DEF HandlerState
<1> HIDE DEF pc
<1>6. handler'[e].pc = pc /\ handler'[e].left = m.sets /\ handler'[e].msg = m
  BY <1>1, <1>3 DEF HandlerState
<1> QED
  BY <1>1, <1>2, <1>4, <1>5, <1>6 DEF pc

LEMMA HandlerFanOutDoes ==
  ASSUME IInv, NEW e \in Executors, HandlerFanOut(e)
  PROVE  LET r == handler[e].msg.attempt.task.run
         IN  /\ handler[e].pc = "fan_out" /\ r \in Runs
             /\ \E c \in 1..MaxFanOut :
                  /\ task[EmbedTask(r, c)] = Absent
                  /\ \A u \in Task : task'[u] = IF u = EmbedTask(r, c) THEN "pending" ELSE task[u]
                  /\ \A u \in Task : result'[u] = IF u = EmbedTask(r, c) THEN 0 ELSE result[u]
             /\ handler[e].left \in Nat \ {0} /\ handler'[e].left = handler[e].left - 1
             /\ handler'[e].pc = IF handler'[e].left > 0 THEN "fan_out" ELSE "get_dag"
             /\ handler'[e].msg = handler[e].msg
<1> DEFINE r == handler[e].msg.attempt.task.run
           left == handler[e].left - 1
           pc == IF left > 0 THEN "fan_out" ELSE "get_dag"
<1>1. handler[e] \in HandlerState /\ HandlerOK(handler[e]) /\ handler[e].pc = "fan_out"
      /\ handler \in [Executors -> HandlerState]
  BY DEF IInv, TypeOK, HandlerFanOut
<1>2. r \in Runs
  BY <1>1, CurrentMessage
<1>3. PICK c \in 1..MaxFanOut : IsFreshEmbed(r, c) /\ InsertTask(EmbedTask(r, c))
  BY DEF HandlerFanOut
<1>4. handler'[e] = [handler[e] EXCEPT !.pc = pc, !.left = left]
  BY <1>1 DEF HandlerFanOut, HandlerTo
<1>5. handler[e].left \in Nat \ {0}
  BY <1>1 DEF HandlerState, HandlerOK
<1> HIDE DEF pc, left
<1>6. handler'[e].pc = pc /\ handler'[e].left = left /\ handler'[e].msg = handler[e].msg
  BY <1>1, <1>4 DEF HandlerState
<1> DEFINE t == EmbedTask(r, c)
<1>7. t \in Task
  BY <1>2, EmbedTaskType
<1>8. task[t] = Absent /\ InsertTask(t)
  BY <1>3 DEF IsFreshEmbed
<1> HIDE DEF t
<1>9. \A u \in Task : /\ task'[u] = IF u = t THEN "pending" ELSE task[u]
                      /\ result'[u] = IF u = t THEN 0 ELSE result[u]
  BY <1>7, <1>8 DEF InsertTask, IInv, TypeOK
<1> QED
  BY <1>1, <1>2, <1>5, <1>6, <1>8, <1>9 DEF pc, left, t

LEMMA HandlerGetDagDoes ==
  ASSUME IInv, NEW e \in Executors, HandlerGetDag(e)
  PROVE  /\ handler[e].pc = "get_dag" /\ handler'[e].pc = "list_tasks"
         /\ handler'[e].dag = dagRun[handler[e].msg.attempt.task.run]
         /\ handler'[e].msg = handler[e].msg
<1> DEFINE d == dagRun[handler[e].msg.attempt.task.run]
<1>1. handler[e] \in HandlerState /\ handler[e].pc = "get_dag"
      /\ handler \in [Executors -> HandlerState]
  BY DEF IInv, TypeOK, HandlerGetDag
<1>2. handler'[e] = [handler[e] EXCEPT !.pc = "list_tasks", !.dag = d]
  BY <1>1 DEF HandlerGetDag, HandlerTo
<1> HIDE DEF d
<1>3. handler'[e].pc = "list_tasks" /\ handler'[e].dag = d /\ handler'[e].msg = handler[e].msg
  BY <1>1, <1>2 DEF HandlerState
<1> QED
  BY <1>1, <1>3 DEF d

LEMMA HandlerListTasksDoes ==
  ASSUME IInv, NEW e \in Executors, HandlerListTasks(e)
  PROVE  LET r == handler[e].msg.attempt.task.run
         IN  /\ handler[e].pc = "list_tasks"
             /\ \/ handler'[e] = HandlerIdle /\ handler[e].dag = Derived(r)
                \/ /\ handler'[e].pc = "save_dag" /\ handler'[e].dag = Derived(r)
                   /\ handler'[e].msg = handler[e].msg
<1> DEFINE d == Derived(handler[e].msg.attempt.task.run)
<1>1. handler[e] \in HandlerState /\ handler[e].pc = "list_tasks"
      /\ handler \in [Executors -> HandlerState]
  BY DEF IInv, TypeOK, HandlerListTasks
<1>2. handler'[e] = IF d = handler[e].dag THEN HandlerIdle
                    ELSE [handler[e] EXCEPT !.pc = "save_dag", !.dag = d]
  BY <1>1 DEF HandlerListTasks, HandlerTo, Derived
<1> HIDE DEF d
<1>3. \/ handler'[e] = HandlerIdle /\ handler[e].dag = d
      \/ handler'[e].pc = "save_dag" /\ handler'[e].dag = d /\ handler'[e].msg = handler[e].msg
  BY <1>1, <1>2 DEF HandlerState
<1> QED
  BY <1>1, <1>3 DEF d

LEMMA HandlerSaveDagDoes ==
  ASSUME IInv, NEW e \in Executors, HandlerSaveDag(e)
  PROVE  LET r == handler[e].msg.attempt.task.run
         IN  /\ handler[e].pc = "save_dag" /\ handler'[e] = HandlerIdle /\ r \in Runs
             /\ \A q \in Runs : dagRun'[q] = IF q = r THEN handler[e].dag ELSE dagRun[q]
<1> DEFINE r == handler[e].msg.attempt.task.run
<1>1. handler[e].pc = "save_dag" /\ handler \in [Executors -> HandlerState]
  BY DEF IInv, TypeOK, HandlerSaveDag
<1>2. r \in Runs
  BY <1>1, CurrentMessage
<1>3. handler'[e] = HandlerIdle
  BY <1>1 DEF HandlerSaveDag, HandlerTo
<1>4. \A q \in Runs : dagRun'[q] = IF q = r THEN handler[e].dag ELSE dagRun[q]
  BY <1>2 DEF HandlerSaveDag, IInv, TypeOK
<1> QED
  BY <1>1, <1>2, <1>3, <1>4

LEMMA PlannerSaveRunDoes ==
  ASSUME IInv, NEW r \in Runs, PlannerSaveRun(r)
  PROVE  /\ planned[r] = 0
         /\ \A q \in Runs : planned'[q] = IF q = r THEN 1 ELSE planned[q]
         /\ \A q \in Runs : dagRun'[q] = IF q = r THEN "created" ELSE dagRun[q]
  BY DEF PlannerSaveRun, IInv, TypeOK

LEMMA PlannerSaveTaskDoes ==
  ASSUME IInv, NEW r \in Runs, PlannerSaveTask(r)
  PROVE  LET t == PlannedTask(r, planned[r])
         IN  /\ planned[r] \in 1..Len(Profile) /\ t \in Task
             /\ \A q \in Runs : planned'[q] = IF q = r THEN planned[r] + 1 ELSE planned[q]
             /\ \A u \in Task : task'[u] = IF u = t THEN "pending" ELSE task[u]
             /\ \A u \in Task : result'[u] = IF u = t THEN 0 ELSE result[u]
<1> DEFINE t == PlannedTask(r, planned[r])
<1>1. planned[r] \in 1..Len(Profile) /\ InsertTask(t)
  BY DEF PlannerSaveTask
<1>2. t \in Task
  BY <1>1, PlannedTaskType
<1>3. \A q \in Runs : planned'[q] = IF q = r THEN planned[r] + 1 ELSE planned[q]
  BY DEF PlannerSaveTask, IInv, TypeOK
<1> HIDE DEF t
<1>4. \A u \in Task : /\ task'[u] = IF u = t THEN "pending" ELSE task[u]
                      /\ result'[u] = IF u = t THEN 0 ELSE result[u]
  BY <1>1, <1>2 DEF InsertTask, IInv, TypeOK
<1> QED
  BY <1>1, <1>2, <1>3, <1>4 DEF t

\* A new status names the attempt of the request it answers.
LEMMA WorkerAnswerDoes ==
  ASSUME IInv, NEW q \in requests, WorkerAnswer(q)
  PROVE  /\ requests' \subseteq requests
         /\ \A f \in Executors : \A m \in statuses'[f] :
              m \in statuses[f] \/ (m.attempt = q.attempt /\ SetsFromChunker(m))
<1>1. PICK a \in Answers(q.attempt.task.kind) :
        statuses' = [f \in Executors |->
                       IF f \notin up THEN statuses[f]
                       ELSE statuses[f] \cup {[attempt |-> q.attempt, worker |-> q.worker,
                                               ok |-> a.ok, sets |-> a.sets]}]
  BY DEF WorkerAnswer
<1> DEFINE new == [attempt |-> q.attempt, worker |-> q.worker, ok |-> a.ok, sets |-> a.sets]
<1>2. a.sets > 0 => a.ok /\ q.attempt.task.kind = "chunker"
  <2> DEFINE kind == q.attempt.task.kind
             counts == IF kind = "chunker" THEN ChunkSetCounts ELSE {0}
  <2>1. \/ \E n \in counts : a = [ok |-> TRUE, sets |-> n]
        \/ a = [ok |-> FALSE, sets |-> 0]
    BY DEF Answers
  <2>2. kind # "chunker" => counts = {0}
    OBVIOUS
  <2> HIDE DEF counts
  <2>3. CASE \E n \in counts : a = [ok |-> TRUE, sets |-> n]
    BY <2>2, <2>3
  <2>4. CASE a = [ok |-> FALSE, sets |-> 0]
    BY <2>4
  <2> QED
    BY <2>1, <2>3, <2>4
<1>3. new.attempt = q.attempt /\ SetsFromChunker(new)
  BY <1>2 DEF SetsFromChunker
<1> HIDE DEF new
<1>4. \A f \in Executors : \A m \in statuses'[f] : m \in statuses[f] \/ m = new
  BY <1>1 DEF new
<1> QED
  BY <1>3, <1>4 DEF WorkerAnswer

LEMMA ExecutorCrashDoes ==
  ASSUME IInv, NEW e \in Executors, ExecutorCrash(e)
  PROVE  /\ pump'[e] = PumpIdle /\ handler'[e] = HandlerIdle
         /\ \A f \in Executors : statuses'[f] \subseteq statuses[f]
         /\ crashes' = crashes + 1 /\ MaxCrashes > 0 /\ crashes \in Nat
<1>1. pump'[e] = PumpIdle /\ handler'[e] = HandlerIdle
  BY DEF ExecutorCrash, PumpTo, HandlerTo, IInv, TypeOK
<1>2. \A f \in Executors : statuses'[f] \subseteq statuses[f]
  BY DEF ExecutorCrash, IInv, TypeOK
<1>3. crashes' = crashes + 1 /\ MaxCrashes > 0 /\ crashes \in Nat
  BY BoundsAssumption DEF ExecutorCrash, IInv, TypeOK
<1> QED
  BY <1>1, <1>2, <1>3

-----------------------------------------------------------------------------
(* Which steps write which rows.                                           *)

LEMMA TaskSteps ==
  ASSUME [Next]_vars
  PROVE  \/ UNCHANGED <<task, result, planned>>
         \/ \E r \in Runs : PlannerSaveRun(r) \/ PlannerSaveTask(r)
         \/ \E e \in Executors : PumpSaveTask(e) \/ HandlerSaveTask(e) \/ HandlerFanOut(e)
<1> USE DEF dbVars, planVars
<1>1. ASSUME NEW r \in Runs, PlannerCrash(r) PROVE UNCHANGED <<task, result, planned>>
  BY <1>1 DEF PlannerCrash
<1>2. ASSUME NEW e \in Executors, Pump(e), ~PumpSaveTask(e)
      PROVE  UNCHANGED <<task, result, planned>>
  BY <1>2 DEF Pump, PumpList, PumpConsider, PumpCountAttempts, PumpSaveTaskRun,
              PumpGetDag, PumpSaveDag, PumpPublish, PumpSleep
<1>3. ASSUME NEW e \in Executors, Handler(e), ~HandlerSaveTask(e), ~HandlerFanOut(e)
      PROVE  UNCHANGED <<task, result, planned>>
  BY <1>3 DEF Handler, HandlerReceive, HandlerSaveTaskRun, HandlerGetTask,
              HandlerListAttempts, HandlerGetDag, HandlerListTasks, HandlerSaveDag
<1>4. ASSUME NEW e \in Executors, ExecutorCrash(e) \/ ExecutorStart(e)
      PROVE  UNCHANGED <<task, result, planned>>
  BY <1>4 DEF ExecutorCrash, ExecutorStart
<1>5. ASSUME NEW q \in requests, WorkerAnswer(q) \/ WorkerLose(q)
      PROVE  UNCHANGED <<task, result, planned>>
  BY <1>5 DEF WorkerAnswer, WorkerLose
<1>6. CASE UNCHANGED vars
  BY <1>6 DEF vars
<1> QED
  BY <1>1, <1>2, <1>3, <1>4, <1>5, <1>6 DEF Next, Planner

LEMMA AttemptSteps ==
  ASSUME [Next]_vars
  PROVE  \/ UNCHANGED attempts
         \/ \E e \in Executors : PumpSaveTaskRun(e) \/ HandlerSaveTaskRun(e)
<1> USE DEF dbVars
<1>1. ASSUME NEW r \in Runs, Planner(r) \/ PlannerCrash(r) PROVE UNCHANGED attempts
  BY <1>1 DEF Planner, PlannerSaveRun, PlannerSaveTask, PlannerCrash
<1>2. ASSUME NEW e \in Executors, Pump(e), ~PumpSaveTaskRun(e) PROVE UNCHANGED attempts
  BY <1>2 DEF Pump, PumpList, PumpConsider, PumpCountAttempts, PumpSaveTask,
              PumpGetDag, PumpSaveDag, PumpPublish, PumpSleep
<1>3. ASSUME NEW e \in Executors, Handler(e), ~HandlerSaveTaskRun(e) PROVE UNCHANGED attempts
  BY <1>3 DEF Handler, HandlerReceive, HandlerSaveTask, HandlerGetTask, HandlerFanOut,
              HandlerListAttempts, HandlerGetDag, HandlerListTasks, HandlerSaveDag
<1>4. ASSUME NEW e \in Executors, ExecutorCrash(e) \/ ExecutorStart(e) PROVE UNCHANGED attempts
  BY <1>4 DEF ExecutorCrash, ExecutorStart
<1>5. ASSUME NEW q \in requests, WorkerAnswer(q) \/ WorkerLose(q) PROVE UNCHANGED attempts
  BY <1>5 DEF WorkerAnswer, WorkerLose
<1>6. CASE UNCHANGED vars
  BY <1>6 DEF vars
<1> QED
  BY <1>1, <1>2, <1>3, <1>4, <1>5, <1>6 DEF Next

-----------------------------------------------------------------------------
(* The planner saves the tasks of a profile in its order, and no one else  *)
(* saves a first copy.                                                     *)

LEMMA PlannedTaskInjective ==
  ASSUME NEW q \in Runs, NEW r \in Runs, NEW i \in 1..Len(Profile), NEW j \in 1..Len(Profile),
         PlannedTask(q, i) = PlannedTask(r, j)
  PROVE  q = r /\ i = j
  BY ProfileAssumption DEF PlannedTask

\* Steps that insert no first copy.
LEMMA PlanKept ==
  ASSUME IInv, PlanSaved, UNCHANGED planned,
         \A t \in Task : t.copy = 0 => (task'[t] = Absent <=> task[t] = Absent)
  PROVE  PlanSaved'
<1>1. ASSUME NEW r \in Runs, NEW i \in 1..Len(Profile)
      PROVE  task'[PlannedTask(r, i)] # Absent <=> i < planned'[r]
  <2>1. PlannedTask(r, i) \in Task /\ PlannedTask(r, i).copy = 0
    BY PlannedTaskType DEF PlannedTask
  <2> QED
    BY <2>1 DEF PlanSaved
<1> QED
  BY <1>1 DEF PlanSaved

LEMMA InitPlan == Init => PlanSaved
<1> SUFFICES ASSUME Init PROVE PlanSaved
  OBVIOUS
<1>1. ASSUME NEW r \in Runs, NEW i \in 1..Len(Profile)
      PROVE  task[PlannedTask(r, i)] # Absent <=> i < planned[r]
  <2>1. PlannedTask(r, i) \in Task
    BY PlannedTaskType
  <2>2. DOMAIN Profile = 1..Len(Profile) /\ Len(Profile) \in Nat
    BY ProfileAssumption
  <2>3. CASE r \in PlannedAtStart
    <3>1. PlannedTask(r, i) \in PlannedTasks
      BY <2>2, <2>3 DEF PlannedTasks
    <3>2. task[PlannedTask(r, i)] = "pending" /\ planned[r] = Len(Profile) + 1
      BY <2>1, <2>3, <3>1 DEF Init
    <3>3. i < Len(Profile) + 1
      BY <2>2
    <3> QED
      BY <3>2, <3>3 DEF Absent
  <2>4. CASE r \notin PlannedAtStart
    <3>1. PlannedTask(r, i) \notin PlannedTasks
      <4> SUFFICES ASSUME PlannedTask(r, i) \in PlannedTasks PROVE FALSE
        OBVIOUS
      <4>1. PICK q \in PlannedAtStart, j \in DOMAIN Profile : PlannedTask(r, i) = PlannedTask(q, j)
        BY DEF PlannedTasks
      <4>2. PlannedTask(r, i).run = r /\ PlannedTask(q, j).run = q
        BY DEF PlannedTask
      <4> QED
        BY <2>4, <4>1, <4>2
    <3> QED
      BY <2>1, <2>4, <3>1 DEF Init, Absent
  <2> QED
    BY <2>3, <2>4
<1>2. ASSUME NEW t \in Task, t.copy = 0, task[t] # Absent
      PROVE  \E i \in 1..Len(Profile) : Profile[i] = t.kind
  <2>1. t \in PlannedTasks
    BY <1>2 DEF Init
  <2> QED
    BY <2>1, ProfileAssumption DEF PlannedTasks, PlannedTask
<1> QED
  BY <1>1, <1>2 DEF PlanSaved

LEMMA PlannerSaveTaskPlan ==
  ASSUME IInv, PlanSaved, NEW r \in Runs, PlannerSaveTask(r)
  PROVE  PlanSaved' /\ task[PlannedTask(r, planned[r])] = Absent
<1> DEFINE k == planned[r]
<1>1. /\ k \in 1..Len(Profile) /\ PlannedTask(r, k) \in Task
      /\ \A q \in Runs : planned'[q] = IF q = r THEN k + 1 ELSE planned[q]
      /\ \A u \in Task : task'[u] = IF u = PlannedTask(r, k) THEN "pending" ELSE task[u]
  BY PlannerSaveTaskDoes
<1> HIDE DEF k
<1>2. ASSUME NEW q \in Runs, NEW i \in 1..Len(Profile)
      PROVE  task'[PlannedTask(q, i)] # Absent <=> i < planned'[q]
  <2>1. PlannedTask(q, i) \in Task /\ (task[PlannedTask(q, i)] # Absent <=> i < planned[q])
    BY PlannedTaskType DEF PlanSaved
  <2>2. CASE q = r /\ i = k
    BY <1>1, <2>2 DEF Absent
  <2>3. CASE ~(q = r /\ i = k)
    <3>1. task'[PlannedTask(q, i)] = task[PlannedTask(q, i)]
      BY <1>1, <2>1, <2>3, PlannedTaskInjective
    <3>2. i < planned[q] <=> i < planned'[q]
      BY <1>1, <2>3, ProfileAssumption DEF k
    <3> QED
      BY <2>1, <3>1, <3>2
  <2> QED
    BY <2>2, <2>3
<1>3. ASSUME NEW t \in Task, t.copy = 0, task'[t] # Absent
      PROVE  \E i \in 1..Len(Profile) : Profile[i] = t.kind
  BY <1>1, <1>3 DEF PlanSaved, PlannedTask
<1>4. task[PlannedTask(r, k)] = Absent
  BY <1>1 DEF PlanSaved, k
<1> QED
  BY <1>2, <1>3, <1>4 DEF PlanSaved, k

LEMMA StepPlan == IInv /\ PlanSaved /\ [Next]_vars => PlanSaved'
<1> SUFFICES ASSUME IInv, PlanSaved, [Next]_vars PROVE PlanSaved'
  OBVIOUS
<1>1. ASSUME NEW r \in Runs, PlannerSaveRun(r) PROVE PlanSaved'
  <2>1. planned[r] = 0 /\ planned'[r] = 1 /\ \A q \in Runs : q # r => planned'[q] = planned[q]
    BY <1>1, PlannerSaveRunDoes
  <2>2. task' = task
    BY <1>1 DEF PlannerSaveRun
  <2>3. \A i \in 1..Len(Profile) : ~(i < 0) /\ ~(i < 1)
    BY ProfileAssumption
  <2>4. ASSUME NEW q \in Runs, NEW i \in 1..Len(Profile)
        PROVE  task'[PlannedTask(q, i)] # Absent <=> i < planned'[q]
    BY <2>1, <2>2, <2>3 DEF PlanSaved
  <2> QED
    BY <2>2, <2>4 DEF PlanSaved
<1>2. ASSUME NEW r \in Runs, PlannerSaveTask(r) PROVE PlanSaved'
  BY <1>2, PlannerSaveTaskPlan
<1>3. ASSUME NEW e \in Executors, PumpSaveTask(e) PROVE PlanSaved'
  <2>1. UNCHANGED planned /\ task[pump[e].cur] # Absent
    BY <1>3, CurrentRow DEF PumpSaveTask, planVars
  <2>2. \A u \in Task : task'[u] = Absent <=> task[u] = Absent
    BY <1>3, <2>1, PumpSaveTaskDoes DEF Absent
  <2> QED
    BY <2>1, <2>2, PlanKept
<1>4. ASSUME NEW e \in Executors, HandlerSaveTask(e) PROVE PlanSaved'
  <2>1. UNCHANGED planned /\ task[handler[e].msg.attempt.task] # Absent
    BY <1>4, CurrentMessage DEF HandlerSaveTask, planVars
  <2>2. \A u \in Task : task'[u] = Absent <=> task[u] = Absent
    BY <1>4, <2>1, HandlerSaveTaskDoes DEF Absent
  <2> QED
    BY <2>1, <2>2, PlanKept
<1>5. ASSUME NEW e \in Executors, HandlerFanOut(e) PROVE PlanSaved'
  <2>1. UNCHANGED planned
    BY <1>5 DEF HandlerFanOut, planVars
  <2>2. PICK c \in 1..MaxFanOut :
          LET s == EmbedTask(handler[e].msg.attempt.task.run, c)
          IN  \A u \in Task : task'[u] = IF u = s THEN "pending" ELSE task[u]
    BY <1>5, HandlerFanOutDoes
  <2>3. EmbedTask(handler[e].msg.attempt.task.run, c).copy = c /\ c # 0
    BY DEF EmbedTask
  <2>4. \A u \in Task : u.copy = 0 => task'[u] = task[u]
    BY <2>2, <2>3
  <2> QED
    BY <2>1, <2>4, PlanKept
<1>6. CASE UNCHANGED <<task, planned>>
  BY <1>6, PlanKept
<1> QED
  BY <1>1, <1>2, <1>3, <1>4, <1>5, <1>6, TaskSteps

-----------------------------------------------------------------------------
(* Ownership is an invariant.                                              *)

\* What a step leaves alone: answers stay answers, the pending tasks of a scan
\* stay pending with the attempts they have, and a running task and its
\* attempts stay as they are.
AnswersStay == \A a \in Attempt : Saved(a) /\ Answerable(a) => Answerable(a)'
PendingStay == \A t \in Task : task[t] = "pending" =>
                 task'[t] = "pending" /\ Len(attempts'[t]) = Len(attempts[t])
RunningStay == \A t \in Task : task[t] = "running" =>
                 task'[t] = "running" /\ attempts'[t] = attempts[t]

LEMMA RowsKept ==
  ASSUME UNCHANGED <<task, attempts>>
  PROVE  AnswersStay /\ PendingStay /\ RunningStay /\ (RowsOwned => RowsOwned')
  BY DEF AnswersStay, PendingStay, RunningStay, RowsOwned, Answerable, Done, Current

LEMMA NetOwnedStays ==
  ASSUME IInv, NetOwned, AnswersStay, requests' \subseteq requests,
         \A f \in Executors : statuses'[f] \subseteq statuses[f]
  PROVE  NetOwned'
<1>1. ASSUME NEW q \in requests' PROVE Answerable(q.attempt)'
  <2>1. q \in requests /\ q.attempt \in Attempt
    BY <1>1 DEF IInv, TypeOK
  <2>2. Saved(q.attempt) /\ Answerable(q.attempt)
    BY <2>1 DEF IInv, NetOK, NetOwned
  <2> QED
    BY <2>1, <2>2 DEF AnswersStay
<1>2. ASSUME NEW f \in Executors, NEW m \in statuses'[f] PROVE Answerable(m.attempt)'
  <2>1. m \in statuses[f] /\ m \in StatusMsg
    BY <1>2 DEF IInv, TypeOK
  <2>2. m.attempt \in Attempt /\ Saved(m.attempt) /\ Answerable(m.attempt)
    BY <2>1 DEF IInv, NetOK, NetOwned, StatusMsg
  <2> QED
    BY <2>2 DEF AnswersStay
<1> QED
  BY <1>1, <1>2 DEF NetOwned

LEMMA PumpOwnsStays ==
  ASSUME IInv, NEW e \in Executors, PumpOwns(pump[e]), pump'[e] = pump[e],
         AnswersStay, PendingStay
  PROVE  PumpOwns(pump[e])'
<1> DEFINE p == pump[e]
<1>1. p \in PumpState /\ PumpOK(p)
  BY RecordOfLoop
<1>2. \A t \in p.todo : task'[t] = "pending"
  BY <1>1 DEF PumpOwns, PumpState, PendingStay
<1>3. p.pc \in {"attempts", "save_run", "save_task"} => p.cur \in Task /\ task[p.cur] = "pending"
  BY <1>1 DEF PumpOwns, PumpState, PumpOK
<1>4. p.pc \in {"attempts", "save_run", "save_task"}
        => task'[p.cur] = "pending" /\ Len(attempts'[p.cur]) = Len(attempts[p.cur])
  BY <1>3 DEF PendingStay
<1>5. ASSUME NEW i \in DOMAIN p.ready, ~(p.pc = "save_task" /\ i = Len(p.ready))
      PROVE  \E a \in Attempt : a = p.ready[i] /\ Answerable(a)'
  <2>1. p.ready[i] \in Attempt /\ Saved(p.ready[i]) /\ Answerable(p.ready[i])
    BY <1>1, <1>5 DEF PumpOwns, PumpState, PumpOK
  <2> QED
    BY <2>1 DEF AnswersStay
<1>6. \A i \in DOMAIN p.ready : ~(p.pc = "save_task" /\ i = Len(p.ready)) =>
        \/ attempts'[p.ready[i].task][p.ready[i].n].status \in TerminalRun
        \/ p.ready[i].n = Len(attempts'[p.ready[i].task]) /\ task'[p.ready[i].task] = "running"
  BY <1>5 DEF Answerable, Done, Current
<1>7. PumpOwns(p)
  OBVIOUS
<1> HIDE DEF p
<1>8. pump'[e] = p
  BY DEF p
<1> QED
  BY <1>2, <1>4, <1>6, <1>7, <1>8 DEF PumpOwns, Answerable, Done, Current

LEMMA HandlerOwnsStays ==
  ASSUME IInv, NEW e \in Executors, HandlerOwns(handler[e]), handler'[e] = handler[e], RunningStay
  PROVE  HandlerOwns(handler[e])'
<1>1. CASE handler[e].pc \in {"save_run", "get_task", "list_attempts", "save_task"}
  <2> DEFINE h == handler[e]
             a == h.msg.attempt
  <2>1. a.task \in Task /\ task[a.task] = "running"
    BY <1>1, CurrentMessage DEF HandlerOwns, Current
  <2>2. task'[a.task] = "running" /\ attempts'[a.task] = attempts[a.task]
    BY <2>1 DEF RunningStay
  <2>3. HandlerOwns(h)
    OBVIOUS
  <2> HIDE DEF h
  <2>4. handler'[e] = h
    BY DEF h
  <2> QED
    BY <2>2, <2>3, <2>4 DEF HandlerOwns, Done, Current
<1>2. CASE handler[e].pc \notin {"save_run", "get_task", "list_attempts", "save_task"}
  BY <1>2 DEF HandlerOwns
<1> QED
  BY <1>1, <1>2

LEMMA OwnedAfterPump ==
  ASSUME OneExecutor, IInv, Owned, NEW e \in Executors, RowsOwned', NetOwned',
         RunningStay, UNCHANGED handler, PumpOwns(pump[e])'
  PROVE  Owned'
<1>1. ASSUME NEW f \in Executors PROVE PumpOwns(pump[f])' /\ HandlerOwns(handler[f])'
  <2>1. f = e
    BY DEF OneExecutor
  <2>2. HandlerOwns(handler[f])'
    BY HandlerOwnsStays DEF Owned
  <2> QED
    BY <2>1, <2>2
<1> QED
  BY <1>1 DEF Owned

LEMMA OwnedAfterHandler ==
  ASSUME OneExecutor, IInv, Owned, NEW e \in Executors, RowsOwned', NetOwned',
         AnswersStay, PendingStay, UNCHANGED pump, HandlerOwns(handler[e])'
  PROVE  Owned'
<1>1. ASSUME NEW f \in Executors PROVE PumpOwns(pump[f])' /\ HandlerOwns(handler[f])'
  <2>1. f = e
    BY DEF OneExecutor
  <2>2. PumpOwns(pump[f])'
    BY PumpOwnsStays DEF Owned
  <2> QED
    BY <2>1, <2>2
<1> QED
  BY <1>1 DEF Owned

\* A step outside the loops that writes no attempt and only inserts tasks.
LEMMA OwnedAfterOutside ==
  ASSUME IInv, Owned, RowsOwned', NetOwned', AnswersStay, PendingStay, RunningStay,
         UNCHANGED <<pump, handler>>
  PROVE  Owned'
<1>1. ASSUME NEW f \in Executors PROVE PumpOwns(pump[f])' /\ HandlerOwns(handler[f])'
  BY PumpOwnsStays, HandlerOwnsStays DEF Owned
<1> QED
  BY <1>1 DEF Owned

\* The insertion of an absent task.
LEMMA InsertOwned ==
  ASSUME IInv, RowsOwned, NEW t \in Task, task[t] = Absent, UNCHANGED attempts,
         \A u \in Task : task'[u] = IF u = t THEN "pending" ELSE task[u]
  PROVE  RowsOwned' /\ AnswersStay /\ PendingStay /\ RunningStay
<1>1. RowsOwned'
  BY DEF RowsOwned
<1>2. PendingStay /\ RunningStay
  BY DEF PendingStay, RunningStay, Absent
<1>3. AnswersStay
  <2> SUFFICES ASSUME NEW a \in Attempt, Answerable(a) PROVE Answerable(a)'
    BY DEF AnswersStay
  <2>1. a.task \in Task
    BY DEF Attempt
  <2> QED
    BY <2>1 DEF Answerable, Done, Current, Absent
<1> QED
  BY <1>1, <1>2, <1>3

LEMMA IdleOwns == PumpOwns(PumpIdle) /\ HandlerOwns(HandlerIdle)
  BY DEF PumpOwns, HandlerOwns, PumpIdle, HandlerIdle

LEMMA InitOwned == Init => Owned
<1> SUFFICES ASSUME Init PROVE Owned
  OBVIOUS
<1>1. RowsOwned
  BY DEF Init, RowsOwned, Absent
<1>2. NetOwned
  BY DEF Init, NetOwned
<1> QED
  BY <1>1, <1>2, IdleOwns DEF Init, Owned

LEMMA PumpListOwned ==
  ASSUME OneExecutor, IInv, Owned, NEW e \in Executors, PumpList(e) PROVE Owned'
<1>1. UNCHANGED <<task, attempts, requests, statuses, handler>>
  BY DEF PumpList, dbVars, netVars
<1>2. RowsOwned' /\ NetOwned' /\ RunningStay
  BY <1>1, RowsKept, NetOwnedStays DEF Owned
<1>3. PumpOwns(pump[e]) /\ \A t \in ListPending : task[t] = "pending"
  BY DEF Owned, ListPending
<1>4. PumpOwns(pump[e])'
  BY <1>1, <1>3, PumpListDoes DEF PumpOwns, Answerable, Done, Current
<1> QED
  BY <1>1, <1>2, <1>4, OwnedAfterPump

LEMMA PumpConsiderOwned ==
  ASSUME OneExecutor, IInv, Owned, NEW e \in Executors, PumpConsider(e) PROVE Owned'
<1>1. UNCHANGED <<task, attempts, requests, statuses, handler>>
  BY DEF PumpConsider, dbVars, netVars
<1>2. RowsOwned' /\ NetOwned' /\ RunningStay
  BY <1>1, RowsKept, NetOwnedStays DEF Owned
<1>3. PumpOwns(pump[e])
  BY DEF Owned
<1>4. PICK t \in pump[e].todo :
        /\ pump[e].pc = "scan" /\ pump'[e].todo = pump[e].todo \ {t}
        /\ pump'[e].ready = pump[e].ready
        /\ \/ pump'[e].pc = "attempts" /\ pump'[e].cur = t
           \/ pump'[e].pc = "scan"
  BY PumpConsiderDoes
<1>5. PumpOwns(pump[e])'
  BY <1>1, <1>3, <1>4 DEF PumpOwns, Answerable, Done, Current
<1> QED
  BY <1>1, <1>2, <1>5, OwnedAfterPump

LEMMA PumpCountAttemptsOwned ==
  ASSUME OneExecutor, IInv, Owned, NEW e \in Executors, PumpCountAttempts(e) PROVE Owned'
<1>1. UNCHANGED <<task, attempts, requests, statuses, handler>>
  BY DEF PumpCountAttempts, dbVars, netVars
<1>2. RowsOwned' /\ NetOwned' /\ RunningStay
  BY <1>1, RowsKept, NetOwnedStays DEF Owned
<1>3. PumpOwns(pump[e])
  BY DEF Owned
<1>4. PumpOwns(pump[e])'
  BY <1>1, <1>3, PumpCountAttemptsDoes DEF PumpOwns, Answerable, Done, Current
<1> QED
  BY <1>1, <1>2, <1>4, OwnedAfterPump

LEMMA PumpGetDagOwned ==
  ASSUME OneExecutor, IInv, Owned, NEW e \in Executors, PumpGetDag(e) PROVE Owned'
<1>1. UNCHANGED <<task, attempts, requests, statuses, handler>>
  BY DEF PumpGetDag, dbVars, netVars
<1>2. RowsOwned' /\ NetOwned' /\ RunningStay
  BY <1>1, RowsKept, NetOwnedStays DEF Owned
<1>3. PumpOwns(pump[e])
  BY DEF Owned
<1>4. PumpOwns(pump[e])'
  BY <1>1, <1>3, PumpGetDagDoes, SMTT(30) DEF PumpOwns, Answerable, Done, Current
<1> QED
  BY <1>1, <1>2, <1>4, OwnedAfterPump

LEMMA PumpSaveDagOwned ==
  ASSUME OneExecutor, IInv, Owned, NEW e \in Executors, PumpSaveDag(e) PROVE Owned'
<1>1. UNCHANGED <<task, attempts, requests, statuses, handler>>
  BY DEF PumpSaveDag, netVars
<1>2. RowsOwned' /\ NetOwned' /\ RunningStay
  BY <1>1, RowsKept, NetOwnedStays DEF Owned
<1>3. PumpOwns(pump[e])
  BY DEF Owned
<1>4. PumpOwns(pump[e])'
  BY <1>1, <1>3, PumpSaveDagDoes DEF PumpOwns, Answerable, Done, Current
<1> QED
  BY <1>1, <1>2, <1>4, OwnedAfterPump

LEMMA PumpSleepOwned ==
  ASSUME OneExecutor, IInv, Owned, NEW e \in Executors, PumpSleep(e) PROVE Owned'
<1>1. UNCHANGED <<task, attempts, requests, statuses, handler>>
  BY DEF PumpSleep, dbVars, netVars
<1>2. RowsOwned' /\ NetOwned' /\ RunningStay
  BY <1>1, RowsKept, NetOwnedStays DEF Owned
<1>3. PumpOwns(pump[e])'
  BY PumpSleepDoes DEF PumpOwns, PumpIdle
<1> QED
  BY <1>1, <1>2, <1>3, OwnedAfterPump

\* The new attempt belongs to a pending task, which no answer waits for.
LEMMA PumpSaveTaskRunOwned ==
  ASSUME OneExecutor, IInv, Owned, NEW e \in Executors, PumpSaveTaskRun(e) PROVE Owned'
<1> DEFINE t == pump[e].cur
           k == Len(attempts[t]) + 1
<1>1. /\ t \in Task /\ k \in Nat \ {0} /\ DOMAIN attempts[t] = 1..k-1
      /\ Len(attempts'[t]) = k /\ DOMAIN attempts'[t] = 1..k
      /\ attempts'[t][k].status = "running"
      /\ \A n \in 1..k-1 : attempts'[t][n] = attempts[t][n]
      /\ \A u \in Task : u # t => attempts'[u] = attempts[u]
      /\ pump[e].pc = "save_run" /\ pump'[e].pc = "save_task"
      /\ pump'[e].ready = Append(pump[e].ready, [task |-> t, n |-> k])
      /\ pump'[e].cur = t /\ pump'[e].todo = pump[e].todo
  BY PumpSaveTaskRunDoes
<1>2. UNCHANGED <<task, requests, statuses, handler>>
  BY DEF PumpSaveTaskRun, netVars
<1>3. PumpOwns(pump[e]) /\ RowsOwned /\ NetOwned
  BY DEF Owned
<1>4. task[t] = "pending"
  BY <1>1, <1>3 DEF PumpOwns
<1>5. Len(attempts[t]) = k - 1 /\ Len(attempts[t]) \in Nat
  BY <1>1 DEF IInv, TypeOK
<1>6. RowsOwned'
  <2> SUFFICES ASSUME NEW u \in Task
               PROVE  /\ task'[u] \in {Absent, "pending", "running", "success", "failed"}
                      /\ task'[u] \in {"running", "success", "failed"} => attempts'[u] # <<>>
                      /\ \A n \in DOMAIN attempts'[u] :
                           attempts'[u][n].status \in {"running", "success", "failed"}
    BY DEF RowsOwned
  <2>1. CASE u = t
    <3>1. \A n \in 1..k : n = k \/ n \in 1..k-1
      BY <1>1
    <3>2. \A n \in DOMAIN attempts'[t] :
            attempts'[t][n].status \in {"running", "success", "failed"}
      BY <1>1, <1>3, <3>1 DEF RowsOwned
    <3> QED
      BY <1>2, <1>4, <2>1, <3>2
  <2>2. CASE u # t
    BY <1>1, <1>2, <1>3, <2>2 DEF RowsOwned
  <2> QED
    BY <2>1, <2>2
<1>7. AnswersStay
  <2> SUFFICES ASSUME NEW a \in Attempt, Saved(a), Answerable(a) PROVE Answerable(a)'
    BY DEF AnswersStay
  <2>1. a.task \in Task /\ a.n \in Nat \ {0}
    BY DEF Attempt
  <2>2. CASE a.task = t
    <3>1. Done(a) /\ a.n \in 1..k-1
      BY <1>1, <1>4, <1>5, <2>1, <2>2 DEF Answerable, Current, Saved
    <3> QED
      BY <1>1, <2>2, <3>1 DEF Answerable, Done
  <2>3. CASE a.task # t
    BY <1>1, <1>2, <2>1, <2>3 DEF Answerable, Done, Current
  <2> QED
    BY <2>2, <2>3
<1>8. NetOwned'
  BY <1>2, <1>3, <1>7, NetOwnedStays
<1>9. RunningStay
  BY <1>1, <1>2, <1>4 DEF RunningStay
<1>10. PumpOwns(pump[e])'
  <2> DEFINE ready == pump[e].ready
  <2>1. ready \in Seq(Attempt) /\ \A i \in DOMAIN ready : Saved(ready[i])
    BY RecordOfLoop DEF PumpState, PumpOK
  <2>2. \A i \in DOMAIN ready : ready[i] \in Attempt /\ Answerable(ready[i])
    BY <1>1, <1>3, <2>1 DEF PumpOwns
  <2>3. ASSUME NEW i \in DOMAIN ready PROVE \E a \in Attempt : a = ready[i] /\ Answerable(a)'
    BY <1>7, <2>1, <2>2 DEF AnswersStay
  <2>4. \A i \in DOMAIN ready :
          \/ attempts'[ready[i].task][ready[i].n].status \in TerminalRun
          \/ ready[i].n = Len(attempts'[ready[i].task]) /\ task'[ready[i].task] = "running"
    BY <2>3 DEF Answerable, Done, Current
  <2> DEFINE last == [task |-> t, n |-> k]
             new == Append(ready, last)
  <2>5. last \in Attempt
    BY <1>1 DEF Attempt
  <2>6. /\ Len(new) = Len(ready) + 1 /\ new # <<>> /\ new[Len(new)] = last
        /\ \A i \in DOMAIN new : i # Len(new) => i \in DOMAIN ready /\ new[i] = ready[i]
    <3> HIDE DEF last
    <3> QED BY <2>1, <2>5
  <2>7. pump'[e].ready = new
    BY <1>1
  <2>8. t \notin pump[e].todo /\ \A u \in pump[e].todo : task[u] = "pending"
    BY <1>1, <1>3 DEF PumpOwns
  <2> HIDE DEF ready, new
  <2>9. \A i \in DOMAIN new : i # Len(new) =>
          \/ attempts'[new[i].task][new[i].n].status \in TerminalRun
          \/ new[i].n = Len(attempts'[new[i].task]) /\ task'[new[i].task] = "running"
    BY <2>4, <2>6
  <2>10. new[Len(new)] = [task |-> t, n |-> Len(attempts'[t])]
    BY <1>1, <2>6
  <2> HIDE DEF t, last
  <2> QED
    BY <1>1, <1>2, <1>4, <2>6, <2>7, <2>8, <2>9, <2>10
       DEF PumpOwns, Answerable, Done, Current
<1> QED
  BY <1>2, <1>6, <1>8, <1>9, <1>10, OwnedAfterPump

\* Marking the task running makes the attempt saved last the current one.
LEMMA PumpSaveTaskOwned ==
  ASSUME OneExecutor, IInv, Owned, NEW e \in Executors, PumpSaveTask(e) PROVE Owned'
<1> DEFINE t == pump[e].cur
           ready == pump[e].ready
<1>1. /\ t \in Task /\ pump[e].pc = "save_task" /\ pump'[e].pc = "get_dag"
      /\ \A u \in Task : task'[u] = IF u = t THEN "running" ELSE task[u]
      /\ pump'[e].ready = ready /\ pump'[e].todo = pump[e].todo
  BY PumpSaveTaskDoes
<1>2. UNCHANGED <<attempts, requests, statuses, handler>>
  BY DEF PumpSaveTask, netVars
<1>3. PumpOwns(pump[e]) /\ RowsOwned /\ NetOwned
  BY DEF Owned
<1>4. /\ task[t] = "pending" /\ t \notin pump[e].todo
      /\ ready # <<>> /\ ready[Len(ready)] = [task |-> t, n |-> Len(attempts[t])]
  BY <1>1, <1>3 DEF PumpOwns
<1>5. ready \in Seq(Attempt) /\ \A i \in DOMAIN ready : Saved(ready[i])
  BY RecordOfLoop DEF PumpState, PumpOK
<1>6. attempts[t] # <<>>
  <2>1. ready[Len(ready)] \in Attempt
    BY <1>4, <1>5
  <2>2. Len(attempts[t]) # 0
    BY <1>4, <2>1 DEF Attempt
  <2> QED
    BY <2>2
<1>7. RowsOwned'
  BY <1>1, <1>2, <1>3, <1>6 DEF RowsOwned
<1>8. AnswersStay
  <2> SUFFICES ASSUME NEW a \in Attempt, Answerable(a) PROVE Answerable(a)'
    BY DEF AnswersStay
  <2>1. a.task \in Task
    BY DEF Attempt
  <2> QED
    BY <1>1, <1>2, <2>1 DEF Answerable, Done, Current
<1>9. NetOwned'
  BY <1>2, <1>3, <1>8, NetOwnedStays
<1>10. RunningStay
  BY <1>1, <1>2 DEF RunningStay
<1>11. ASSUME NEW i \in DOMAIN ready PROVE \E a \in Attempt : a = ready[i] /\ Answerable(a)'
  <2>1. ready[i] \in Attempt /\ Saved(ready[i])
    BY <1>5
  <2>2. CASE i = Len(ready)
    BY <1>1, <1>2, <1>4, <2>1, <2>2 DEF Answerable, Current
  <2>3. CASE i # Len(ready)
    BY <1>3, <1>8, <2>1, <2>3 DEF PumpOwns, AnswersStay
  <2> QED
    BY <2>2, <2>3
<1>12. \A i \in DOMAIN ready :
         \/ attempts'[ready[i].task][ready[i].n].status \in TerminalRun
         \/ ready[i].n = Len(attempts'[ready[i].task]) /\ task'[ready[i].task] = "running"
  BY <1>11 DEF Answerable, Done, Current
<1>13. \A u \in pump[e].todo : task'[u] = "pending"
  <2>1. pump[e].todo \subseteq Task
    BY RecordOfLoop DEF PumpState
  <2> QED
    BY <1>1, <1>3, <1>4, <2>1 DEF PumpOwns
<1> HIDE DEF ready, t
<1>14. PumpOwns(pump[e])'
  BY <1>1, <1>12, <1>13 DEF PumpOwns, Answerable, Done, Current
<1> QED
  BY <1>2, <1>7, <1>9, <1>10, <1>14, OwnedAfterPump

LEMMA PumpPublishOwned ==
  ASSUME OneExecutor, IInv, Owned, NEW e \in Executors, PumpPublish(e) PROVE Owned'
<1> DEFINE old == pump[e].ready
           new == pump'[e].ready
<1>1. /\ pump[e].pc = "scan" /\ pump'[e].pc = "scan"
      /\ Len(old) \in Nat \ {0} /\ Len(new) = Len(old) - 1
      /\ \A q \in requests' : q \in requests \/ q.attempt = old[1]
      /\ \A i \in 1..Len(new) : new[i] = old[i + 1]
      /\ pump'[e].todo = pump[e].todo
  BY PumpPublishDoes
<1>2. UNCHANGED <<task, attempts, statuses, handler>>
  BY DEF PumpPublish, dbVars
<1>3. PumpOwns(pump[e]) /\ NetOwned
  BY DEF Owned
<1>4. old \in Seq(Attempt) /\ new \in Seq(Attempt)
  <2>1. pump[e] \in PumpState /\ pump'[e] \in PumpState
    BY StepIInv DEF IInv, TypeOK, Next, Pump
  <2> QED
    BY <2>1 DEF PumpState
<1>5. \A i \in DOMAIN old : Answerable(old[i])
  BY <1>1, <1>3 DEF PumpOwns
<1>6. \A i \in DOMAIN new : i + 1 \in DOMAIN old /\ new[i] = old[i + 1]
  <2> HIDE DEF old, new
  <2> QED BY <1>1, <1>4
<1>7. 1 \in DOMAIN old
  <2> HIDE DEF old, new
  <2> QED BY <1>1, <1>4
<1>8. RowsOwned' /\ RunningStay
  BY <1>2, RowsKept DEF Owned
<1>9. NetOwned'
  BY <1>1, <1>2, <1>3, <1>5, <1>7 DEF NetOwned, Answerable, Done, Current
<1>10. \A i \in DOMAIN new : Answerable(new[i])
  BY <1>5, <1>6
<1> HIDE DEF old
<1>11. PumpOwns(pump[e])'
  BY <1>1, <1>2, <1>3, <1>10 DEF PumpOwns, Answerable, Done, Current
<1> QED
  BY <1>2, <1>8, <1>9, <1>11, OwnedAfterPump

\* A status is taken up only for the attempt its task is running.
LEMMA HandlerReceiveOwned ==
  ASSUME OneExecutor, IInv, Owned, NEW e \in Executors, HandlerReceive(e) PROVE Owned'
<1>1. UNCHANGED <<task, attempts, requests, pump>>
  BY DEF HandlerReceive, dbVars
<1>2. RowsOwned' /\ AnswersStay /\ PendingStay
  BY <1>1, RowsKept DEF Owned
<1>3. NetOwned'
  BY <1>1, <1>2, HandlerReceiveDoes, NetOwnedStays DEF Owned
<1>4. HandlerOwns(handler[e])'
  <2>1. CASE handler'[e] = handler[e]
    BY <1>1, <2>1, HandlerReceiveDoes DEF HandlerOwns
  <2>2. CASE handler'[e] # handler[e]
    <3>1. PICK m \in statuses[e] :
            /\ attempts[m.attempt.task][m.attempt.n].status \notin TerminalRun
            /\ handler'[e].pc = "save_run" /\ handler'[e].msg = m
      BY <2>2, HandlerReceiveDoes
    <3>2. Answerable(m.attempt)
      BY DEF Owned, NetOwned
    <3> QED
      BY <1>1, <3>1, <3>2 DEF HandlerOwns, Answerable, Current, Done
  <2> QED
    BY <2>1, <2>2
<1> QED
  BY <1>1, <1>2, <1>3, <1>4, OwnedAfterHandler

LEMMA HandlerSaveTaskRunOwned ==
  ASSUME OneExecutor, IInv, Owned, NEW e \in Executors, HandlerSaveTaskRun(e) PROVE Owned'
<1> DEFINE m == handler[e].msg
           t == m.attempt.task
           n == m.attempt.n
<1>1. /\ handler[e].pc = "save_run" /\ handler'[e].pc = "get_task" /\ handler'[e].msg = m
      /\ t \in Task /\ n \in DOMAIN attempts[t]
      /\ \A u \in Task : Len(attempts'[u]) = Len(attempts[u])
      /\ DOMAIN attempts'[t] = DOMAIN attempts[t]
      /\ attempts'[t][n].status = IF m.ok THEN "success" ELSE "failed"
      /\ \A k \in DOMAIN attempts[t] : k # n => attempts'[t][k] = attempts[t][k]
      /\ \A u \in Task : u # t => attempts'[u] = attempts[u]
  BY HandlerSaveTaskRunDoes
<1>2. UNCHANGED <<task, requests, statuses, pump>>
  BY DEF HandlerSaveTaskRun, netVars
<1>3. HandlerOwns(handler[e]) /\ RowsOwned /\ NetOwned
  BY SMTT(30) DEF Owned
<1>4. n = Len(attempts[t]) /\ task[t] = "running"
  BY <1>1, <1>3 DEF HandlerOwns, Current
<1>5. RowsOwned'
  <2> SUFFICES ASSUME NEW u \in Task
               PROVE  /\ task'[u] \in {"running", "success", "failed"} => attempts'[u] # <<>>
                      /\ \A k \in DOMAIN attempts'[u] :
                           attempts'[u][k].status \in {"running", "success", "failed"}
    BY <1>2, <1>3 DEF RowsOwned
  <2>1. CASE u = t
    <3>1. \A k \in DOMAIN attempts[t] :
            attempts'[t][k].status \in {"running", "success", "failed"}
      BY <1>1, <1>3, SMTT(30) DEF RowsOwned
    <3>2. attempts'[t] # <<>>
      <4>1. DOMAIN attempts'[t] # {}
        BY <1>1
      <4> QED
        BY <4>1
    <3> QED
      BY <1>1, <2>1, <3>1, <3>2
  <2>2. CASE u # t
    BY <1>1, <1>2, <1>3, <2>2 DEF RowsOwned
  <2> QED
    BY <2>1, <2>2
<1>6. AnswersStay
  <2> SUFFICES ASSUME NEW a \in Attempt, Saved(a), Answerable(a) PROVE Answerable(a)'
    BY DEF AnswersStay
  <2>1. a.task \in Task
    BY DEF Attempt
  <2>2. CASE Current(a)
    BY <1>1, <1>2, <2>1, <2>2 DEF Answerable, Current
  <2>3. CASE Done(a)
    <3>1. CASE a.task = t
      <4>1. a.n \in DOMAIN attempts[t]
        <5>1. a.n \in Nat \ {0} /\ attempts[t] \in Seq([status : TaskRunStatus, no : Nat])
          BY <1>1 DEF Attempt, IInv, TypeOK
        <5> QED
          BY <3>1, <5>1, SMTT(30) DEF Saved
      <4> QED
        BY <1>1, <2>3, <3>1, <4>1 DEF Answerable, Done, TerminalRun
    <3>2. CASE a.task # t
      BY <1>1, <2>1, <2>3, <3>2 DEF Answerable, Done
    <3> QED
      BY <3>1, <3>2
  <2> QED
    BY <2>2, <2>3 DEF Answerable
<1>7. NetOwned'
  BY <1>2, <1>3, <1>6, NetOwnedStays
<1>8. PendingStay
  BY <1>1, <1>2 DEF PendingStay
<1>9. HandlerOwns(handler[e])'
  <2> HIDE DEF m
  <2> QED
    BY <1>1, <1>2, <1>4 DEF HandlerOwns, Current
<1> QED
  BY <1>2, <1>5, <1>6, <1>7, <1>8, <1>9, OwnedAfterHandler

LEMMA HandlerGetTaskOwned ==
  ASSUME OneExecutor, IInv, Owned, NEW e \in Executors, HandlerGetTask(e) PROVE Owned'
<1>1. UNCHANGED <<task, attempts, requests, statuses, pump>>
  BY DEF HandlerGetTask, dbVars, netVars
<1>2. RowsOwned' /\ AnswersStay /\ PendingStay /\ NetOwned'
  BY <1>1, RowsKept, NetOwnedStays DEF Owned
<1>3. HandlerOwns(handler[e])'
  <2>1. HandlerOwns(handler[e])
    BY DEF Owned
  <2>2. handler[e].msg.ok \in BOOLEAN
    BY CurrentMessage, HandlerGetTaskDoes DEF StatusMsg
  <2> QED
    BY <1>1, <2>1, <2>2, HandlerGetTaskDoes DEF HandlerOwns, Current
<1> QED
  BY <1>1, <1>2, <1>3, OwnedAfterHandler

LEMMA HandlerListAttemptsOwned ==
  ASSUME OneExecutor, IInv, Owned, NEW e \in Executors, HandlerListAttempts(e) PROVE Owned'
<1>1. UNCHANGED <<task, attempts, requests, statuses, pump>>
  BY DEF HandlerListAttempts, dbVars, netVars
<1>2. RowsOwned' /\ AnswersStay /\ PendingStay /\ NetOwned'
  BY <1>1, RowsKept, NetOwnedStays DEF Owned
<1>3. HandlerOwns(handler[e])'
  <2>1. HandlerOwns(handler[e])
    BY DEF Owned
  <2> QED
    BY <1>1, <2>1, HandlerListAttemptsDoes DEF HandlerOwns, Current
<1> QED
  BY <1>1, <1>2, <1>3, OwnedAfterHandler

\* The task's last attempt is done, so whatever the task becomes, the attempts
\* that messages name keep their outcome.
LEMMA HandlerSaveTaskOwned ==
  ASSUME OneExecutor, IInv, Owned, NEW e \in Executors, HandlerSaveTask(e) PROVE Owned'
<1> DEFINE m == handler[e].msg
           t == m.attempt.task
           next == handler[e].next
<1>1. /\ handler[e].pc = "save_task" /\ t \in Task
      /\ next \in {"success", "pending", "failed"}
      /\ \A u \in Task : task'[u] = IF u = t THEN next ELSE task[u]
      /\ handler'[e].pc \in {"fan_out", "get_dag"}
  BY HandlerSaveTaskDoes
<1>2. UNCHANGED <<attempts, requests, statuses, pump>>
  BY DEF HandlerSaveTask, netVars
<1>3. HandlerOwns(handler[e]) /\ RowsOwned /\ NetOwned
  BY DEF Owned
<1>4. m.attempt.n = Len(attempts[t]) /\ task[t] = "running"
      /\ attempts[t][m.attempt.n].status \in TerminalRun
  BY <1>1, <1>3 DEF HandlerOwns, Current, TerminalRun
<1>5. RowsOwned'
  BY <1>1, <1>2, <1>3, <1>4 DEF RowsOwned
<1>6. AnswersStay
  <2> SUFFICES ASSUME NEW a \in Attempt, Answerable(a) PROVE Answerable(a)'
    BY DEF AnswersStay
  <2>1. a.task \in Task
    BY DEF Attempt
  <2>2. a.task = t /\ Current(a) => Done(a)
    BY <1>4 DEF Current, Done
  <2> QED
    BY <1>1, <1>2, <2>1, <2>2 DEF Answerable, Done, Current
<1>7. NetOwned'
  BY <1>2, <1>3, <1>6, NetOwnedStays
<1>8. PendingStay
  BY <1>1, <1>2, <1>4 DEF PendingStay
<1>9. HandlerOwns(handler[e])'
  BY <1>1 DEF HandlerOwns
<1> QED
  BY <1>2, <1>5, <1>6, <1>7, <1>8, <1>9, OwnedAfterHandler

LEMMA HandlerFanOutOwned ==
  ASSUME OneExecutor, IInv, Owned, NEW e \in Executors, HandlerFanOut(e) PROVE Owned'
<1> DEFINE r == handler[e].msg.attempt.task.run
<1>1. UNCHANGED <<attempts, requests, statuses, pump>>
  BY DEF HandlerFanOut, netVars
<1>2. /\ r \in Runs
      /\ \E c \in 1..MaxFanOut :
           /\ task[EmbedTask(r, c)] = Absent
           /\ \A u \in Task : task'[u] = IF u = EmbedTask(r, c) THEN "pending" ELSE task[u]
      /\ handler'[e].pc \in {"fan_out", "get_dag"}
  BY HandlerFanOutDoes
<1> HIDE DEF r
<1>3. PICK c \in 1..MaxFanOut :
        /\ task[EmbedTask(r, c)] = Absent
        /\ \A u \in Task : task'[u] = IF u = EmbedTask(r, c) THEN "pending" ELSE task[u]
  BY <1>2
<1>4. RowsOwned' /\ AnswersStay /\ PendingStay
  BY <1>1, <1>2, <1>3, EmbedTaskType, InsertOwned DEF Owned
<1>5. NetOwned'
  BY <1>1, <1>4, NetOwnedStays DEF Owned
<1>6. HandlerOwns(handler[e])'
  BY <1>2 DEF HandlerOwns
<1> QED
  BY <1>1, <1>4, <1>5, <1>6, OwnedAfterHandler

LEMMA HandlerDagOwned ==
  ASSUME OneExecutor, IInv, Owned, NEW e \in Executors,
         HandlerGetDag(e) \/ HandlerListTasks(e) \/ HandlerSaveDag(e)
  PROVE  Owned'
<1>1. UNCHANGED <<task, attempts, requests, statuses, pump>>
  BY DEF HandlerGetDag, HandlerListTasks, HandlerSaveDag, dbVars, netVars
<1>2. RowsOwned' /\ AnswersStay /\ PendingStay /\ NetOwned'
  BY <1>1, RowsKept, NetOwnedStays DEF Owned
<1>3. handler'[e].pc \in {"list_tasks", "save_dag", "idle"}
  BY HandlerGetDagDoes, HandlerListTasksDoes, HandlerSaveDagDoes DEF HandlerIdle
<1>4. HandlerOwns(handler[e])'
  BY <1>3 DEF HandlerOwns
<1> QED
  BY <1>1, <1>2, <1>4, OwnedAfterHandler

LEMMA PlannerSaveTaskOwned ==
  ASSUME IInv, Owned, NEW r \in Runs, PlannerSaveTask(r),
         task[PlannedTask(r, planned[r])] = Absent
  PROVE  Owned'
<1>1. UNCHANGED <<attempts, requests, statuses, pump, handler>>
  BY DEF PlannerSaveTask, netVars
<1>2. RowsOwned' /\ AnswersStay /\ PendingStay /\ RunningStay
  BY <1>1, PlannerSaveTaskDoes, InsertOwned DEF Owned
<1>3. NetOwned'
  BY <1>1, <1>2, NetOwnedStays DEF Owned
<1> QED
  BY <1>1, <1>2, <1>3, OwnedAfterOutside

LEMMA PlannerElseOwned ==
  ASSUME IInv, Owned, NEW r \in Runs, PlannerSaveRun(r) \/ PlannerCrash(r) PROVE Owned'
<1>1. UNCHANGED <<task, attempts, requests, statuses, pump, handler>>
  BY DEF PlannerSaveRun, PlannerCrash, dbVars, netVars
<1>2. RowsOwned' /\ AnswersStay /\ PendingStay /\ RunningStay /\ NetOwned'
  BY <1>1, RowsKept, NetOwnedStays DEF Owned
<1> QED
  BY <1>1, <1>2, OwnedAfterOutside

LEMMA WorkerOwned ==
  ASSUME IInv, Owned, NEW q \in requests, WorkerAnswer(q) \/ WorkerLose(q) PROVE Owned'
<1>1. UNCHANGED <<task, attempts, pump, handler>> /\ requests' \subseteq requests
  BY DEF WorkerAnswer, WorkerLose, dbVars
<1>2. RowsOwned' /\ AnswersStay /\ PendingStay /\ RunningStay
  BY <1>1, RowsKept DEF Owned
<1>3. NetOwned'
  <2>1. CASE WorkerAnswer(q)
    <3>1. \A f \in Executors : \A m \in statuses'[f] :
            m \in statuses[f] \/ m.attempt = q.attempt
      BY <2>1, WorkerAnswerDoes
    <3> QED
      BY <1>1, <3>1 DEF Owned, NetOwned, Answerable, Done, Current
  <2>2. CASE WorkerLose(q)
    BY <1>1, <1>2, <2>2, NetOwnedStays DEF Owned, WorkerLose
  <2> QED
    BY <2>1, <2>2
<1> QED
  BY <1>1, <1>2, <1>3, OwnedAfterOutside

LEMMA ExecutorOwned ==
  ASSUME OneExecutor, IInv, Owned, NEW e \in Executors, ExecutorCrash(e) \/ ExecutorStart(e)
  PROVE  Owned'
<1>1. UNCHANGED <<task, attempts, requests>>
  BY DEF ExecutorCrash, ExecutorStart, dbVars, netVars
<1>2. RowsOwned' /\ AnswersStay /\ PendingStay /\ RunningStay
  BY <1>1, RowsKept DEF Owned
<1>3. CASE ExecutorCrash(e)
  <2>1. NetOwned'
    BY <1>1, <1>2, <1>3, ExecutorCrashDoes, NetOwnedStays DEF Owned
  <2>2. ASSUME NEW f \in Executors PROVE PumpOwns(pump[f])' /\ HandlerOwns(handler[f])'
    <3>1. f = e
      BY DEF OneExecutor
    <3>2. pump'[f] = PumpIdle /\ handler'[f] = HandlerIdle
      BY <1>3, <3>1, ExecutorCrashDoes
    <3> QED
      BY <3>2 DEF PumpOwns, HandlerOwns, PumpIdle, HandlerIdle
  <2> QED
    BY <1>2, <2>1, <2>2 DEF Owned
<1>4. CASE ExecutorStart(e)
  <2>1. UNCHANGED <<statuses, pump, handler>>
    BY <1>4 DEF ExecutorStart, netVars
  <2>2. NetOwned'
    BY <1>1, <1>2, <2>1, NetOwnedStays DEF Owned
  <2> QED
    BY <1>2, <2>1, <2>2, OwnedAfterOutside
<1> QED
  BY <1>3, <1>4

LEMMA StepOwned ==
  ASSUME OneExecutor
  PROVE  IInv /\ PlanSaved /\ Owned /\ [Next]_vars => Owned'
<1> SUFFICES ASSUME IInv, PlanSaved, Owned, [Next]_vars PROVE Owned'
  OBVIOUS
<1>1. ASSUME NEW r \in Runs, Planner(r) \/ PlannerCrash(r) PROVE Owned'
  BY <1>1, PlannerSaveTaskPlan, PlannerSaveTaskOwned, PlannerElseOwned DEF Planner
<1>2. ASSUME NEW e \in Executors, Pump(e) PROVE Owned'
  BY <1>2, PumpListOwned, PumpConsiderOwned, PumpCountAttemptsOwned, PumpSaveTaskRunOwned,
     PumpSaveTaskOwned, PumpGetDagOwned, PumpSaveDagOwned, PumpPublishOwned, PumpSleepOwned
     DEF Pump
<1>3. ASSUME NEW e \in Executors, Handler(e) PROVE Owned'
  BY <1>3, HandlerReceiveOwned, HandlerSaveTaskRunOwned, HandlerGetTaskOwned,
     HandlerListAttemptsOwned, HandlerSaveTaskOwned, HandlerFanOutOwned, HandlerDagOwned
     DEF Handler
<1>4. ASSUME NEW e \in Executors, ExecutorCrash(e) \/ ExecutorStart(e) PROVE Owned'
  BY <1>4, ExecutorOwned
<1>5. ASSUME NEW q \in requests, WorkerAnswer(q) \/ WorkerLose(q) PROVE Owned'
  BY <1>5, WorkerOwned
<1>6. CASE UNCHANGED vars
  <2>1. UNCHANGED <<task, attempts, requests, statuses, pump, handler>>
    BY <1>6 DEF vars, dbVars, netVars
  <2> QED
    BY <2>1, RowsKept, NetOwnedStays, OwnedAfterOutside DEF Owned
<1> QED
  BY <1>1, <1>2, <1>3, <1>4, <1>5, <1>6 DEF Next

\* With any number of executors, a run's planned tasks are a prefix of the profile.
THEOREM PlanIsPrefix == Spec => []PlanSaved
  BY InitPlan, StepPlan, Invariance, PTL DEF Spec

\* The pump writes only to pending tasks and the status loop only to the last
\* attempt of a running one, with one executor and whatever else fails.
THEOREM Ownership == ASSUME OneExecutor PROVE Spec => []Owned
<1>1. Init => Owned
  BY InitOwned
<1>2. IInv /\ PlanSaved /\ Owned /\ [Next]_vars => Owned'
  BY StepOwned
<1> QED
  BY <1>1, <1>2, PlanIsPrefix, Invariance, PTL DEF Spec

-----------------------------------------------------------------------------
(* Outcomes are final.                                                     *)

TaskFinal == \A t \in Task : task[t] \in {"success", "failed"} => task'[t] = task[t]

\* Attempts are never removed, and one that has an outcome keeps it.
AttemptsFinal ==
  \A t \in Task : \A n \in DOMAIN attempts[t] :
    /\ n \in DOMAIN attempts'[t]
    /\ attempts[t][n].status \in TerminalRun => attempts'[t][n] = attempts[t][n]

LEMMA StepTaskFinal ==
  ASSUME OneExecutor, IInv, PlanSaved, Owned, [Next]_vars PROVE TaskFinal
<1>1. ASSUME NEW r \in Runs, PlannerSaveRun(r) \/ PlannerSaveTask(r) PROVE TaskFinal
  <2>1. CASE PlannerSaveRun(r)
    BY <2>1 DEF PlannerSaveRun, TaskFinal
  <2>2. CASE PlannerSaveTask(r)
    BY <2>2, PlannerSaveTaskDoes, PlannerSaveTaskPlan DEF TaskFinal, Absent
  <2> QED
    BY <1>1, <2>1, <2>2
<1>2. ASSUME NEW e \in Executors, PumpSaveTask(e) PROVE TaskFinal
  <2>1. task[pump[e].cur] = "pending"
    BY <1>2, PumpSaveTaskDoes DEF Owned, PumpOwns
  <2> QED
    BY <1>2, <2>1, PumpSaveTaskDoes DEF TaskFinal
<1>3. ASSUME NEW e \in Executors, HandlerSaveTask(e) PROVE TaskFinal
  <2>1. task[handler[e].msg.attempt.task] = "running"
    BY <1>3, HandlerSaveTaskDoes DEF Owned, HandlerOwns, Current
  <2> QED
    BY <1>3, <2>1, HandlerSaveTaskDoes DEF TaskFinal
<1>4. ASSUME NEW e \in Executors, HandlerFanOut(e) PROVE TaskFinal
  <2>1. PICK c \in 1..MaxFanOut :
          LET s == EmbedTask(handler[e].msg.attempt.task.run, c)
          IN  /\ task[s] = Absent
              /\ \A u \in Task : task'[u] = IF u = s THEN "pending" ELSE task[u]
    BY <1>4, HandlerFanOutDoes
  <2> QED
    BY <2>1 DEF TaskFinal, Absent
<1>5. CASE UNCHANGED task
  BY <1>5 DEF TaskFinal
<1> QED
  BY <1>1, <1>2, <1>3, <1>4, <1>5, TaskSteps

LEMMA PumpSaveTaskRunFinal ==
  ASSUME IInv, NEW e \in Executors, PumpSaveTaskRun(e) PROVE AttemptsFinal
<1> DEFINE t == pump[e].cur
           k == Len(attempts[t]) + 1
<1>1. /\ t \in Task /\ k \in Nat \ {0} /\ DOMAIN attempts[t] = 1..k-1
      /\ DOMAIN attempts'[t] = 1..k
      /\ \A n \in 1..k-1 : attempts'[t][n] = attempts[t][n]
      /\ \A u \in Task : u # t => attempts'[u] = attempts[u]
  BY PumpSaveTaskRunDoes
<1> HIDE DEF k, t
<1>2. \A n \in 1..k-1 : n \in 1..k
  BY <1>1
<1> QED
  BY <1>1, <1>2 DEF AttemptsFinal

LEMMA StepAttemptsFinal ==
  ASSUME OneExecutor, IInv, Owned, [Next]_vars PROVE AttemptsFinal
<1>1. ASSUME NEW e \in Executors, PumpSaveTaskRun(e) PROVE AttemptsFinal
  BY <1>1, PumpSaveTaskRunFinal
<1>2. ASSUME NEW e \in Executors, HandlerSaveTaskRun(e) PROVE AttemptsFinal
  <2> DEFINE t == handler[e].msg.attempt.task
             n == handler[e].msg.attempt.n
  <2>1. /\ DOMAIN attempts'[t] = DOMAIN attempts[t] /\ handler[e].pc = "save_run"
        /\ \A k \in DOMAIN attempts[t] : k # n => attempts'[t][k] = attempts[t][k]
        /\ \A u \in Task : u # t => attempts'[u] = attempts[u]
    BY <1>2, HandlerSaveTaskRunDoes
  <2>2. attempts[t][n].status \notin TerminalRun
    BY <2>1 DEF Owned, HandlerOwns, Done
  <2> HIDE DEF t, n
  <2> QED
    BY <2>1, <2>2 DEF AttemptsFinal
<1>3. CASE UNCHANGED attempts
  BY <1>3 DEF AttemptsFinal
<1> QED
  BY <1>1, <1>2, <1>3, AttemptSteps

\* A finished task never changes again, whatever late or duplicated statuses
\* arrive and whatever the executor crashes into.
THEOREM TaskOutcomeIsFinal == ASSUME OneExecutor PROVE Spec => TaskOutcomeFinal
<1>1. IInv /\ PlanSaved /\ Owned /\ [Next]_vars =>
        [\A t \in Task : task[t] \in {"success", "failed"} => task'[t] = task[t]]_vars
  BY StepTaskFinal DEF TaskFinal
<1> QED
  BY <1>1, Invariance, PlanIsPrefix, Ownership, PTL DEF Spec, TaskOutcomeFinal

\* An attempt that has an outcome keeps it, and its number.
THEOREM AttemptOutcomeIsFinal == ASSUME OneExecutor PROVE Spec => AttemptOutcomeFinal
<1>1. IInv /\ Owned /\ [Next]_vars =>
        [\A t \in Task : \A n \in DOMAIN attempts[t] :
           attempts[t][n].status \in TerminalRun => attempts'[t][n] = attempts[t][n]]_vars
  BY StepAttemptsFinal DEF AttemptsFinal
<1> QED
  BY <1>1, Invariance, Ownership, PTL DEF Spec, AttemptOutcomeFinal

-----------------------------------------------------------------------------
(* The attempts of a task: their numbers, their evidence, how many there   *)
(* are and how many of them are open.                                      *)

LEMMA StepNumbers ==
  ASSUME OneExecutor, IInv, Owned, AttemptNumbersCount, [Next]_vars PROVE AttemptNumbersCount'
<1>1. ASSUME NEW e \in Executors, PumpSaveTaskRun(e) PROVE AttemptNumbersCount'
  <2> DEFINE t == pump[e].cur
             k == Len(attempts[t]) + 1
  <2>1. /\ t \in Task /\ k \in Nat \ {0} /\ DOMAIN attempts[t] = 1..k-1
        /\ DOMAIN attempts'[t] = 1..k
        /\ attempts'[t][k].no = pump[e].count /\ pump[e].pc = "save_run"
        /\ \A n \in 1..k-1 : attempts'[t][n] = attempts[t][n]
        /\ \A u \in Task : u # t => attempts'[u] = attempts[u]
    BY <1>1, PumpSaveTaskRunDoes
  <2>2. pump[e].count = k - 1
    <3>1. PumpOwns(pump[e])
      BY DEF Owned
    <3>2. Len(attempts[t]) \in Nat
      BY <2>1 DEF IInv, TypeOK
    <3> QED
      BY <2>1, <3>1, <3>2 DEF PumpOwns
  <2> HIDE DEF t, k
  <2>3. \A n \in 1..k : n = k \/ n \in 1..k-1
    BY <2>1
  <2> QED
    BY <2>1, <2>2, <2>3 DEF AttemptNumbersCount
<1>2. ASSUME NEW e \in Executors, HandlerSaveTaskRun(e) PROVE AttemptNumbersCount'
  <2> DEFINE t == handler[e].msg.attempt.task
             n == handler[e].msg.attempt.n
  <2>1. /\ DOMAIN attempts'[t] = DOMAIN attempts[t]
        /\ attempts'[t][n].no = attempts[t][n].no
        /\ \A k \in DOMAIN attempts[t] : k # n => attempts'[t][k] = attempts[t][k]
        /\ \A u \in Task : u # t => attempts'[u] = attempts[u]
    BY <1>2, HandlerSaveTaskRunDoes
  <2> HIDE DEF t, n
  <2> QED
    BY <2>1 DEF AttemptNumbersCount
<1>3. CASE UNCHANGED attempts
  BY <1>3 DEF AttemptNumbersCount
<1> QED
  BY <1>1, <1>2, <1>3, AttemptSteps

\* The attempts of a task are numbered from 0 in the order of their rows, with
\* no gap and no repetition.
THEOREM AttemptNumbersAlwaysCount == ASSUME OneExecutor PROVE Spec => []AttemptNumbersCount
<1>1. Init => AttemptNumbersCount
  BY DEF Init, AttemptNumbersCount
<1>2. IInv /\ Owned /\ AttemptNumbersCount /\ [Next]_vars => AttemptNumbersCount'
  BY StepNumbers
<1> QED
  BY <1>1, <1>2, Invariance, Ownership, PTL DEF Spec

\* Attempts keep their outcomes, and a status loop saves a task with the outcome
\* that its attempt has.
LEMMA StepEvidence ==
  ASSUME IInv, OutcomeHasEvidence, [Next]_vars, AttemptsFinal,
         \A e \in Executors :
           LET m == handler[e].msg IN
           handler[e].pc = "save_task"
             => /\ attempts[m.attempt.task][m.attempt.n].status = IF m.ok THEN "success" ELSE "failed"
                /\ handler[e].next = "success" <=> m.ok
  PROVE  OutcomeHasEvidence'
<1>1. ASSUME NEW t \in Task, task'[t] \in {"success", "failed"}, task'[t] = task[t]
      PROVE  \E n \in DOMAIN attempts'[t] : attempts'[t][n].status = task'[t]
  <2>1. PICK n \in DOMAIN attempts[t] : attempts[t][n].status = task[t]
    BY <1>1 DEF OutcomeHasEvidence
  <2>2. n \in DOMAIN attempts'[t] /\ attempts'[t][n] = attempts[t][n]
    BY <1>1, <2>1 DEF AttemptsFinal, TerminalRun
  <2> QED
    BY <1>1, <2>1, <2>2
<1>2. ASSUME NEW t \in Task, task'[t] \in {"success", "failed"}, task'[t] # task[t]
      PROVE  \E n \in DOMAIN attempts'[t] : attempts'[t][n].status = task'[t]
  <2>1. PICK e \in Executors : HandlerSaveTask(e)
    <3>1. ASSUME NEW r \in Runs, PlannerSaveRun(r) \/ PlannerSaveTask(r) PROVE FALSE
      <4>1. PlannerSaveTask(r) => \A u \in Task : task'[u] \in {task[u], "pending"}
        BY PlannerSaveTaskDoes
      <4>2. PlannerSaveRun(r) => task' = task
        BY DEF PlannerSaveRun
      <4> QED
        BY <1>2, <3>1, <4>1, <4>2
    <3>2. ASSUME NEW e \in Executors, PumpSaveTask(e) \/ HandlerFanOut(e) PROVE FALSE
      <4>1. PumpSaveTask(e) => \A u \in Task : task'[u] \in {task[u], "running"}
        BY PumpSaveTaskDoes
      <4>2. HandlerFanOut(e) => \A u \in Task : task'[u] \in {task[u], "pending"}
        BY HandlerFanOutDoes
      <4> QED
        BY <1>2, <3>2, <4>1, <4>2
    <3> QED
      BY <1>2, <3>1, <3>2, TaskSteps
  <2> DEFINE m == handler[e].msg
  <2>2. /\ handler[e].pc = "save_task"
        /\ \A u \in Task : task'[u] = IF u = m.attempt.task THEN handler[e].next ELSE task[u]
        /\ attempts' = attempts
    BY <2>1, HandlerSaveTaskDoes DEF HandlerSaveTask
  <2>3. t = m.attempt.task /\ task'[t] = handler[e].next
    BY <1>2, <2>2
  <2>4. m.attempt.n \in DOMAIN attempts[t]
    BY <2>2, <2>3, CurrentMessage
  <2>5. /\ attempts[t][m.attempt.n].status = IF m.ok THEN "success" ELSE "failed"
        /\ handler[e].next = "success" <=> m.ok
    BY <2>2, <2>3
  <2> QED
    BY <1>2, <2>2, <2>3, <2>4, <2>5
<1> QED
  BY <1>1, <1>2 DEF OutcomeHasEvidence

\* A task counts as done only if one of its attempts succeeded, and as failed
\* only if one of them failed.
THEOREM OutcomeAlwaysHasEvidence == ASSUME OneExecutor PROVE Spec => []OutcomeHasEvidence
<1>1. Init => OutcomeHasEvidence
  BY DEF Init, OutcomeHasEvidence, Absent
<1>2. IInv /\ Owned /\ OutcomeHasEvidence /\ [Next]_vars => OutcomeHasEvidence'
  BY StepAttemptsFinal, StepEvidence DEF Owned, HandlerOwns
<1> QED
  BY <1>1, <1>2, Invariance, Ownership, PTL DEF Spec

\* What the loops are doing to a task, step by step.
LEMMA MarkingSteps ==
  ASSUME OneExecutor, IInv, [Next]_vars
  PROVE  \/ \E e \in Executors : PumpSaveTaskRun(e) \/ PumpSaveTask(e) \/ ExecutorCrash(e)
         \/ UNCHANGED crashes /\ \A t \in Task : Marking(t)' <=> Marking(t)
<1>1. ASSUME UNCHANGED <<pump, crashes>>
      PROVE  UNCHANGED crashes /\ \A t \in Task : Marking(t)' <=> Marking(t)
  BY <1>1 DEF Marking
<1>2. ASSUME NEW e \in Executors, Pump(e), ~PumpSaveTaskRun(e), ~PumpSaveTask(e)
      PROVE  UNCHANGED crashes /\ \A t \in Task : Marking(t)' <=> Marking(t)
  <2>1. UNCHANGED crashes
    BY <1>2 DEF Pump, PumpList, PumpConsider, PumpCountAttempts, PumpGetDag, PumpSaveDag,
                PumpPublish, PumpSleep, envVars
  <2>2. pump[e].pc # "save_task"
    BY <1>2 DEF Pump, PumpList, PumpConsider, PumpCountAttempts, PumpGetDag, PumpSaveDag,
                PumpPublish, PumpSleep
  <2>3. pump'[e].pc # "save_task"
    BY <1>2, PumpListDoes, PumpConsiderDoes, PumpCountAttemptsDoes, PumpGetDagDoes,
       PumpSaveDagDoes, PumpPublishDoes, PumpSleepDoes DEF Pump, PumpIdle
  <2> QED
    BY <2>1, <2>2, <2>3 DEF Marking, OneExecutor
<1>3. ASSUME NEW e \in Executors, Handler(e) PROVE UNCHANGED <<pump, crashes>>
  BY <1>3 DEF Handler, HandlerReceive, HandlerSaveTaskRun, HandlerGetTask, HandlerListAttempts,
              HandlerSaveTask, HandlerFanOut, HandlerGetDag, HandlerListTasks, HandlerSaveDag,
              envVars
<1>4. ASSUME NEW r \in Runs, Planner(r) \/ PlannerCrash(r) PROVE UNCHANGED <<pump, crashes>>
  BY <1>4 DEF Planner, PlannerSaveRun, PlannerSaveTask, PlannerCrash, envVars
<1>5. ASSUME NEW e \in Executors, ExecutorStart(e) PROVE UNCHANGED <<pump, crashes>>
  BY <1>5 DEF ExecutorStart
<1>6. ASSUME NEW q \in requests, WorkerAnswer(q) \/ WorkerLose(q) PROVE UNCHANGED <<pump, crashes>>
  BY <1>6 DEF WorkerAnswer, WorkerLose, envVars
<1>7. CASE UNCHANGED vars
  BY <1>1, <1>7 DEF vars, envVars
<1> QED
  BY <1>1, <1>2, <1>3, <1>4, <1>5, <1>6, <1>7 DEF Next

LEMMA DecidingSteps ==
  ASSUME OneExecutor, IInv, [Next]_vars
  PROVE  \/ \E e \in Executors : HandlerSaveTaskRun(e)
         \/ \A t \in Task : Deciding(t)' => Deciding(t)
<1> SUFFICES ASSUME ~ \E e \in Executors : HandlerSaveTaskRun(e),
                    NEW t \in Task, Deciding(t)'
             PROVE  Deciding(t)
  OBVIOUS
<1>1. ASSUME UNCHANGED handler PROVE Deciding(t)
  BY <1>1 DEF Deciding
<1>2. ASSUME NEW e \in Executors, HandlerGetTask(e) \/ HandlerListAttempts(e) PROVE Deciding(t)
  <2>1. handler[e].pc \in {"get_task", "list_attempts"} /\ handler'[e].msg = handler[e].msg
    BY <1>2, HandlerGetTaskDoes, HandlerListAttemptsDoes
  <2> QED
    BY <2>1 DEF Deciding, OneExecutor
<1>3. ASSUME NEW e \in Executors,
             HandlerSaveTask(e) \/ HandlerFanOut(e) \/ HandlerGetDag(e)
               \/ HandlerListTasks(e) \/ HandlerSaveDag(e) \/ ExecutorCrash(e)
      PROVE  Deciding(t)
  <2>1. handler'[e].pc \in {"fan_out", "get_dag", "list_tasks", "save_dag", "idle"}
    BY <1>3, HandlerSaveTaskDoes, HandlerFanOutDoes, HandlerGetDagDoes, HandlerListTasksDoes,
       HandlerSaveDagDoes, ExecutorCrashDoes DEF HandlerIdle
  <2> QED
    BY <2>1 DEF Deciding, OneExecutor
<1>4. ASSUME NEW e \in Executors, HandlerReceive(e) PROVE Deciding(t)
  <2>1. handler'[e].pc \in {"idle", "save_run"}
    BY <1>4, HandlerReceiveDoes
  <2> QED
    BY <2>1 DEF Deciding, OneExecutor
<1>5. ASSUME NEW e \in Executors, Pump(e) \/ ExecutorStart(e) PROVE UNCHANGED handler
  BY <1>5 DEF Pump, PumpList, PumpConsider, PumpCountAttempts, PumpSaveTaskRun, PumpSaveTask,
              PumpGetDag, PumpSaveDag, PumpPublish, PumpSleep, ExecutorStart
<1>6. ASSUME NEW r \in Runs, Planner(r) \/ PlannerCrash(r) PROVE UNCHANGED handler
  BY <1>6 DEF Planner, PlannerSaveRun, PlannerSaveTask, PlannerCrash
<1>7. ASSUME NEW q \in requests, WorkerAnswer(q) \/ WorkerLose(q) PROVE UNCHANGED handler
  BY <1>7 DEF WorkerAnswer, WorkerLose
<1>8. CASE UNCHANGED vars
  BY <1>1, <1>8 DEF vars
<1>9. ASSUME NEW e \in Executors, Handler(e) PROVE Deciding(t)
  BY <1>2, <1>3, <1>4, <1>9 DEF Handler
<1> QED
  BY <1>1, <1>3, <1>5, <1>6, <1>7, <1>8, <1>9 DEF Next

LEMMA BudgetType ==
  ASSUME IInv
  PROVE  Budget \in Nat /\ Budget > 0 /\ Budget > MaxAttempts - 1 /\ crashes \in Nat
  BY BoundsAssumption DEF Budget, IInv, TypeOK

LEMMA LenType == ASSUME IInv, NEW t \in Task PROVE Len(attempts[t]) \in Nat
  BY DEF IInv, TypeOK

\* A task that is not saved has no attempts.
LEMMA AbsentHasNone == ASSUME IInv, NEW t \in Task, task[t] = Absent PROVE attempts[t] = <<>>
  BY DEF IInv, DbOK

\* A saved task becomes pending only when the status loop says so.
LEMMA BackToPending ==
  ASSUME IInv, PlanSaved, [Next]_vars, NEW t \in Task,
         task'[t] = "pending", task[t] \notin {"pending", Absent}
  PROVE  \E e \in Executors : /\ handler[e].pc = "save_task" /\ handler[e].next = "pending"
                              /\ handler[e].msg.attempt.task = t
<1>1. ASSUME NEW r \in Runs, PlannerSaveRun(r) \/ PlannerSaveTask(r) PROVE FALSE
  <2>1. PlannerSaveTask(r) => task'[t] = task[t]
    BY PlannerSaveTaskDoes, PlannerSaveTaskPlan
  <2> QED
    BY <1>1, <2>1 DEF PlannerSaveRun
<1>2. ASSUME NEW e \in Executors, PumpSaveTask(e) \/ HandlerFanOut(e) PROVE FALSE
  <2>1. PumpSaveTask(e) => task'[t] \in {task[t], "running"}
    BY PumpSaveTaskDoes
  <2>2. HandlerFanOut(e) => task'[t] = task[t]
    BY HandlerFanOutDoes
  <2> QED
    BY <1>2, <2>1, <2>2
<1>3. PICK e \in Executors : HandlerSaveTask(e)
  BY <1>1, <1>2, TaskSteps
<1> QED
  BY <1>3, HandlerSaveTaskDoes

LEMMA StepBudget ==
  ASSUME OneExecutor, IInv, IInv', PlanSaved, Owned, WithinBudget, [Next]_vars
  PROVE  WithinBudget'
<1>1. ASSUME NEW e \in Executors, PumpSaveTaskRun(e) PROVE WithinBudget'
  <2>0. PICK t : t = pump[e].cur
    OBVIOUS
  <2>1. /\ t \in Task /\ Len(attempts'[t]) = Len(attempts[t]) + 1
        /\ \A u \in Task : u # t => attempts'[u] = attempts[u]
        /\ pump[e].pc = "save_run" /\ pump'[e].pc = "save_task" /\ pump'[e].cur = t
    BY <1>1, <2>0, PumpSaveTaskRunDoes
  <2>2. UNCHANGED <<task, crashes>>
    BY <1>1 DEF PumpSaveTaskRun, envVars
  <2>3. task[t] = "pending"
    BY <2>0, <2>1 DEF Owned, PumpOwns
  <2>4. Marking(t)' /\ \A u \in Task : ~Marking(u)
    BY <2>1 DEF Marking, OneExecutor
  <2>5. Len(attempts[t]) < Budget
    BY <2>1, <2>3, <2>4 DEF WithinBudget
  <2>6. Len(attempts'[t]) <= Budget /\ Budget' = Budget
    BY <2>1, <2>2, <2>5, LenType, BudgetType DEF Budget
  <2>7. ASSUME NEW u \in Task
        PROVE  /\ Len(attempts'[u]) <= Budget'
               /\ task'[u] = "pending" /\ ~Marking(u)' => Len(attempts'[u]) < Budget'
    BY <2>1, <2>2, <2>4, <2>6 DEF WithinBudget
  <2> QED
    BY <2>7 DEF WithinBudget
<1>2. ASSUME NEW e \in Executors, PumpSaveTask(e) PROVE WithinBudget'
  <2> DEFINE t == pump[e].cur
  <2>1. /\ t \in Task /\ task'[t] = "running" /\ \A u \in Task : u # t => task'[u] = task[u]
        /\ pump[e].pc = "save_task"
    BY <1>2, PumpSaveTaskDoes
  <2>2. UNCHANGED <<attempts, crashes>>
    BY <1>2 DEF PumpSaveTask, envVars
  <2>3. \A u \in Task : u # t => ~Marking(u)
    BY DEF Marking, OneExecutor
  <2> HIDE DEF t
  <2>4. ASSUME NEW u \in Task
        PROVE  /\ Len(attempts'[u]) <= Budget'
               /\ task'[u] = "pending" /\ ~Marking(u)' => Len(attempts'[u]) < Budget'
    BY <2>1, <2>2, <2>3 DEF WithinBudget, Budget
  <2> QED
    BY <2>4 DEF WithinBudget
<1>3. ASSUME NEW e \in Executors, ExecutorCrash(e) PROVE WithinBudget'
  <2>1. UNCHANGED <<task, attempts>> /\ crashes' = crashes + 1
    BY <1>3, ExecutorCrashDoes DEF ExecutorCrash, dbVars
  <2>2. Budget' = Budget + 1
    BY <2>1, BudgetType, BoundsAssumption DEF Budget
  <2>3. ASSUME NEW u \in Task PROVE Len(attempts'[u]) < Budget'
    BY <2>1, <2>2, LenType, BudgetType DEF WithinBudget
  <2>4. Budget' \in Nat /\ \A u \in Task : Len(attempts'[u]) \in Nat
    BY BudgetType, LenType, <2>1, <2>2
  <2> QED
    BY <2>3, <2>4 DEF WithinBudget
<1>4. ASSUME UNCHANGED crashes, \A t \in Task : Marking(t)' <=> Marking(t) PROVE WithinBudget'
  <2>1. Budget' = Budget
    BY <1>4 DEF Budget
  <2>2. ASSUME NEW u \in Task PROVE Len(attempts'[u]) = Len(attempts[u]) \/ \E e \in Executors : PumpSaveTaskRun(e)
    BY HandlerSaveTaskRunDoes, AttemptSteps
  <2>3. CASE \E e \in Executors : PumpSaveTaskRun(e)
    BY <1>1, <2>3
  <2>4. CASE ~ \E e \in Executors : PumpSaveTaskRun(e)
    <3>1. ASSUME NEW u \in Task, task'[u] = "pending", ~Marking(u)' PROVE Len(attempts[u]) < Budget
      <4>1. ~Marking(u)
        BY <1>4, <3>1
      <4>2. CASE task[u] = "pending"
        BY <4>1, <4>2 DEF WithinBudget
      <4>3. CASE task[u] = Absent
        <5>1. Len(attempts[u]) = 0
          BY <4>3, AbsentHasNone
        <5> QED
          BY <5>1, BudgetType
      <4>4. CASE task[u] \notin {"pending", Absent}
        <5>1. PICK e \in Executors : /\ handler[e].pc = "save_task" /\ handler[e].next = "pending"
                                     /\ handler[e].msg.attempt.task = u
          BY <3>1, <4>4, BackToPending
        <5>2. HandlerOwns(handler[e])
          BY DEF Owned
        <5>3. Len(attempts[u]) < MaxAttempts
          BY <5>1, <5>2 DEF HandlerOwns
        <5> QED
          BY <5>3, LenType, BudgetType, BoundsAssumption
      <4> QED
        BY <4>2, <4>3, <4>4
    <3> QED
      BY <2>1, <2>2, <2>4, <3>1 DEF WithinBudget
  <2> QED
    BY <2>3, <2>4
<1> QED
  BY <1>1, <1>2, <1>3, <1>4, MarkingSteps

\* A task is tried at most MaxAttempts times (once if that is 0), plus one
\* attempt for every crash, which may leave one behind unpublished.
THEOREM BudgetIsKept == ASSUME OneExecutor PROVE Spec => []AttemptsWithinBudget
<1>1. Init => WithinBudget
  <2> SUFFICES ASSUME Init PROVE WithinBudget
    OBVIOUS
  <2>1. \A t \in Task : attempts[t] = <<>>
    BY DEF Init
  <2>2. Budget \in Nat /\ Budget > 0
    BY InitIInv, BudgetType
  <2> QED
    BY <2>1, <2>2 DEF WithinBudget
<1>2. IInv /\ IInv' /\ PlanSaved /\ Owned /\ WithinBudget /\ [Next]_vars => WithinBudget'
  BY StepBudget
<1>3. WithinBudget => AttemptsWithinBudget
  BY DEF WithinBudget, AttemptsWithinBudget, Budget
<1> QED
  BY <1>1, <1>2, <1>3, Invariance, PlanIsPrefix, Ownership, PTL DEF Spec

LEMMA LiveType ==
  ASSUME IInv, NEW t \in Task
  PROVE  /\ Live(t) \subseteq 1..Len(attempts[t]) /\ IsFiniteSet(Live(t))
         /\ Cardinality(Live(t)) \in Nat /\ crashes \in Nat
<1>1. DOMAIN attempts[t] = 1..Len(attempts[t]) /\ Len(attempts[t]) \in Nat
  BY DEF IInv, TypeOK
<1>2. Live(t) \subseteq 1..Len(attempts[t])
  BY <1>1 DEF Live
<1>3. IsFiniteSet(1..Len(attempts[t]))
  BY <1>1, FS_Interval
<1>4. IsFiniteSet(Live(t)) /\ Cardinality(Live(t)) \in Nat
  BY <1>2, <1>3, FS_Subset, FS_CardinalityType
<1> QED
  BY <1>2, <1>4, BudgetType

\* The cases in which no attempt of the task may be open, a crash's apart.
Settled(t) == (task[t] = "pending" /\ ~Marking(t)) \/ Deciding(t)

LEMMA StepLive ==
  ASSUME OneExecutor, IInv, IInv', PlanSaved, Owned, FewLive, [Next]_vars PROVE FewLive'
<1>1. ASSUME NEW e \in Executors, PumpSaveTaskRun(e) PROVE FewLive'
  <2>0. PICK t : t = pump[e].cur
    OBVIOUS
  <2> DEFINE k == Len(attempts[t]) + 1
  <2>1. /\ t \in Task /\ k \in Nat \ {0} /\ DOMAIN attempts[t] = 1..k-1
        /\ DOMAIN attempts'[t] = 1..k /\ attempts'[t][k].status = "running"
        /\ \A n \in 1..k-1 : attempts'[t][n] = attempts[t][n]
        /\ \A u \in Task : u # t => attempts'[u] = attempts[u]
        /\ pump[e].pc = "save_run" /\ pump'[e].pc = "save_task" /\ pump'[e].cur = t
    BY <1>1, <2>0, PumpSaveTaskRunDoes
  <2>2. UNCHANGED <<task, crashes, handler>>
    BY <1>1 DEF PumpSaveTaskRun, envVars
  <2>3. task[t] = "pending"
    <3>1. PumpOwns(pump[e])
      BY DEF Owned
    <3> QED
      BY <2>0, <2>1, <3>1 DEF PumpOwns
  <2>4. Marking(t)' /\ \A u \in Task : ~Marking(u)
    BY <2>1 DEF Marking, OneExecutor
  <2>5. ~Deciding(t)
    <3>1. \A f \in Executors : HandlerOwns(handler[f])
      BY DEF Owned
    <3> QED
      BY <2>3, <3>1 DEF Deciding, HandlerOwns, Current
  <2>6. \A u \in Task : Deciding(u)' <=> Deciding(u)
    BY <2>2 DEF Deciding
  <2>7. Cardinality(Live(t)) <= crashes
    BY <2>1, <2>3, <2>4 DEF FewLive
  <2>8. Live(t)' = Live(t) \cup {k} /\ k \notin Live(t)
    <3> HIDE DEF k
    <3>1. \A n \in 1..k : n = k \/ n \in 1..k-1
      BY <2>1
    <3>2. k \notin 1..k-1 /\ k \in 1..k /\ \A n \in 1..k-1 : n \in 1..k
      BY <2>1
    <3> QED
      BY <2>1, <3>1, <3>2 DEF Live
  <2>9. Cardinality(Live(t)') = Cardinality(Live(t)) + 1
    <3>1. IsFiniteSet(Live(t))
      BY <2>1, LiveType
    <3>2. Cardinality(Live(t) \cup {k}) = Cardinality(Live(t)) + 1
      BY <2>8, <3>1, FS_AddElement
    <3> QED
      BY <2>8, <3>2
  <2>10. Cardinality(Live(t)') <= 1 + crashes'
    <3>1. Cardinality(Live(t)) \in Nat /\ crashes \in Nat
      BY <2>1, LiveType
    <3> QED
      BY <2>2, <2>7, <2>9, <3>1
  <2>11. \A u \in Task : u # t => Live(u)' = Live(u)
    BY <2>1 DEF Live
  <2>12. ASSUME NEW u \in Task
         PROVE  /\ Cardinality(Live(u)') <= 1 + crashes'
                /\ Settled(u)' => Cardinality(Live(u)') <= crashes'
    <3>1. CASE u = t
      BY <3>1, <2>4, <2>5, <2>6, <2>10 DEF Settled
    <3>2. CASE u # t
      BY <3>2, <2>2, <2>4, <2>6, <2>11 DEF FewLive, Settled
    <3> QED
      BY <3>1, <3>2
  <2> QED
    BY <2>12 DEF FewLive, Settled
<1>2. ASSUME NEW e \in Executors, HandlerSaveTaskRun(e) PROVE FewLive'
  <2>0. PICK t, n : t = handler[e].msg.attempt.task /\ n = handler[e].msg.attempt.n
    OBVIOUS
  <2>1. /\ t \in Task /\ n \in DOMAIN attempts[t] /\ DOMAIN attempts'[t] = DOMAIN attempts[t]
        /\ attempts'[t][n].status \in {"success", "failed"}
        /\ \A k \in DOMAIN attempts[t] : k # n => attempts'[t][k] = attempts[t][k]
        /\ \A u \in Task : u # t => attempts'[u] = attempts[u]
        /\ handler[e].pc = "save_run" /\ handler'[e].msg = handler[e].msg
    BY <1>2, <2>0, HandlerSaveTaskRunDoes
  <2>2. UNCHANGED <<task, crashes, pump>>
    BY <1>2 DEF HandlerSaveTaskRun, envVars
  <2>3. attempts[t][n].status = "running"
    <3>1. HandlerOwns(handler[e]) /\ RowsOwned
      BY DEF Owned
    <3>2. ~Done(handler[e].msg.attempt)
      BY <2>1, <3>1 DEF HandlerOwns
    <3>3. attempts[t][n].status \in {"running", "success", "failed"}
      BY <2>1, <3>1 DEF RowsOwned
    <3> QED
      BY <2>0, <3>2, <3>3 DEF Done, TerminalRun
  <2>4. Live(t)' = Live(t) \ {n} /\ n \in Live(t)
    BY <2>1, <2>3 DEF Live
  <2>5. Cardinality(Live(t)') = Cardinality(Live(t)) - 1
    BY <2>1, <2>4, LiveType, FS_RemoveElement
  <2>6. Cardinality(Live(t)') <= crashes' /\ Cardinality(Live(t)') <= 1 + crashes'
    <3>1. Cardinality(Live(t)) \in Nat /\ crashes \in Nat
      BY <2>1, LiveType
    <3>2. Cardinality(Live(t)) <= 1 + crashes
      BY <2>1 DEF FewLive
    <3> QED
      BY <2>2, <2>5, <3>1, <3>2
  <2>7. \A u \in Task : u # t => Live(u)' = Live(u)
    BY <2>1 DEF Live
  <2>8. \A u \in Task : /\ Marking(u)' <=> Marking(u)
                        /\ Deciding(u)' => u = t
    BY <2>0, <2>1, <2>2 DEF Marking, Deciding, OneExecutor
  <2>9. ASSUME NEW u \in Task
        PROVE  /\ Cardinality(Live(u)') <= 1 + crashes'
               /\ Settled(u)' => Cardinality(Live(u)') <= crashes'
    <3>1. CASE u = t
      BY <3>1, <2>6
    <3>2. CASE u # t
      BY <3>2, <2>2, <2>7, <2>8 DEF FewLive, Settled
    <3> QED
      BY <3>1, <3>2
  <2> QED
    BY <2>9 DEF FewLive, Settled
<1>3. ASSUME NEW e \in Executors, PumpSaveTask(e) PROVE FewLive'
  <2>0. PICK t : t = pump[e].cur
    OBVIOUS
  <2>1. /\ task'[t] = "running" /\ \A u \in Task : u # t => task'[u] = task[u]
        /\ pump[e].pc = "save_task"
    BY <1>3, <2>0, PumpSaveTaskDoes
  <2>2. UNCHANGED <<attempts, crashes, handler>>
    BY <1>3 DEF PumpSaveTask, envVars
  <2>3. \A u \in Task : u # t => ~Marking(u)
    BY <2>0 DEF Marking, OneExecutor
  <2>4. \A u \in Task : (Deciding(u)' <=> Deciding(u)) /\ Live(u)' = Live(u)
    BY <2>2 DEF Deciding, Live
  <2>5. ASSUME NEW u \in Task
        PROVE  /\ Cardinality(Live(u)') <= 1 + crashes'
               /\ Settled(u)' => Cardinality(Live(u)') <= crashes'
    <3>1. Settled(u)' => Settled(u)
      BY <2>1, <2>3, <2>4 DEF Settled
    <3> QED
      BY <2>2, <2>4, <3>1 DEF FewLive, Settled
  <2> QED
    BY <2>5 DEF FewLive, Settled
<1>4. ASSUME NEW e \in Executors, ExecutorCrash(e) PROVE FewLive'
  <2>1. UNCHANGED attempts /\ crashes' = crashes + 1
    BY <1>4, ExecutorCrashDoes DEF ExecutorCrash, dbVars
  <2>2. \A u \in Task : Live(u)' = Live(u)
    BY <2>1 DEF Live
  <2>3. ASSUME NEW u \in Task
        PROVE  Cardinality(Live(u)') <= 1 + crashes' /\ Cardinality(Live(u)') <= crashes'
    BY <2>1, <2>2, LiveType DEF FewLive
  <2> QED
    BY <2>3 DEF FewLive
<1>5. ASSUME UNCHANGED crashes, \A t \in Task : Marking(t)' <=> Marking(t),
             ~ \E e \in Executors : PumpSaveTaskRun(e) \/ HandlerSaveTaskRun(e)
      PROVE  FewLive'
  <2>1. UNCHANGED attempts
    BY <1>5, AttemptSteps
  <2>2. \A u \in Task : (Deciding(u)' => Deciding(u)) /\ Live(u)' = Live(u)
    BY <1>5, <2>1, DecidingSteps DEF Live
  <2>3. ASSUME NEW u \in Task, Settled(u)' PROVE Cardinality(Live(u)) <= crashes
    <3>1. CASE Deciding(u)'
      BY <3>1, <2>2 DEF FewLive
    <3>2. CASE ~Deciding(u)'
      <4>1. task'[u] = "pending" /\ ~Marking(u)
        BY <1>5, <2>3, <3>2 DEF Settled
      <4>2. CASE task[u] = "pending"
        BY <4>1, <4>2 DEF FewLive
      <4>3. CASE task[u] = Absent
        <5>1. Live(u) = {}
          BY <4>3, AbsentHasNone DEF Live
        <5> QED
          BY <5>1, FS_EmptySet, LiveType
      <4>4. CASE task[u] \notin {"pending", Absent}
        <5>1. Deciding(u)
          BY <4>1, <4>4, BackToPending DEF Deciding
        <5> QED
          BY <5>1 DEF FewLive
      <4> QED
        BY <4>2, <4>3, <4>4
    <3> QED
      BY <3>1, <3>2
  <2> QED
    BY <1>5, <2>2, <2>3 DEF FewLive, Settled
<1> QED
  BY <1>1, <1>2, <1>3, <1>4, <1>5, MarkingSteps

\* A task never has two attempts running at once, except those a crash orphaned.
THEOREM FewAttemptsLive == ASSUME OneExecutor PROVE Spec => []OneLiveAttempt
<1>1. Init => FewLive
  <2> SUFFICES ASSUME Init, NEW t \in Task PROVE Cardinality(Live(t)) = 0 /\ crashes = 0
    BY DEF FewLive
  <2>1. Live(t) = {}
    BY DEF Init, Live
  <2> QED
    BY <2>1, FS_EmptySet DEF Init
<1>2. IInv /\ IInv' /\ PlanSaved /\ Owned /\ FewLive /\ [Next]_vars => FewLive'
  BY StepLive
<1>3. FewLive => OneLiveAttempt
  BY DEF FewLive, OneLiveAttempt, Live
<1> QED
  BY <1>1, <1>2, <1>3, Invariance, PlanIsPrefix, Ownership, PTL DEF Spec

-----------------------------------------------------------------------------
(* Any number of executors and one worker replica.  The executors may make *)
(* several attempts of one task and hand each other's statuses about, but  *)
(* an attempt is requested once and answered once, so two status loops     *)
(* that work on the same attempt record the same outcome.                  *)

OneReplica == \A v, w \in Workers : v = w

Outcome(m) == IF m.ok THEN "success" ELSE "failed"

\* The status is on its way to some executor, or its status loop holds it.
Said(m) == \E e \in Executors : m \in statuses[e] \/ m = handler[e].msg

\* No outcome is recorded for the attempt, and nobody has heard of one.
Unsaid(a) == ~Done(a) /\ \A m \in StatusMsg : Said(m) => m.attempt # a

\* A ready attempt was not requested, and no other entry of a list is about it.
ReadyOnce ==
  \A e \in Executors : \A i \in DOMAIN pump[e].ready :
    /\ Unsaid(pump[e].ready[i])
    /\ \A q \in requests : q.attempt # pump[e].ready[i]
    /\ \A f \in Executors : \A j \in DOMAIN pump[f].ready :
         pump[f].ready[j] = pump[e].ready[i] => f = e /\ j = i

RequestedOnce == \A q \in requests : Unsaid(q.attempt)

StatusesAgree ==
  \A m, n \in StatusMsg : Said(m) /\ Said(n) /\ m.attempt = n.attempt => m.ok = n.ok

RecordedAsSaid ==
  \A m \in StatusMsg :
    Said(m) /\ Done(m.attempt) => attempts[m.attempt.task][m.attempt.n].status = Outcome(m)

\* Once the loop has saved its attempt, the attempt has the outcome of its
\* message, and the task will get it too unless it is tried again.
HandlerSays(h) ==
  /\ h.pc \in {"get_task", "list_attempts", "save_task"}
       => attempts[h.msg.attempt.task][h.msg.attempt.n].status = Outcome(h.msg)
  /\ h.pc = "list_attempts" => ~h.msg.ok
  /\ h.pc = "save_task" => (h.next = "success" <=> h.msg.ok)

OnceSaid ==
  /\ ReadyOnce /\ RequestedOnce /\ StatusesAgree /\ RecordedAsSaid
  /\ \A e \in Executors : HandlerSays(handler[e])

LEMMA InitOnceSaid == Init => OnceSaid
<1> SUFFICES ASSUME Init PROVE OnceSaid
  OBVIOUS
<1>1. \A m \in StatusMsg : ~Said(m)
  BY NoneAssumption DEF Init, Said, HandlerIdle
<1> QED
  BY <1>1 DEF Init, OnceSaid, ReadyOnce, RequestedOnce, StatusesAgree, RecordedAsSaid,
              HandlerSays, PumpIdle, HandlerIdle

\* A status is about an attempt whose row exists.
LEMMA SaidOfSaved ==
  ASSUME IInv, NEW m \in StatusMsg, Said(m)
  PROVE  m.attempt \in Attempt /\ Saved(m.attempt)
<1>1. PICK f \in Executors : m \in statuses[f] \/ m = handler[f].msg
  BY DEF Said
<1>2. CASE m \in statuses[f]
  BY <1>2 DEF IInv, NetOK, StatusMsg
<1>3. CASE m = handler[f].msg
  BY <1>3, RecordOfLoop, NoneAssumption DEF HandlerOK, StatusMsg
<1> QED
  BY <1>1, <1>2, <1>3

\* The message in hand is a status.
LEMMA HeldIsSaid ==
  ASSUME IInv, NEW e \in Executors, handler[e].pc # "idle"
  PROVE  handler[e].msg \in StatusMsg /\ Said(handler[e].msg)
<1>1. handler[e].msg \in StatusMsg
  BY CurrentMessage
<1> QED
  BY <1>1 DEF Said

LEMMA PumpAlone ==
  ASSUME IInv, NEW e \in Executors, Pump(e)
  PROVE  UNCHANGED <<handler, statuses>> /\ \A f \in Executors : f # e => pump'[f] = pump[f]
<1>1. pump \in [Executors -> PumpState]
  BY DEF IInv, TypeOK
<1>2. CASE PumpList(e) \/ PumpCountAttempts(e) \/ PumpSaveTaskRun(e)
  BY <1>1, <1>2 DEF PumpTo, netVars, PumpList, PumpCountAttempts, PumpSaveTaskRun
<1>3. CASE PumpConsider(e)
  BY <1>1, <1>3 DEF PumpTo, netVars, PumpConsider
<1>4. CASE PumpSaveTask(e) \/ PumpGetDag(e) \/ PumpSaveDag(e)
  BY <1>1, <1>4 DEF PumpTo, netVars, PumpSaveTask, PumpGetDag, PumpSaveDag
<1>5. CASE PumpPublish(e) \/ PumpSleep(e)
  BY <1>1, <1>5 DEF PumpTo, netVars, PumpPublish, PumpSleep
<1> QED
  BY <1>2, <1>3, <1>4, <1>5 DEF Pump

LEMMA HandlerAlone ==
  ASSUME IInv, NEW e \in Executors, Handler(e)
  PROVE  UNCHANGED <<pump, requests>> /\ \A f \in Executors : f # e => handler'[f] = handler[f]
<1>1. handler \in [Executors -> HandlerState]
  BY DEF IInv, TypeOK
<1>2. CASE HandlerReceive(e)
  BY <1>1, <1>2 DEF HandlerTo, HandlerReceive
<1>3. CASE HandlerSaveTaskRun(e) \/ HandlerGetTask(e) \/ HandlerListAttempts(e)
  BY <1>1, <1>3 DEF HandlerTo, netVars, HandlerSaveTaskRun, HandlerGetTask, HandlerListAttempts
<1>4. CASE HandlerSaveTask(e) \/ HandlerFanOut(e) \/ HandlerGetDag(e)
  BY <1>1, <1>4 DEF HandlerTo, netVars, HandlerSaveTask, HandlerFanOut, HandlerGetDag
<1>5. CASE HandlerListTasks(e) \/ HandlerSaveDag(e)
  BY <1>1, <1>5 DEF HandlerTo, netVars, HandlerListTasks, HandlerSaveDag
<1> QED
  BY <1>2, <1>3, <1>4, <1>5 DEF Handler

\* A step that says nothing new, records nothing and publishes nothing.
LEMMA OnceSaidKept ==
  ASSUME IInv, OnceSaid, UNCHANGED attempts, requests' \subseteq requests,
         \A f \in Executors : statuses'[f] \subseteq statuses[f],
         \A f \in Executors : handler'[f].msg \in {None, handler[f].msg} \cup statuses[f],
         \A f \in Executors : pump'[f].ready = pump[f].ready \/ pump'[f].ready = <<>>,
         \A f \in Executors : HandlerSays(handler[f])'
  PROVE  OnceSaid'
<1>1. ASSUME NEW m \in StatusMsg, Said(m)' PROVE Said(m)
  BY <1>1, NoneAssumption DEF Said
<1>2. ReadyOnce'
  <2> SUFFICES ASSUME NEW e \in Executors, NEW i \in DOMAIN pump'[e].ready
               PROVE  /\ Unsaid(pump[e].ready[i])'
                      /\ \A q \in requests' : q.attempt # pump'[e].ready[i]
                      /\ \A f \in Executors : \A j \in DOMAIN pump'[f].ready :
                           pump'[f].ready[j] = pump'[e].ready[i] => f = e /\ j = i
    BY DEF ReadyOnce
  <2>1. \A f \in Executors : \A j \in DOMAIN pump'[f].ready : pump'[f].ready = pump[f].ready
    BY DEF IInv, TypeOK, PumpState
  <2>2. pump'[e].ready[i] = pump[e].ready[i] /\ i \in DOMAIN pump[e].ready
    BY <2>1
  <2>3. Unsaid(pump[e].ready[i]) /\ \A q \in requests : q.attempt # pump[e].ready[i]
    BY <2>2 DEF OnceSaid, ReadyOnce
  <2>4. Unsaid(pump[e].ready[i])'
    BY <1>1, <2>2, <2>3 DEF Unsaid, Done
  <2>5. \A f \in Executors : \A j \in DOMAIN pump[f].ready :
          pump[f].ready[j] = pump[e].ready[i] => f = e /\ j = i
    BY <2>2 DEF OnceSaid, ReadyOnce
  <2> QED
    BY <2>1, <2>2, <2>3, <2>4, <2>5
<1>3. RequestedOnce'
  BY <1>1 DEF OnceSaid, RequestedOnce, Unsaid, Done
<1>4. StatusesAgree' /\ RecordedAsSaid'
  BY <1>1 DEF OnceSaid, StatusesAgree, RecordedAsSaid, Done
<1> QED
  BY <1>2, <1>3, <1>4 DEF OnceSaid

LEMMA PumpOnceSaid ==
  ASSUME IInv, OnceSaid, NEW e \in Executors, Pump(e), ~PumpSaveTaskRun(e), ~PumpPublish(e)
  PROVE  OnceSaid'
<1>1. UNCHANGED <<attempts, requests, statuses, handler>>
      /\ \A f \in Executors : f # e => pump'[f] = pump[f]
  <2>1. UNCHANGED <<attempts, requests>>
    BY DEF dbVars, netVars, Pump, PumpList, PumpConsider, PumpCountAttempts, PumpSaveTask,
           PumpGetDag, PumpSaveDag, PumpSleep
  <2> QED
    BY <2>1, PumpAlone
<1>2. pump'[e].ready = pump[e].ready \/ pump'[e].ready = <<>>
  <2>1. PumpIdle.ready = <<>>
    BY DEF PumpIdle
  <2> QED
    BY <2>1, PumpListDoes, PumpConsiderDoes, PumpCountAttemptsDoes, PumpSaveTaskDoes,
       PumpGetDagDoes, PumpSaveDagDoes, PumpSleepDoes DEF Pump
<1>3. \A f \in Executors : HandlerSays(handler[f])'
  BY <1>1 DEF OnceSaid, HandlerSays
<1> QED
  BY <1>1, <1>2, <1>3, OnceSaidKept

\* The new attempt is one that no message and no list can name yet.
LEMMA PumpSaveTaskRunOnceSaid ==
  ASSUME IInv, OnceSaid, NEW e \in Executors, PumpSaveTaskRun(e)
  PROVE  OnceSaid'
<1> DEFINE t == pump[e].cur
           k == Len(attempts[t]) + 1
           old == pump[e].ready
<1> PICK new : new = [task |-> t, n |-> k]
  OBVIOUS
<1>1. /\ t \in Task /\ k \in Nat \ {0}
      /\ attempts'[t][k].status = "running"
      /\ \A n \in 1..k-1 : attempts'[t][n] = attempts[t][n]
      /\ \A u \in Task : u # t => attempts'[u] = attempts[u]
      /\ pump'[e].ready = Append(old, new)
  BY PumpSaveTaskRunDoes
<1>2. UNCHANGED <<handler, statuses, requests>> /\ \A f \in Executors : f # e => pump'[f] = pump[f]
  <2>1. Pump(e)
    BY DEF Pump
  <2>2. UNCHANGED requests
    BY DEF PumpSaveTaskRun, netVars
  <2> QED
    BY <2>1, <2>2, PumpAlone
<1>3. \A m \in StatusMsg : Said(m)' <=> Said(m)
  BY <1>2 DEF Said
<1>4. ASSUME NEW a \in Attempt, Saved(a)
      PROVE  a # new /\ attempts'[a.task][a.n] = attempts[a.task][a.n]
  <2>1. a.task \in Task /\ a.n \in Nat \ {0} /\ a.n <= Len(attempts[a.task])
    BY <1>4 DEF Attempt, Saved
  <2>2. CASE a.task = t
    <3>1. a.n \in 1..k-1 /\ a.n # k
      BY <1>1, <2>1, <2>2
    <3> QED
      BY <1>1, <2>2, <3>1
  <2>3. CASE a.task # t
    BY <1>1, <2>1, <2>3
  <2> QED
    BY <2>2, <2>3
<1>5. \A m \in StatusMsg : Said(m) => m.attempt \in Attempt /\ Saved(m.attempt)
  BY SaidOfSaved
<1>6. \A q \in requests : q.attempt \in Attempt /\ Saved(q.attempt)
  BY DEF IInv, TypeOK, NetOK
<1>7. ASSUME NEW f \in Executors, NEW i \in DOMAIN pump[f].ready
      PROVE  pump[f].ready[i] \in Attempt /\ Saved(pump[f].ready[i])
  BY <1>7, RecordOfLoop DEF PumpState, PumpOK
<1>8. new.task = t /\ new.n = k /\ new \in Attempt
  BY <1>1 DEF Attempt
<1>9. old \in Seq(Attempt)
  BY RecordOfLoop DEF PumpState
<1> HIDE DEF k, t, old
<1>10. ~Done(new)' /\ \A a \in Attempt : Saved(a) => (Done(a)' <=> Done(a))
  BY <1>1, <1>4, <1>8 DEF Done, TerminalRun
<1>11. Unsaid(new)'
  BY <1>3, <1>4, <1>5, <1>10 DEF Unsaid
<1>12. \A a \in Attempt : Saved(a) /\ Unsaid(a) => Unsaid(a)'
  BY <1>3, <1>10 DEF Unsaid
<1>13. ReadyOnce'
  <2>1. /\ Len(old) \in Nat /\ DOMAIN old = 1..Len(old)
        /\ DOMAIN pump'[e].ready = 1..Len(old) + 1
        /\ pump'[e].ready[Len(old) + 1] = new
        /\ \A i \in 1..Len(old) : pump'[e].ready[i] = old[i]
    BY <1>1, <1>8, <1>9
  <2>2. ASSUME NEW f \in Executors, NEW i \in DOMAIN pump'[f].ready
        PROVE  \/ f = e /\ i = Len(old) + 1 /\ pump'[f].ready[i] = new
               \/ i \in DOMAIN pump[f].ready /\ pump'[f].ready[i] = pump[f].ready[i]
    <3>1. CASE f # e
      BY <1>2, <2>2, <3>1
    <3>2. CASE f = e
      <4>1. i \in 1..Len(old) + 1
        BY <2>1, <2>2, <3>2
      <4>2. i = Len(old) + 1 \/ i \in 1..Len(old)
        BY <2>1, <4>1
      <4>3. pump[f].ready = old
        BY <3>2 DEF old
      <4> QED
        BY <2>1, <3>2, <4>2, <4>3
    <3> QED
      BY <3>1, <3>2
  <2> SUFFICES ASSUME NEW f \in Executors, NEW i \in DOMAIN pump'[f].ready
               PROVE  /\ Unsaid(pump[f].ready[i])'
                      /\ \A q \in requests' : q.attempt # pump'[f].ready[i]
                      /\ \A g \in Executors : \A j \in DOMAIN pump'[g].ready :
                           pump'[g].ready[j] = pump'[f].ready[i] => g = f /\ j = i
    BY DEF ReadyOnce
  <2>3. CASE f = e /\ i = Len(old) + 1 /\ pump'[f].ready[i] = new
    <3>1. Unsaid(pump[f].ready[i])'
      BY <1>11, <2>3 DEF Unsaid, Done
    <3>2. \A q \in requests' : q.attempt # pump'[f].ready[i]
      BY <1>2, <1>4, <1>6, <2>3
    <3>3. \A g \in Executors : \A j \in DOMAIN pump'[g].ready :
            pump'[g].ready[j] = pump'[f].ready[i] => g = f /\ j = i
      BY <1>4, <1>7, <2>2, <2>3
    <3> QED
      BY <3>1, <3>2, <3>3
  <2>4. CASE i \in DOMAIN pump[f].ready /\ pump'[f].ready[i] = pump[f].ready[i]
    <3> DEFINE a == pump[f].ready[i]
    <3>1. /\ a \in Attempt /\ Saved(a) /\ Unsaid(a)
          /\ \A q \in requests : q.attempt # a
          /\ \A g \in Executors : \A j \in DOMAIN pump[g].ready :
               pump[g].ready[j] = a => g = f /\ j = i
      BY <1>7, <2>4 DEF OnceSaid, ReadyOnce
    <3> HIDE DEF a
    <3>2. pump'[f].ready[i] = a /\ Unsaid(a)
      BY <2>4, <3>1 DEF a
    <3>3. Unsaid(pump[f].ready[i])'
      <4>1. ~(attempts'[a.task][a.n].status \in TerminalRun)
            /\ \A m \in StatusMsg : Said(m)' => m.attempt # a
        BY <1>3, <1>10, <3>1 DEF Unsaid, Done
      <4> QED
        BY <3>2, <4>1 DEF Unsaid, Done
    <3>4. \A g \in Executors : \A j \in DOMAIN pump'[g].ready :
            pump'[g].ready[j] = pump'[f].ready[i] => g = f /\ j = i
      BY <1>4, <2>2, <3>1, <3>2
    <3> QED
      BY <1>2, <3>1, <3>2, <3>3, <3>4
  <2> QED
    BY <2>2, <2>3, <2>4
<1>14. RequestedOnce'
  <2> SUFFICES ASSUME NEW q \in requests PROVE Unsaid(q.attempt)'
    BY <1>2 DEF RequestedOnce, Unsaid, Done
  <2> QED
    BY <1>6, <1>3, <1>10 DEF OnceSaid, RequestedOnce, Unsaid
<1>15. StatusesAgree' /\ RecordedAsSaid'
  BY <1>3, <1>4, <1>5 DEF OnceSaid, StatusesAgree, RecordedAsSaid, Done
<1>16. ASSUME NEW f \in Executors PROVE HandlerSays(handler[f])'
  <2>1. CASE handler[f].pc = "idle"
    BY <1>2, <2>1 DEF HandlerSays
  <2>2. CASE handler[f].pc # "idle"
    <3>1. handler[f].msg.attempt \in Attempt /\ Saved(handler[f].msg.attempt)
      BY <2>2, RecordOfLoop, CurrentMessage DEF StatusMsg, HandlerOK
    <3> QED
      BY <1>2, <1>4, <3>1 DEF OnceSaid, HandlerSays
  <2> QED
    BY <2>1, <2>2
<1> QED
  BY <1>13, <1>14, <1>15, <1>16 DEF OnceSaid

\* The attempt leaves the list and becomes the request.
LEMMA PumpPublishOnceSaid ==
  ASSUME IInv, OnceSaid, NEW e \in Executors, PumpPublish(e)
  PROVE  OnceSaid'
<1> DEFINE old == pump[e].ready
<1>1. /\ Len(old) \in Nat \ {0}
      /\ \A q \in requests' : q \in requests \/ q.attempt = old[1]
      /\ Len(pump'[e].ready) = Len(old) - 1
      /\ \A i \in 1..Len(pump'[e].ready) : pump'[e].ready[i] = old[i + 1]
  BY PumpPublishDoes
<1>2. UNCHANGED <<attempts, handler, statuses>> /\ \A f \in Executors : f # e => pump'[f] = pump[f]
  <2>1. Pump(e)
    BY DEF Pump
  <2>2. UNCHANGED attempts
    BY DEF PumpPublish, dbVars
  <2> QED
    BY <2>1, <2>2, PumpAlone
<1>3. \A m \in StatusMsg : Said(m)' <=> Said(m)
  BY <1>2 DEF Said
<1>4. DOMAIN old = 1..Len(old) /\ DOMAIN pump'[e].ready = 1..Len(pump'[e].ready)
  <2>1. IInv'
    BY PumpPublishInv
  <2>2. pump[e].ready \in Seq(Attempt) /\ pump'[e].ready \in Seq(Attempt)
    BY <2>1 DEF IInv, TypeOK, PumpState
  <2> QED
    BY <2>2
<1>5. /\ Unsaid(old[1]) /\ 1 \in DOMAIN old
      /\ \A f \in Executors : \A j \in DOMAIN pump[f].ready :
           pump[f].ready[j] = old[1] => f = e /\ j = 1
  BY <1>1, <1>4 DEF OnceSaid, ReadyOnce
<1> DEFINE From(f, i) == IF f = e THEN i + 1 ELSE i
<1>6. ASSUME NEW f \in Executors, NEW i \in DOMAIN pump'[f].ready
      PROVE  /\ From(f, i) \in DOMAIN pump[f].ready
             /\ pump'[f].ready[i] = pump[f].ready[From(f, i)]
             /\ f = e => From(f, i) # 1 /\ i \in Nat
  <2>1. CASE f # e
    BY <1>2, <1>6, <2>1
  <2>2. CASE f = e
    <3>1. i \in 1..Len(pump'[e].ready) /\ From(f, i) = i + 1
      BY <1>4, <1>6, <2>2
    <3>2. i \in Nat /\ i # 0 /\ i + 1 \in 1..Len(old)
      BY <1>1, <3>1
    <3>3. pump'[f].ready[i] = pump[f].ready[i + 1]
      BY <1>1, <2>2, <3>1
    <3> QED
      BY <1>4, <2>2, <3>1, <3>2, <3>3
  <2> QED
    BY <2>1, <2>2
<1>7. ReadyOnce'
  <2> SUFFICES ASSUME NEW f \in Executors, NEW i \in DOMAIN pump'[f].ready
               PROVE  /\ Unsaid(pump[f].ready[i])'
                      /\ \A q \in requests' : q.attempt # pump'[f].ready[i]
                      /\ \A g \in Executors : \A j \in DOMAIN pump'[g].ready :
                           pump'[g].ready[j] = pump'[f].ready[i] => g = f /\ j = i
    BY DEF ReadyOnce
  <2> PICK a, k : a = pump'[f].ready[i] /\ k = From(f, i)
    OBVIOUS
  <2>1. a = pump[f].ready[k] /\ k \in DOMAIN pump[f].ready /\ (f = e => k # 1)
    BY <1>6
  <2>2. /\ Unsaid(a)
        /\ \A q \in requests : q.attempt # a
        /\ \A g \in Executors : \A j \in DOMAIN pump[g].ready :
             pump[g].ready[j] = a => g = f /\ j = k
    BY <2>1 DEF OnceSaid, ReadyOnce
  <2>3. Unsaid(pump[f].ready[i])'
    BY <1>2, <1>3, <2>2 DEF Unsaid, Done
  <2>4. old[1] # a
    BY <1>5, <2>1
  <2>5. ASSUME NEW g \in Executors, NEW j \in DOMAIN pump'[g].ready, pump'[g].ready[j] = a
        PROVE  g = f /\ j = i
    <3>1. From(g, j) \in DOMAIN pump[g].ready /\ pump[g].ready[From(g, j)] = a
          /\ (g = e => j \in Nat)
      BY <1>6, <2>5
    <3>2. g = f /\ From(g, j) = From(f, i)
      BY <2>2, <3>1
    <3>3. f = e => i \in Nat
      BY <1>6
    <3> QED
      BY <3>1, <3>2, <3>3
  <2> QED
    BY <1>1, <2>2, <2>3, <2>4, <2>5
<1>8. RequestedOnce'
  <2> SUFFICES ASSUME NEW q \in requests' PROVE Unsaid(q.attempt)'
    BY DEF RequestedOnce
  <2>1. Unsaid(q.attempt)
    BY <1>1, <1>5 DEF OnceSaid, RequestedOnce
  <2> QED
    BY <1>2, <1>3, <2>1 DEF Unsaid, Done
<1>9. StatusesAgree' /\ RecordedAsSaid'
  BY <1>2, <1>3 DEF OnceSaid, StatusesAgree, RecordedAsSaid, Done
<1>10. \A f \in Executors : HandlerSays(handler[f])'
  BY <1>2 DEF OnceSaid, HandlerSays
<1> QED
  BY <1>7, <1>8, <1>9, <1>10 DEF OnceSaid

\* A status loop that records no outcome takes a message or goes on with the one
\* it has.
LEMMA HandlerOnceSaid ==
  ASSUME IInv, OnceSaid, NEW e \in Executors, Handler(e), ~HandlerSaveTaskRun(e)
  PROVE  OnceSaid'
<1>1. /\ UNCHANGED <<attempts, pump, requests>>
      /\ \A f \in Executors : statuses'[f] \subseteq statuses[f]
      /\ \A f \in Executors : f # e => handler'[f] = handler[f]
  <2>1. UNCHANGED attempts
    <3>1. CASE HandlerReceive(e)
      BY <3>1 DEF dbVars, HandlerReceive
    <3>1a. CASE HandlerGetTask(e) \/ HandlerListAttempts(e)
      BY <3>1a DEF dbVars, HandlerGetTask, HandlerListAttempts
    <3>2. CASE HandlerSaveTask(e) \/ HandlerFanOut(e)
      BY <3>2 DEF HandlerSaveTask, HandlerFanOut
    <3>3. CASE HandlerGetDag(e) \/ HandlerListTasks(e) \/ HandlerSaveDag(e)
      BY <3>3, SMTT(30) DEF dbVars, HandlerGetDag, HandlerListTasks, HandlerSaveDag
    <3> QED
      BY <3>1, <3>1a, <3>2, <3>3 DEF Handler
  <2>2. HandlerReceive(e) \/ UNCHANGED statuses
    BY DEF netVars, Handler, HandlerGetTask, HandlerListAttempts, HandlerSaveTask,
           HandlerFanOut, HandlerGetDag, HandlerListTasks, HandlerSaveDag
  <2> QED
    BY <2>1, <2>2, HandlerAlone, HandlerReceiveDoes
<1> DEFINE after == handler'[e].msg \in {None, handler[e].msg} \cup statuses[e]
<1>2. HandlerSays(handler[e])
  BY DEF OnceSaid
<1>3. after /\ HandlerSays(handler[e])'
  <2>1. CASE HandlerReceive(e)
    <3>1. handler'[e] = handler[e] \/ (handler'[e].pc = "save_run" /\ handler'[e].msg \in statuses[e])
      BY <2>1, HandlerReceiveDoes
    <3> QED
      BY <1>1, <1>2, <3>1 DEF HandlerSays
  <2>2. CASE HandlerGetTask(e)
    <3>1. /\ handler[e].pc = "get_task" /\ handler'[e].msg = handler[e].msg
          /\ handler[e].msg.ok => handler'[e].pc = "save_task" /\ handler'[e].next = "success"
          /\ ~handler[e].msg.ok => handler'[e].pc = "list_attempts"
      BY <2>2, HandlerGetTaskDoes
    <3> QED
      BY <1>1, <1>2, <3>1 DEF HandlerSays
  <2>3. CASE HandlerListAttempts(e)
    <3>1. /\ handler[e].pc = "list_attempts" /\ handler'[e].pc = "save_task"
          /\ handler'[e].msg = handler[e].msg /\ handler'[e].next \in {"pending", "failed"}
      BY <2>3, HandlerListAttemptsDoes
    <3> QED
      BY <1>1, <1>2, <3>1 DEF HandlerSays
  <2>4. CASE HandlerSaveTask(e) \/ HandlerFanOut(e)
    <3>1. handler'[e].pc \in {"fan_out", "get_dag"} /\ handler'[e].msg = handler[e].msg
      BY <2>4, HandlerSaveTaskDoes, HandlerFanOutDoes
    <3> QED
      BY <3>1 DEF HandlerSays
  <2>5. CASE HandlerGetDag(e) \/ HandlerListTasks(e) \/ HandlerSaveDag(e)
    <3>1. \/ handler'[e].pc \in {"list_tasks", "save_dag"} /\ handler'[e].msg = handler[e].msg
          \/ handler'[e].pc = "idle" /\ handler'[e].msg = None
      BY <2>5, HandlerGetDagDoes, HandlerListTasksDoes, HandlerSaveDagDoes DEF HandlerIdle
    <3> QED
      BY <3>1 DEF HandlerSays
  <2> QED
    BY <2>1, <2>2, <2>3, <2>4, <2>5 DEF Handler
<1>4. \A f \in Executors : HandlerSays(handler[f])'
  BY <1>1, <1>3, SMTT(30) DEF OnceSaid, HandlerSays
<1> QED
  BY <1>1, <1>3, <1>4, OnceSaidKept

\* Whoever records the outcome of this attempt records the same one.
LEMMA HandlerSaveTaskRunOnceSaid ==
  ASSUME IInv, OnceSaid, NEW e \in Executors, HandlerSaveTaskRun(e)
  PROVE  OnceSaid'
<1> PICK m : m = handler[e].msg
  OBVIOUS
<1>0. handler[e].pc = "save_run" /\ handler'[e].pc = "get_task" /\ handler'[e].msg = m
  BY HandlerSaveTaskRunDoes, SMTT(30)
<1>1. /\ m.attempt.n \in DOMAIN attempts[m.attempt.task]
      /\ attempts'[m.attempt.task][m.attempt.n].status = Outcome(m)
      /\ \A k \in DOMAIN attempts[m.attempt.task] :
           k # m.attempt.n => attempts'[m.attempt.task][k] = attempts[m.attempt.task][k]
      /\ \A u \in Task : u # m.attempt.task => attempts'[u] = attempts[u]
  BY HandlerSaveTaskRunDoes, SMTT(30) DEF Outcome
<1>2. UNCHANGED <<pump, requests, statuses>> /\ \A f \in Executors : f # e => handler'[f] = handler[f]
  <2>1. Handler(e)
    BY DEF Handler
  <2>2. UNCHANGED statuses
    BY DEF HandlerSaveTaskRun, netVars
  <2> QED
    BY <2>1, <2>2, HandlerAlone
<1>3. m \in StatusMsg /\ Said(m) /\ m.attempt \in Attempt
  <2>1. handler[e].msg \in StatusMsg /\ Said(handler[e].msg)
    BY <1>0, HeldIsSaid
  <2> QED
    BY <2>1, SaidOfSaved
<1>4. \A n \in StatusMsg : Said(n)' <=> Said(n)
  BY <1>0, <1>2, SMTT(30) DEF Said
<1>5. ASSUME NEW a \in Attempt, Saved(a), a # m.attempt
      PROVE  attempts'[a.task][a.n] = attempts[a.task][a.n]
  <2>1. a.task \in Task /\ a.n \in Nat \ {0} /\ a.n <= Len(attempts[a.task])
    BY <1>5 DEF Attempt, Saved
  <2>2. a.n \in DOMAIN attempts[a.task]
    BY <2>1 DEF IInv, TypeOK
  <2>3. a.task # m.attempt.task \/ a.n # m.attempt.n
    BY <1>3, <1>5 DEF Attempt
  <2> QED
    BY <1>1, <2>1, <2>2, <2>3
<1>6. \A n \in StatusMsg : Said(n) => n.attempt \in Attempt /\ Saved(n.attempt)
  BY SaidOfSaved
<1>7. ASSUME NEW a \in Attempt, Saved(a), Unsaid(a)
      PROVE  a # m.attempt /\ attempts'[a.task][a.n] = attempts[a.task][a.n]
             /\ \A n \in StatusMsg : Said(n)' => n.attempt # a
  BY <1>3, <1>4, <1>5, <1>7 DEF Unsaid
<1>8. ReadyOnce'
  <2>1. ASSUME NEW f \in Executors, NEW i \in DOMAIN pump[f].ready PROVE Unsaid(pump[f].ready[i])'
    <3>1. pump[f].ready[i] \in Attempt /\ Saved(pump[f].ready[i]) /\ Unsaid(pump[f].ready[i])
      BY <2>1, RecordOfLoop DEF PumpState, PumpOK, OnceSaid, ReadyOnce
    <3> QED
      BY <1>2, <1>7, <3>1 DEF Unsaid, Done
  <2>2. ReadyOnce
    BY DEF OnceSaid
  <2> QED
    BY <1>2, <2>1, <2>2, SMTT(30) DEF ReadyOnce
<1>9. RequestedOnce'
  <2> SUFFICES ASSUME NEW q \in requests PROVE Unsaid(q.attempt)'
    BY <1>2 DEF RequestedOnce, Unsaid, Done
  <2>1. q.attempt \in Attempt /\ Saved(q.attempt) /\ Unsaid(q.attempt)
    BY DEF IInv, TypeOK, NetOK, OnceSaid, RequestedOnce
  <2> QED
    BY <1>7, <2>1 DEF Unsaid, Done
<1>10. ASSUME NEW n \in StatusMsg, Said(n), n.attempt = m.attempt PROVE Outcome(n) = Outcome(m)
  BY <1>3, <1>10 DEF OnceSaid, StatusesAgree, Outcome
<1>11. StatusesAgree' /\ RecordedAsSaid'
  <2>1. StatusesAgree'
    BY <1>4 DEF OnceSaid, StatusesAgree
  <2>2. ASSUME NEW n \in StatusMsg, Said(n), attempts'[n.attempt.task][n.attempt.n].status \in TerminalRun
        PROVE  attempts'[n.attempt.task][n.attempt.n].status = Outcome(n)
    <3>1. CASE n.attempt = m.attempt
      <4>1. Outcome(n) = Outcome(m)
        BY <1>10, <2>2, <3>1
      <4> QED
        BY <1>1, <3>1, <4>1
    <3>2. CASE n.attempt # m.attempt
      <4>1. attempts'[n.attempt.task][n.attempt.n] = attempts[n.attempt.task][n.attempt.n]
        BY <1>5, <1>6, <2>2, <3>2
      <4>2. Done(n.attempt)
        BY <2>2, <4>1 DEF Done
      <4>3. attempts[n.attempt.task][n.attempt.n].status = Outcome(n)
        BY <2>2, <4>2 DEF OnceSaid, RecordedAsSaid
      <4> QED
        BY <4>1, <4>3
    <3> QED
      BY <3>1, <3>2, ZenonT(40)
  <2> QED
    BY <1>4, <2>1, <2>2 DEF RecordedAsSaid, Done, Outcome
<1>12. ASSUME NEW f \in Executors PROVE HandlerSays(handler[f])'
  <2>1. CASE f = e
    <3>1. attempts'[m.attempt.task][m.attempt.n].status = Outcome(m)
      BY <1>1
    <3>2. handler'[f].pc = "get_task" /\ handler'[f].msg = m
      BY <1>0, <2>1
    <3> QED
      BY <3>1, <3>2, SMTT(30) DEF HandlerSays, Outcome
  <2>2. CASE f # e /\ handler[f].pc = "idle"
    BY <1>2, <2>2 DEF HandlerSays
  <2>3. CASE f # e /\ handler[f].pc # "idle"
    <3> PICK n : n = handler[f].msg
      OBVIOUS
    <3>1. n \in StatusMsg /\ Said(n)
      BY <2>3, CurrentMessage DEF Said
    <3>2. \/ attempts'[n.attempt.task][n.attempt.n] = attempts[n.attempt.task][n.attempt.n]
          \/ attempts'[n.attempt.task][n.attempt.n].status = Outcome(n)
      <4>1. CASE n.attempt = m.attempt
        <5>1. Outcome(n) = Outcome(m)
          BY <1>10, <3>1, <4>1
        <5> QED
          BY <1>1, <4>1, <5>1, Zenon
      <4>2. CASE n.attempt # m.attempt
        BY <1>5, <1>6, <3>1, <4>2
      <4> QED
        BY <4>1, <4>2, Zenon
    <3>3. HandlerSays(handler[f]) /\ handler'[f] = handler[f]
      BY <1>2, <2>3 DEF OnceSaid
    <3> QED
      BY <3>2, <3>3 DEF HandlerSays, Outcome
  <2> QED
    BY <2>1, <2>2, <2>3
<1> QED
  BY <1>8, <1>9, <1>11, <1>12 DEF OnceSaid

\* The one replica answers the one request for the attempt, and every executor
\* receives the same answer.
LEMMA WorkerAnswerOnceSaid ==
  ASSUME OneReplica, IInv, OnceSaid, NEW q \in requests, WorkerAnswer(q)
  PROVE  OnceSaid'
<1>1. UNCHANGED <<attempts, pump, handler>> /\ requests' = requests \ {q}
  BY DEF WorkerAnswer, dbVars
<1>2. PICK new : /\ new.attempt = q.attempt
                 /\ \A f \in Executors : \A m \in statuses'[f] : m \in statuses[f] \/ m = new
  <2>1. PICK a \in Answers(q.attempt.task.kind) :
          statuses' = [f \in Executors |->
                         IF f \notin up THEN statuses[f]
                         ELSE statuses[f] \cup {[attempt |-> q.attempt, worker |-> q.worker,
                                                 ok |-> a.ok, sets |-> a.sets]}]
    BY DEF WorkerAnswer
  <2> PICK new : new = [attempt |-> q.attempt, worker |-> q.worker, ok |-> a.ok, sets |-> a.sets]
    OBVIOUS
  <2>2. new.attempt = q.attempt
    OBVIOUS
  <2>3. \A f \in Executors : \A m \in statuses'[f] : m \in statuses[f] \/ m = new
    BY <2>1
  <2> QED
    BY <2>2, <2>3
<1>3. \A m \in StatusMsg : Said(m)' => Said(m) \/ m = new
  BY <1>1, <1>2 DEF Said
<1>4. Unsaid(q.attempt)
  BY DEF OnceSaid, RequestedOnce
<1>5. \A r \in requests' : r.attempt # q.attempt
  <2> SUFFICES ASSUME NEW r \in requests, r.attempt = q.attempt PROVE r = q
    BY <1>1
  <2>1. /\ r \in [worker : Workers, attempt : Attempt]
        /\ q \in [worker : Workers, attempt : Attempt]
    BY DEF IInv, TypeOK
  <2>2. r.worker = q.worker
    BY <2>1 DEF OneReplica
  <2> QED
    BY <2>1, <2>2
<1>6. ASSUME NEW a, a # q.attempt, ~Done(a), \A m \in StatusMsg : Said(m) => m.attempt # a
      PROVE  ~Done(a) /\ \A m \in StatusMsg : Said(m)' => m.attempt # a
  BY <1>2, <1>3, <1>6
<1>7. ReadyOnce'
  <2>1. ASSUME NEW f \in Executors, NEW i \in DOMAIN pump[f].ready PROVE Unsaid(pump[f].ready[i])'
    <3>1. Unsaid(pump[f].ready[i]) /\ pump[f].ready[i] # q.attempt
      BY <2>1 DEF OnceSaid, ReadyOnce
    <3> QED
      BY <1>1, <1>6, <3>1 DEF Unsaid, Done
  <2> QED
    BY <1>1, <2>1 DEF OnceSaid, ReadyOnce
<1>8. RequestedOnce'
  <2> SUFFICES ASSUME NEW r \in requests' PROVE Unsaid(r.attempt)'
    BY DEF RequestedOnce
  <2>1. Unsaid(r.attempt) /\ r.attempt # q.attempt
    BY <1>1, <1>5 DEF OnceSaid, RequestedOnce
  <2> QED
    BY <1>1, <1>6, <2>1 DEF Unsaid, Done
<1>9. StatusesAgree'
  <2> SUFFICES ASSUME NEW m \in StatusMsg, NEW n \in StatusMsg,
                      Said(m)', Said(n)', m.attempt = n.attempt
               PROVE  m.ok = n.ok
    BY DEF StatusesAgree
  <2>1. CASE m.attempt = q.attempt
    BY <1>3, <1>4, <2>1 DEF Unsaid
  <2>2. CASE m.attempt # q.attempt
    BY <1>2, <1>3, <2>2 DEF OnceSaid, StatusesAgree
  <2> QED
    BY <2>1, <2>2
<1>10. RecordedAsSaid'
  <2> SUFFICES ASSUME NEW m \in StatusMsg, Said(m)', Done(m.attempt)
               PROVE  attempts[m.attempt.task][m.attempt.n].status = Outcome(m)
    BY <1>1 DEF RecordedAsSaid, Done, Outcome
  <2>1. m # new
    BY <1>2, <1>4 DEF Unsaid
  <2> QED
    BY <1>3, <2>1 DEF OnceSaid, RecordedAsSaid
<1>11. \A f \in Executors : HandlerSays(handler[f])'
  BY <1>1 DEF OnceSaid, HandlerSays
<1> QED
  BY <1>7, <1>8, <1>9, <1>10, <1>11 DEF OnceSaid

LEMMA OutsideOnceSaid ==
  ASSUME IInv, OnceSaid,
         \/ \E r \in Runs : Planner(r) \/ PlannerCrash(r)
         \/ \E e \in Executors : ExecutorCrash(e) \/ ExecutorStart(e)
         \/ \E q \in requests : WorkerLose(q)
         \/ UNCHANGED vars
  PROVE  OnceSaid'
<1>1. CASE \E e \in Executors : ExecutorCrash(e)
  <2> PICK e \in Executors : ExecutorCrash(e)
    BY <1>1
  <2>1. UNCHANGED <<attempts, requests>>
        /\ \A f \in Executors : f # e => pump'[f] = pump[f] /\ handler'[f] = handler[f]
    BY DEF ExecutorCrash, PumpTo, HandlerTo, dbVars, IInv, TypeOK
  <2>2. pump'[e].ready = <<>> /\ handler'[e].msg = None /\ handler'[e].pc = "idle"
        /\ \A f \in Executors : statuses'[f] \subseteq statuses[f]
    BY ExecutorCrashDoes DEF PumpIdle, HandlerIdle
  <2>3. \A f \in Executors : HandlerSays(handler[f])'
    BY <2>1, <2>2 DEF OnceSaid, HandlerSays
  <2>4. \A f \in Executors : /\ pump'[f].ready = pump[f].ready \/ pump'[f].ready = <<>>
                             /\ handler'[f].msg \in {None, handler[f].msg} \cup statuses[f]
    BY <2>1, <2>2
  <2> QED
    BY <2>1, <2>2, <2>3, <2>4, OnceSaidKept
<1>2. CASE ~\E e \in Executors : ExecutorCrash(e)
  <2>1. UNCHANGED <<attempts, statuses, pump, handler>> /\ requests' \subseteq requests
    BY <1>2 DEF Planner, PlannerSaveRun, PlannerSaveTask, PlannerCrash, ExecutorStart, WorkerLose,
                dbVars, netVars, vars
  <2>2. \A f \in Executors : HandlerSays(handler[f])'
    BY <2>1 DEF OnceSaid, HandlerSays
  <2> QED
    BY <2>1, <2>2, OnceSaidKept
<1> QED
  BY <1>1, <1>2

LEMMA StepOnceSaid ==
  ASSUME OneReplica PROVE IInv /\ OnceSaid /\ [Next]_vars => OnceSaid'
  BY PumpOnceSaid, PumpSaveTaskRunOnceSaid, PumpPublishOnceSaid, HandlerOnceSaid,
     HandlerSaveTaskRunOnceSaid, WorkerAnswerOnceSaid, OutsideOnceSaid DEF Next

\* With one replica, an attempt is answered at most once and all who hear of it
\* hear the same, however many executors there are and whatever crashes or is lost.
THEOREM AttemptsAnsweredOnce == ASSUME OneReplica PROVE Spec => []OnceSaid
  BY InitOnceSaid, StepOnceSaid, Invariance, PTL DEF Spec

LEMMA StepAnsweredFinal ==
  ASSUME IInv, OnceSaid, [Next]_vars PROVE AttemptsFinal
<1>1. ASSUME NEW e \in Executors, PumpSaveTaskRun(e) PROVE AttemptsFinal
  BY <1>1, PumpSaveTaskRunFinal, SMTT(30)
<1>2. ASSUME NEW e \in Executors, HandlerSaveTaskRun(e) PROVE AttemptsFinal
  <2> PICK m, t, n : m = handler[e].msg /\ t = m.attempt.task /\ n = m.attempt.n
    OBVIOUS
  <2> DEFINE Row == [status : TaskRunStatus, no : Nat]
  <2>1. /\ t \in Task /\ n \in DOMAIN attempts[t]
        /\ DOMAIN attempts'[t] = DOMAIN attempts[t]
        /\ \A k \in DOMAIN attempts[t] : k # n => attempts'[t][k] = attempts[t][k]
        /\ \A u \in Task : u # t => attempts'[u] = attempts[u]
    BY <1>2, HandlerSaveTaskRunDoes, SMTT(30)
  <2>2. attempts'[t][n].status = Outcome(m) /\ attempts'[t][n].no = attempts[t][n].no
    BY <1>2, HandlerSaveTaskRunDoes DEF Outcome
  <2>3. attempts[t] \in Seq(Row) /\ attempts'[t] \in Seq(Row)
    <3>1. IInv'
      BY <1>2, HandlerSaveTaskRunInv
    <3>2. attempts \in [Task -> Seq(Row)] /\ attempts' \in [Task -> Seq(Row)]
      BY <3>1 DEF IInv, TypeOK
    <3> HIDE DEF Row
    <3> QED
      BY <2>1, <3>2
  <2>4. attempts[t][n] \in Row /\ attempts'[t][n] \in Row
    <3> HIDE DEF Row
    <3>1. \A s \in Seq(Row) : \A k \in DOMAIN s : s[k] \in Row
      OBVIOUS
    <3>2. n \in DOMAIN attempts[t] /\ n \in DOMAIN attempts'[t]
      BY <2>1
    <3> QED
      BY <2>3, <3>1, <3>2
  <2>5. \A x, y \in Row : x.status = y.status /\ x.no = y.no => x = y
    OBVIOUS
  <2> HIDE DEF Row
  <2>6. m \in StatusMsg /\ Said(m)
    <3>1. handler[e].pc = "save_run"
      BY <1>2, HandlerSaveTaskRunDoes
    <3>2. handler[e].msg \in StatusMsg /\ Said(handler[e].msg)
      BY <3>1, HeldIsSaid, SMTT(30)
    <3> QED
      BY <3>2, Zenon
  <2>7. ASSUME attempts[t][n].status \in TerminalRun PROVE attempts'[t][n] = attempts[t][n]
    <3>1. attempts[t][n].status = Outcome(m)
      BY <2>6, <2>7 DEF OnceSaid, RecordedAsSaid, Done
    <3>2. attempts'[t][n].status = attempts[t][n].status
      BY <2>2, <3>1
    <3> QED
      BY <2>2, <2>4, <2>5, <3>2
  <2> QED
    BY <2>1, <2>7 DEF AttemptsFinal
<1>3. CASE UNCHANGED attempts
  BY <1>3 DEF AttemptsFinal
<1> QED
  BY <1>1, <1>2, <1>3, AttemptSteps

\* An attempt that has an outcome keeps it, although several executors may
\* record it: with one replica they all record the same.
THEOREM AnsweredOutcomeIsFinal == ASSUME OneReplica PROVE Spec => AttemptOutcomeFinal
<1>1. IInv /\ OnceSaid /\ [Next]_vars =>
        [\A t \in Task : \A n \in DOMAIN attempts[t] :
           attempts[t][n].status \in TerminalRun => attempts'[t][n] = attempts[t][n]]_vars
  BY StepAnsweredFinal DEF AttemptsFinal
<1> QED
  BY <1>1, Invariance, AttemptsAnsweredOnce, PTL DEF Spec, AttemptOutcomeFinal

\* A task counts as done or failed only on the evidence of an attempt, although
\* several executors may overwrite its row: with one replica, none of them saves
\* an outcome that its own attempt does not have.
THEOREM AnsweredOutcomeHasEvidence == ASSUME OneReplica PROVE Spec => []OutcomeHasEvidence
<1>1. Init => OutcomeHasEvidence
  BY DEF Init, OutcomeHasEvidence, Absent
<1>2. IInv /\ OnceSaid /\ OutcomeHasEvidence /\ [Next]_vars => OutcomeHasEvidence'
  BY StepAnsweredFinal, StepEvidence DEF OnceSaid, HandlerSays, Outcome
<1> QED
  BY <1>1, <1>2, Invariance, AttemptsAnsweredOnce, PTL DEF Spec

=============================================================================
