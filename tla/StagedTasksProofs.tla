------------------------- MODULE StagedTasksProofs -------------------------
(***************************************************************************)
(* Proofs about StagedTasks, for every set of tasks and runs and every     *)
(* assignment of stages.                                                   *)
(***************************************************************************)
EXTENDS StagedTasks, TLAPS

\* The derived status of a run is one of the statuses a run can have.
LEMMA ReportType == ASSUME NEW S PROVE DagStatusFromTasks(S) \in DagRunStatus
  BY DEF DagStatusFromTasks, DagRunStatus

\* Every reachable state is well typed.
THEOREM TypeCorrect == Spec => []TypeOK
<1>1. Init => TypeOK
  BY DEF Init, TypeOK, DagRunStatus, Begun
<1>2. TypeOK /\ [Next]_vars => TypeOK'
  <2> SUFFICES ASSUME TypeOK, [Next]_vars PROVE TypeOK'
    OBVIOUS
  <2>1. ASSUME NEW t \in Tasks, Add(t) PROVE TypeOK'
    BY <2>1 DEF Add, TypeOK
  <2>2. ASSUME NEW t \in Tasks, Start(t) PROVE TypeOK'
    BY <2>2 DEF Start, TypeOK, Begun
  <2>3. ASSUME NEW t \in Tasks, Finish(t) PROVE TypeOK'
    BY <2>3 DEF Finish, TypeOK, Begun
  <2>4. ASSUME NEW r \in Runs, Open(r) PROVE TypeOK'
    BY <2>4 DEF Open, TypeOK, DagRunStatus
  <2>5. ASSUME NEW r \in Runs, Report(r) PROVE TypeOK'
    BY <2>5, ReportType DEF Report, TypeOK
  <2>6. CASE UNCHANGED vars
    BY <2>6 DEF vars, TypeOK
  <2> QED
    BY <2>1, <2>2, <2>3, <2>4, <2>5, <2>6 DEF Next
<1> QED
  BY <1>1, <1>2, PTL DEF Spec

\* While a task is running or finished, everything in the stages before it has
\* succeeded.  The invariant is inductive: nothing can join a stage that a later
\* task has passed, and nothing that has succeeded changes.
THEOREM StagesRespectedAlways ==
  ASSUME StageOf \in [Tasks -> Nat]
  PROVE  Spec => []StagesRespected
<1>1. Init => StagesRespected
  BY DEF Init, StagesRespected, Begun, Absent
<1>2. TypeOK /\ StagesRespected /\ [Next]_vars => StagesRespected'
  <2> SUFFICES ASSUME TypeOK, StagesRespected, [Next]_vars PROVE StagesRespected'
    OBVIOUS
  <2> USE DEF Earlier, Begun, Absent
  <2>1. ASSUME NEW t \in Tasks, Add(t) PROVE StagesRespected'
    <3> SUFFICES ASSUME NEW u \in Tasks, state'[u] \in Begun,
                        NEW s \in Earlier(u), state'[s] # Absent
                 PROVE  state'[s] = "success"
      BY DEF StagesRespected
    <3>1. u # t /\ state[u] = state'[u]
      BY <2>1 DEF Add, TypeOK
    <3>2. s # t
      BY <2>1, <3>1 DEF Add, Later
    <3> QED
      BY <2>1, <3>1, <3>2 DEF Add, TypeOK, StagesRespected
  <2>2. ASSUME NEW t \in Tasks, Start(t) PROVE StagesRespected'
    <3> SUFFICES ASSUME NEW u \in Tasks, state'[u] \in Begun,
                        NEW s \in Earlier(u), state'[s] # Absent
                 PROVE  state'[s] = "success"
      BY DEF StagesRespected
    <3>1. s # t
      <4>1. u # t => state[u] \in Begun
        BY <2>2 DEF Start, TypeOK
      <4>2. t \notin Earlier(t)
        OBVIOUS
      <4> QED
        BY <2>2, <4>1, <4>2 DEF Start, TypeOK, StagesRespected
    <3> QED
      BY <2>2, <3>1 DEF Start, TypeOK, StagesRespected
  <2>3. ASSUME NEW t \in Tasks, Finish(t) PROVE StagesRespected'
    <3> SUFFICES ASSUME NEW u \in Tasks, state'[u] \in Begun,
                        NEW s \in Earlier(u), state'[s] # Absent
                 PROVE  state'[s] = "success"
      BY DEF StagesRespected
    <3>1. state[u] \in Begun
      BY <2>3 DEF Finish, TypeOK
    <3>2. state[s] = "success" \/ s = t
      BY <2>3, <3>1 DEF Finish, TypeOK, StagesRespected
    <3> QED
      BY <2>3, <3>1, <3>2 DEF Finish, TypeOK, StagesRespected
  <2>4. ASSUME NEW r \in Runs, Open(r) PROVE StagesRespected'
    BY <2>4 DEF Open, StagesRespected
  <2>5. ASSUME NEW r \in Runs, Report(r) PROVE StagesRespected'
    BY <2>5 DEF Report, StagesRespected
  <2>6. CASE UNCHANGED vars
    BY <2>6 DEF vars, StagesRespected
  <2> QED
    BY <2>1, <2>2, <2>3, <2>4, <2>5, <2>6 DEF Next
<1> QED
  BY <1>1, <1>2, TypeCorrect, PTL DEF Spec

\* Success and failure of a task are final.
THEOREM OutcomesAreFinal == Spec => OutcomesFinal
<1>1. TypeOK /\ [Next]_vars =>
        [\A t \in Tasks : state[t] \in {"success", "failed"} => state'[t] = state[t]]_vars
  <2> SUFFICES ASSUME TypeOK, Next, NEW u \in Tasks, state[u] \in {"success", "failed"}
               PROVE  state'[u] = state[u]
    OBVIOUS
  <2>1. ASSUME NEW t \in Tasks, Add(t) \/ Start(t) \/ Finish(t) PROVE state'[u] = state[u]
    BY <2>1 DEF Add, Start, Finish, TypeOK, Absent
  <2>2. ASSUME NEW r \in Runs, Open(r) \/ Report(r) PROVE state'[u] = state[u]
    BY <2>2 DEF Open, Report
  <2> QED
    BY <2>1, <2>2 DEF Next
<1> QED
  BY <1>1, TypeCorrect, PTL DEF Spec, OutcomesFinal
=============================================================================
