---------------------------- MODULE StagedTasks ----------------------------
(***************************************************************************)
(* What the workflow executor promises, without saying how: a task starts  *)
(* only when every earlier stage of its run is done, a finished task stays *)
(* as it is, and the status reported for a run is the one its tasks have   *)
(* at the moment of the report.  There are no attempts, no messages, no    *)
(* processes and no failures here; WorkflowExecutor implements this with   *)
(* state <- task and report <- dagRun.                                     *)
(***************************************************************************)
EXTENDS WorkflowDomain

CONSTANTS
  Tasks,    \* every task that may ever exist
  Runs,
  RunOf,    \* RunOf[t]: the run of task t
  StageOf   \* StageOf[t]: its stage

VARIABLES
  state,   \* the status of each task, or Absent
  report   \* the reported status of each run, or Absent

vars == <<state, report>>

Begun == {"running", "success", "failed"}

Earlier(t) == {s \in Tasks : RunOf[s] = RunOf[t] /\ StageOf[s] < StageOf[t]}
Later(t)   == {s \in Tasks : RunOf[s] = RunOf[t] /\ StageOf[t] < StageOf[s]}

TasksIn(r) == {t \in Tasks : RunOf[t] = r /\ state[t] # Absent}

Init ==
  /\ state \in [Tasks -> {"pending", Absent}]
  /\ report \in [Runs -> {"created", Absent}]

\* A new task, as long as no later stage has begun.
Add(t) ==
  /\ state[t] = Absent
  /\ \A s \in Later(t) : state[s] \notin Begun
  /\ state' = [state EXCEPT ![t] = "pending"]
  /\ UNCHANGED report

Start(t) ==
  /\ state[t] = "pending"
  /\ \A s \in Earlier(t) : state[s] # Absent => state[s] = "success"
  /\ state' = [state EXCEPT ![t] = "running"]
  /\ UNCHANGED report

\* The task ends, or goes back to be tried again.
Finish(t) ==
  /\ state[t] = "running"
  /\ \E outcome \in {"success", "failed", "pending"} :
       state' = [state EXCEPT ![t] = outcome]
  /\ UNCHANGED report

Open(r) ==
  /\ report[r] = Absent
  /\ report' = [report EXCEPT ![r] = "created"]
  /\ UNCHANGED state

\* A report is true when it is made.
Report(r) ==
  /\ report[r] # Absent
  /\ TasksIn(r) # {}
  /\ report' = [report EXCEPT ![r] = DagStatusFromTasks({state[t] : t \in TasksIn(r)})]
  /\ UNCHANGED state

Next ==
  \/ \E t \in Tasks : Add(t) \/ Start(t) \/ Finish(t)
  \/ \E r \in Runs : Open(r) \/ Report(r)

Spec == Init /\ [][Next]_vars

-----------------------------------------------------------------------------

TypeOK ==
  /\ state \in [Tasks -> Begun \cup {"pending", Absent}]
  /\ report \in [Runs -> DagRunStatus \cup {Absent}]

\* While a task is running or finished, everything in the stages before it has
\* succeeded: what the dependency check of the scheduler is for.
StagesRespected ==
  \A t \in Tasks : state[t] \in Begun =>
    \A s \in Earlier(t) : state[s] # Absent => state[s] = "success"

\* Success and failure of a task are final.
OutcomesFinal ==
  [][\A t \in Tasks : state[t] \in {"success", "failed"} => state'[t] = state[t]]_vars
============================================================================
