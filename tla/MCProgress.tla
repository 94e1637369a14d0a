----------------------------- MODULE MCProgress -----------------------------
(***************************************************************************)
(* What must eventually happen, for TLC: a worker replica that serves      *)
(* requests and shuts down (WorkerRuntime), and a run that is planned      *)
(* beside the executor (WorkflowExecutor).  Each behaviour exercises one   *)
(* of them and leaves the other as it was.                                 *)
(***************************************************************************)
EXTENDS WorkerRuntime, Sequences

CONSTANTS
  sound, garbled, flaky, stuck,
  Executors, Workers, Runs, Profile, Backlog, FallibleKinds, ChunkSetCounts, MaxAttempts,
  MaxBatch, MaxFanOut, MaxAbandoned, MaxCrashes, MaxLosses, None

VARIABLES
  part,
  dagRun, task, result, created, clock, attempts, planned, abandoned, pump, handler,
  requests, statuses, up, crashes, losses

\* One request of each sort.
OneOfEach == {sound, garbled, flaky, stuck}

Domain == INSTANCE WorkflowDomain

FullProfile == Domain!ProfileSequence
NoBacklog   == <<>>

executorVars ==
  <<dagRun, task, result, created, clock, attempts, planned, abandoned, pump, handler,
    requests, statuses, up, crashes, losses>>

E == INSTANCE WorkflowExecutor

ProgressInit ==
  /\ part \in {"worker", "planning"}
  /\ Init /\ E!Init

ProgressNext ==
  /\ UNCHANGED part
  /\ \/ part = "worker" /\ Next /\ UNCHANGED executorVars
     \/ part = "planning" /\ E!Next /\ UNCHANGED vars

\* Each part has the fairness of its own module.  Nothing of the replica's is fair
\* before a request, a signal or the end of the subscription has come, which they do
\* in its own part only.
ProgressFairness ==
  /\ Fairness
  /\ \A r \in Runs : WF_executorVars(part = "planning" /\ E!Planner(r))
  /\ \A e \in Executors :
       /\ WF_executorVars(part = "planning" /\ E!Pump(e))
       /\ WF_executorVars(part = "planning" /\ E!Handler(e))
       /\ WF_executorVars(part = "planning" /\ E!ExecutorStart(e))
  /\ WF_executorVars(part = "planning" /\ \E q \in requests : E!WorkerAnswer(q))

ProgressSpec ==
  /\ ProgressInit /\ [][ProgressNext]_<<part, vars, executorVars>>
  /\ ProgressFairness

\* See WorkflowExecutor.
RunsSettle == part = "planning" => E!RunsSettle
=============================================================================
