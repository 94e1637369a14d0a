----------------------------- MODULE MCPipelines -----------------------------
(***************************************************************************)
(* Instances of the control plane for TLC: the whole pipeline of one       *)
(* executor, perhaps with crashes, two replicas of each worker, and two    *)
(* executors over one database.  Each behaviour is one of them.            *)
(***************************************************************************)
EXTENDS WorkflowExecutor

CONSTANTS
  Parts,  \* the instances to explore
  r1, e1, e2, w1, w2

VARIABLE part

FullProfile == ProfileSequence
OneRun      == <<r1>>

\* The scheduler's own tests seed one task or two, and so do the instances whose
\* replicas or executors multiply.
Replicated ==
  INSTANCE WorkflowExecutor WITH
    Workers <- {w1, w2}, Profile <- <<"chunker", "embedder", "indexer">>, FallibleKinds <- {"chunker"},
    ChunkSetCounts <- {1}

Doubled ==
  INSTANCE WorkflowExecutor WITH
    Executors <- {e1, e2}, Profile <- <<"extractor">>, FallibleKinds <- {"extractor"},
    MaxAttempts <- 1

PipelinesInit ==
  /\ part \in Parts
  /\ \/ part = "pipeline" /\ Init
     \/ part = "replicas" /\ Replicated!Init
     \/ part = "executors" /\ Doubled!Init

PipelinesNext ==
  /\ UNCHANGED part
  /\ \/ part = "pipeline" /\ Next
     \/ part = "replicas" /\ Replicated!Next
     \/ part = "executors" /\ Doubled!Next

PipelinesSpec == PipelinesInit /\ [][PipelinesNext]_<<part, vars>>

\* DagStatusAgrees of WorkflowExecutor, which is about one executor: outside the
\* handling of a status, a run is finished exactly when its tasks say so.
RunStatusAgrees == part # "executors" => DagStatusAgrees

\* TaskOutcomeFinal of WorkflowExecutor, which is about one executor: a finished task
\* never changes again, although two replicas answer each of its requests.
OutcomeStaysFinal ==
  [][part # "executors" =>
       \A t \in Task : task[t] \in {"success", "failed"} => task'[t] = task[t]]_<<part, vars>>
=============================================================================
