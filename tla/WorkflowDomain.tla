--------------------------- MODULE WorkflowDomain ---------------------------
(***************************************************************************)
(* The pure rules of the workflow executor: the status words of DAG runs,  *)
(* tasks and attempts, the stage order of the task kinds, and the          *)
(* decisions the scheduler takes from them.  Everything here is a          *)
(* constant-level operator; the state lives in WorkflowExecutor.           *)
(***************************************************************************)
EXTENDS Naturals

DagRunStatus ==
  {"created", "running", "success", "failed", "cancelled", "partial_failed"}

TaskStatus == {"pending", "ready", "running", "success", "failed", "skipped"}

TaskRunStatus == {"created", "running", "success", "failed", "aborted"}

\* A row that no process has saved yet.
Absent == "absent"

TerminalRun == {"success", "failed", "aborted"}

TerminalDag == {"success", "failed", "cancelled", "partial_failed"}

\* The kinds the scheduler knows, in the order of their stages.
StageOrder ==
  [extractor |-> 0, normalizer |-> 1, chunker |-> 2, embedder |-> 3, indexer |-> 4]

\* usize::MAX, the stage of a kind the scheduler does not know.
UnknownStage == 5

OrderingForKind(kind) ==
  IF kind \in DOMAIN StageOrder THEN StageOrder[kind] ELSE UnknownStage

\* A sibling with this status no longer holds back the stages after it.
Unblocks(status) == status \in {"success", "skipped"}

\* Mutation of IsReady: one finished predecessor is enough.
IsReadyAfterAny(kind, status, sibs, stat) ==
  LET idx == OrderingForKind(kind)
  IN  /\ status \in {"pending", "ready"}
      /\ \/ idx \in {0, UnknownStage}
         \/ \E s \in sibs : OrderingForKind(s.kind) < idx /\ Unblocks(stat[s])

\* May a task of this kind and status start, when stat[s] is the status (or
\* Absent) of each sibling s in sibs?
IsReady(kind, status, sibs, stat) ==
  LET idx == OrderingForKind(kind)
  IN  /\ status \in {"pending", "ready"}
      /\ \/ idx \in {0, UnknownStage}
         \/ \A s \in sibs :
              stat[s] # Absent /\ OrderingForKind(s.kind) < idx
                => Unblocks(stat[s])

\* The status of a DAG run whose tasks have these statuses.
DagStatusFromTasks(statuses) ==
  IF "failed" \in statuses THEN "failed"
  ELSE IF \A s \in statuses : Unblocks(s) THEN "success"
  ELSE "running"

\* Mutations of ShouldRetry: the boundary one too far, and one too early.
ShouldRetryTooFar(attempts, max_attempts)   == attempts <= max_attempts
ShouldRetryTooEarly(attempts, max_attempts) == attempts + 1 < max_attempts

\* RetryPolicy::should_retry: attempts is the number of attempts made so far.
ShouldRetry(attempts, max_attempts) == attempts < max_attempts

\* The task kinds the planner gives every DAG run, whatever its profile.
ProfileSequence == <<"extractor", "normalizer", "chunker", "embedder", "indexer">>
=============================================================================
