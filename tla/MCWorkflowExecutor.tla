------------------------ MODULE MCWorkflowExecutor ------------------------
(* Instances of WorkflowExecutor for TLC. *)
EXTENDS WorkflowExecutor

CONSTANT r1

FullProfile == ProfileSequence
NoBacklog   == <<>>
OneRun      == <<r1>>
=============================================================================
